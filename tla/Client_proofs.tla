--------------------------- MODULE Client_proofs ---------------------------
(***************************************************************************)
(* Proofs about Client, for every number of challenges, observations and   *)
(* messages, hence of games that overlap: the buffer of the game has one   *)
(* user at a time, and the two semaphores around it implement the channel  *)
(* of module Canal; one thread at a time talks to the user, one challenge  *)
(* at a time waits for its answer, and the listening thread never waits    *)
(* for a buffer that nobody is going to free.                              *)
(***************************************************************************)
EXTENDS Client, FiniteSetTheorems, TLAPS

-----------------------------------------------------------------------------
(* The inductive invariant. *)

PcEcoute == {"select", "joueurs", "sollicite", "semOKGame", "copie", "mort"}
PcJeu    == {"futur", "attend", "repond", "joueurs", "rend", "finit", "mort"}
Genres   == {"rien", "info", "demande_fin", "coups", "fin", "reponse"}
Messages == [genre : Genres, n : Nat]

Types ==
  /\ ecoute \in [pc : PcEcoute, m : Messages, annule : BOOLEAN]
  /\ jeux \in [Jeux -> [pc : PcJeu, end : BOOLEAN]]
  /\ fils \in [menu : Nat, jeu : Nat, observeur : Nat]
  /\ sem \in [Semaphores -> Int]
  /\ bufferJeu \in Messages
  /\ historique \in [ecrits : Nat, lus : Nat, accidents : SUBSET Accidents]

\* The places in the tour of the buffer: free, being written, full, being read.
Libre == /\ sem["game"] = 0 /\ sem["okGame"] = 1 /\ ecoute.pc # "copie"
         /\ \A j \in Jeux : ~Tient(j)
         /\ historique.lus = historique.ecrits

Copie == /\ sem["game"] = 0 /\ sem["okGame"] = 0 /\ ecoute.pc = "copie"
         /\ \A j \in Jeux : ~Tient(j)
         /\ historique.lus = historique.ecrits

Plein == /\ sem["game"] = 1 /\ sem["okGame"] = 0 /\ ecoute.pc # "copie"
         /\ \A j \in Jeux : ~Tient(j)
         /\ historique.ecrits = historique.lus + 1
         /\ bufferJeu.n = historique.ecrits

Lu == /\ sem["game"] = 0 /\ sem["okGame"] = 0 /\ ecoute.pc # "copie"
      /\ \E j \in Jeux : Tient(j) /\ \A i \in Jeux : Tient(i) => i = j
      /\ historique.lus = historique.ecrits

Tour == Libre \/ Copie \/ Plein \/ Lu

\* The message that waits for the buffer is the next one.
Suivant == ecoute.pc \in {"semOKGame", "copie"} => ecoute.m.n = historique.ecrits + 1

\* The threads that do not exist yet, or no more.
JeuxFuturs == \A j \in Jeux : j > fils.jeu => jeux[j].pc \in {"futur", "mort"}

IInv == Types /\ JeuxFuturs /\ (EnVie => Tour /\ Suivant)

\* The mapping of Canal.
placeBar == IF ~EnVie THEN "ferme"
            ELSE IF sem["game"] = 1 THEN "plein"
            ELSE IF \E j \in Jeux : Tient(j) THEN "lu" ELSE "vide"
varsBar == <<placeBar, historique.ecrits, historique.lus>>

\* What the steps that have nothing to do with the buffer leave alone.
Neutre ==
  /\ UNCHANGED <<jeux, bufferJeu, programme>>
  /\ Types'
  /\ fils'.jeu = fils.jeu
  /\ sem'["game"] = sem["game"] /\ sem'["okGame"] = sem["okGame"]
  /\ historique'.ecrits = historique.ecrits /\ historique'.lus = historique.lus
  /\ \/ ecoute'.pc = ecoute.pc /\ ecoute'.m = ecoute.m
     \/ ecoute.pc # "copie" /\ ecoute'.pc \notin {"semOKGame", "copie"}

\* A step of that kind keeps the invariant and is a stutter of the channel.
LEMMA NeutrePas ==
  ASSUME IInv, Neutre
  PROVE  IInv' /\ varsBar' = varsBar
<1>1. EnVie' <=> EnVie
  BY DEF Neutre, EnVie
<1>2. \A j \in Jeux : Tient(j)' <=> Tient(j)
  BY DEF Neutre, Tient
<1>3. JeuxFuturs'
  BY DEF IInv, Neutre, JeuxFuturs
<1>4. ASSUME EnVie PROVE Tour' /\ Suivant'
  <2>1. Tour /\ Suivant
    BY <1>4 DEF IInv
  <2>2. Suivant'
    BY <2>1 DEF Neutre, Suivant
  <2>3. CASE Libre
    BY <2>3, <2>2, <1>2 DEF Neutre, Libre, Tour
  <2>4. CASE Copie
    BY <2>4, <2>2, <1>2 DEF Neutre, Copie, Tour
  <2>5. CASE Plein
    BY <2>5, <2>2, <1>2 DEF Neutre, Plein, Tour
  <2>6. CASE Lu
    BY <2>6, <2>2, <1>2 DEF Neutre, Lu, Tour
  <2> QED BY <2>1, <2>3, <2>4, <2>5, <2>6 DEF Tour
<1>5. varsBar' = varsBar
  BY <1>1, <1>2 DEF Neutre, varsBar, placeBar
<1> QED BY <1>1, <1>3, <1>4, <1>5 DEF IInv, Neutre

\* The hazards are noted beside the counts of messages.
LEMMA NoterType ==
  ASSUME NEW A \in SUBSET Accidents, Types, Noter(A)
  PROVE  /\ historique' \in [ecrits : Nat, lus : Nat, accidents : SUBSET Accidents]
         /\ historique'.ecrits = historique.ecrits /\ historique'.lus = historique.lus
BY DEF Types, Noter

-----------------------------------------------------------------------------
(* The steps that have nothing to do with the buffer. *)

\* The listening thread: messages that are not about a game, and its end.
LEMMA EcouteNeutre ==
  ASSUME IInv,
         \/ RecevoirJoueur \/ ModifierListe \/ RecevoirDefi \/ RefuserDefi \/ RecevoirRefus
         \/ RecevoirObs("turn") \/ RecevoirObs("terminer") \/ RecevoirListe \/ ArreterEcoute
  PROVE  Neutre
<1> USE DEF IInv, Neutre, Types, PcEcoute, SemPost, SemWait, Semaphores, AuSelect
<1>1. CASE RecevoirJoueur
  BY <1>1 DEF RecevoirJoueur, tampons
<1>2. CASE ModifierListe
  BY <1>2 DEF ModifierListe, tampons
<1>3. CASE RecevoirDefi
  <2> DEFINE A == SansMenu \cup IF menus[fils.menu].pc = "defi" THEN {"orphelin"} ELSE {}
  <2>1. A \in SUBSET Accidents
    BY DEF SansMenu, Accidents
  <2>2. Noter(A)
    BY <1>3 DEF RecevoirDefi
  <2> HIDE DEF A
  <2> QED BY <1>3, <2>1, <2>2, NoterType DEF RecevoirDefi, tampons
<1>4. CASE RefuserDefi
  BY <1>4 DEF RefuserDefi, Sollicite, CreerMenu, tampons
<1>5. CASE RecevoirRefus
  BY <1>5 DEF RecevoirRefus, threads, tampons
<1>6. ASSUME NEW m \in {"turn", "terminer"}, RecevoirObs(m) PROVE Neutre
  BY <1>6 DEF RecevoirObs
<1>7. CASE RecevoirListe
  BY <1>7 DEF RecevoirListe, threads, tampons
<1>8. CASE ArreterEcoute
  BY <1>8 DEF ArreterEcoute, tampons
<1> QED BY <1>1, <1>2, <1>3, <1>4, <1>5, <1>6, <1>7, <1>8

\* The menus.
LEMMA MenuNeutre ==
  ASSUME IInv, NEW m \in Menus,
         \/ Menu(m) \/ Quitter(m) \/ ChoisirPartie(m) \/ Defier(m) \/ DemanderParties(m)
         \/ ChoisirObservation(m)
  PROVE  Neutre
<1> USE DEF IInv, Neutre, Types, PcEcoute, SemPost, SemWait, Semaphores
<1>1. CASE VerrouillerListe(m)
  BY <1>1 DEF VerrouillerListe, tampons
<1>2. CASE LibererListe(m)
  BY <1>2 DEF LibererListe, tampons
<1>3. CASE ReprendreApresDefi(m)
  BY <1>3 DEF ReprendreApresDefi, tampons
<1>4. CASE LireParties(m)
  BY <1>4 DEF LireParties, tampons
<1>5. CASE PasserObservateur(m)
  BY <1>5 DEF PasserObservateur, tampons
<1>6. CASE CreerObserveur(m)
  BY <1>6 DEF CreerObserveur, tampons
<1>7. CASE Mourir(m)
  <2> DEFINE A == IF menus[m].pc = "affiche" THEN {"verrouPerdu"}
                  ELSE IF menus[m].pc = "defi" THEN {"orphelin"} ELSE {}
  <2>1. A \in SUBSET Accidents
    BY DEF Accidents
  <2>2. Noter(A)
    BY <1>7 DEF Mourir
  <2> HIDE DEF A
  <2> QED BY <1>7, <2>1, <2>2, NoterType DEF Mourir, tampons
<1>8. CASE Quitter(m)
  BY <1>8 DEF Quitter, tampons
<1>9. CASE ChoisirPartie(m)
  BY <1>9 DEF ChoisirPartie, tampons
<1>10. CASE Defier(m)
  BY <1>10 DEF Defier, tampons
<1>11. CASE DemanderParties(m)
  BY <1>11 DEF DemanderParties, tampons
<1>12. CASE ChoisirObservation(m)
  BY <1>12 DEF ChoisirObservation, tampons
<1> QED
  BY <1>1, <1>2, <1>3, <1>4, <1>5, <1>6, <1>7, <1>8, <1>9, <1>10, <1>11, <1>12 DEF Menu

\* The observers.
LEMMA ObserveNeutre ==
  ASSUME IInv, NEW o \in Observeurs, Observe(o)
  PROVE  Neutre
<1> USE DEF IInv, Neutre, Types, SemWait, Semaphores
<1>1. CASE Rejoindre(o)
  BY <1>1 DEF Rejoindre, tampons
<1>2. CASE LireClavier(o)
  <2>1. PICK ligne \in {"rien", "/quit", "autre"} :
          Noter(IF ligne # "rien" /\ sem["observeur"] > 0 THEN {"messageEcrase"} ELSE {})
    BY <1>2 DEF LireClavier
  <2> DEFINE A == IF ligne # "rien" /\ sem["observeur"] > 0 THEN {"messageEcrase"} ELSE {}
  <2>2. A \in SUBSET Accidents
    BY DEF Accidents
  <2>3. Noter(A)
    BY <2>1
  <2> HIDE DEF A
  <2> QED BY <1>2, <2>2, <2>3, NoterType DEF LireClavier
<1>3. CASE SuivrePartie(o)
  BY <1>3 DEF SuivrePartie, tampons
<1>4. CASE CesserObservation(o)
  BY <1>4 DEF CesserObservation, CreerMenu, tampons
<1> QED BY <1>1, <1>2, <1>3, <1>4 DEF Observe

-----------------------------------------------------------------------------
(* The steps around the buffer.  Each moves it to its next place. *)

\* A thread of a game that is created does not touch the buffer.
LEMMA CreerJeuPas ==
  ASSUME IInv, EnVie, CreerJeu,
         UNCHANGED <<bufferJeu, programme>>, ecoute.pc # "copie", ecoute'.pc = "select",
         Types', sem'["game"] = sem["game"], sem'["okGame"] = sem["okGame"],
         historique'.ecrits = historique.ecrits, historique'.lus = historique.lus
  PROVE  IInv' /\ varsBar' = varsBar
<1> USE DEF IInv, Types
<1>1. \A j \in Jeux : j = fils.jeu + 1 => jeux[j].pc \in {"futur", "mort"}
  BY DEF JeuxFuturs, Jeux
<1>2. \A j \in Jeux : Tient(j)' <=> Tient(j)
  BY <1>1 DEF CreerJeu, Tient, PcJeu
<1>3. JeuxFuturs'
  BY DEF CreerJeu, JeuxFuturs, Jeux
<1>4. Suivant'
  BY DEF Suivant
<1>5. Tour'
  <2>1. CASE Libre
    BY <2>1, <1>2 DEF Libre, Tour
  <2>2. CASE Plein
    BY <2>2, <1>2 DEF Plein, Tour
  <2>3. CASE Lu
    BY <2>3, <1>2 DEF Lu, Tour
  <2> QED BY <2>1, <2>2, <2>3 DEF Copie, Tour
<1>6. varsBar' = varsBar
  BY <1>2 DEF varsBar, placeBar, EnVie
<1> QED BY <1>3, <1>4, <1>5, <1>6

\* The thread that is created has its place.
LEMMA CreerJeuType ==
  ASSUME Types, CreerJeu
  PROVE  /\ jeux' \in [Jeux -> [pc : PcJeu, end : BOOLEAN]]
         /\ fils' \in [menu : Nat, jeu : Nat, observeur : Nat]
<1> USE DEF Types, CreerJeu
<1>1. fils' \in [menu : Nat, jeu : Nat, observeur : Nat]
  OBVIOUS
<1> DEFINE cree == [jeux[fils.jeu + 1] EXCEPT !.pc = "attend"]
<1>2. jeux' = [jeux EXCEPT ![fils.jeu + 1] = cree]
  OBVIOUS
<1>3. fils.jeu + 1 \in Jeux => cree \in [pc : PcJeu, end : BOOLEAN]
  BY DEF PcJeu
<1> HIDE DEF cree
<1>4. jeux' \in [Jeux -> [pc : PcJeu, end : BOOLEAN]]
  BY <1>2, <1>3
<1> QED BY <1>1, <1>4

\* The listening thread: an accept, asked of the user or received.
LEMMA AccordPas ==
  ASSUME IInv, AccepterDefi \/ RecevoirAccord
  PROVE  IInv' /\ varsBar' = varsBar
<1> USE DEF IInv, Types, Semaphores
<1>1. CASE AccepterDefi
  <2>1. EnVie /\ CreerJeu /\ ecoute.pc # "copie" /\ ecoute'.pc = "select"
    BY <1>1 DEF AccepterDefi, Sollicite
  <2>2. Types'
    BY <1>1, CreerJeuType DEF AccepterDefi, PcEcoute, tampons
  <2> QED BY <1>1, <2>1, <2>2, CreerJeuPas DEF AccepterDefi, tampons
<1>2. CASE RecevoirAccord
  <2>1. EnVie /\ CreerJeu /\ ecoute.pc # "copie" /\ ecoute'.pc = "select"
    BY <1>2 DEF RecevoirAccord, AuSelect
  <2>2. PICK A \in SUBSET Accidents : Noter(A)
    BY <1>2 DEF RecevoirAccord, SansMenu, Accidents
  <2>3. Types'
    BY <1>2, <2>2, NoterType, CreerJeuType DEF RecevoirAccord, SemPost, tampons
  <2>4. sem'["game"] = sem["game"] /\ sem'["okGame"] = sem["okGame"]
    BY <1>2 DEF RecevoirAccord, SemPost
  <2> QED BY <1>2, <2>1, <2>2, <2>3, <2>4, NoterType, CreerJeuPas DEF RecevoirAccord, tampons
<1> QED BY <1>1, <1>2

\* A message of a game: the listening thread waits for the buffer with it.
LEMMA RecevoirPartiePas ==
  ASSUME IInv, RecevoirPartie
  PROVE  IInv' /\ varsBar' = varsBar
<1> USE DEF IInv, Types, Semaphores
<1>1. PICK j \in Jeux : \E suite \in Suites(serveur.jeux[j]) :
        /\ ecoute' = [ecoute EXCEPT !.pc = "semOKGame",
                                    !.m = Message(suite[1], historique.ecrits + 1)]
        /\ Noter(IF suite[2] = "clos" \/ (suite[1] = "fin" /\ PlusDeJeu)
                 THEN {"abandonTardif"} ELSE {})
  BY DEF RecevoirPartie
<1>2. PICK genre \in Genres :
        ecoute' = [ecoute EXCEPT !.pc = "semOKGame", !.m = Message(genre, historique.ecrits + 1)]
  <2>1. \A suite \in Suites(serveur.jeux[j]) : suite[1] \in Genres
    BY DEF Suites, Genres
  <2> QED BY <1>1, <2>1
<1>3. PICK A \in SUBSET Accidents : Noter(A)
  BY <1>1 DEF Accidents
<1>4. /\ historique' \in [ecrits : Nat, lus : Nat, accidents : SUBSET Accidents]
      /\ historique'.ecrits = historique.ecrits /\ historique'.lus = historique.lus
  BY <1>3, NoterType
<1>5. UNCHANGED <<jeux, fils, sem, bufferJeu, programme>> /\ EnVie /\ ecoute.pc = "select"
  BY DEF RecevoirPartie, AuSelect, tampons
<1>6. Types'
  <2>1. Message(genre, historique.ecrits + 1) \in Messages
    BY <1>2 DEF Message, Messages
  <2>2. ecoute' \in [pc : PcEcoute, m : Messages, annule : BOOLEAN]
    BY <1>2, <2>1 DEF PcEcoute
  <2> QED BY <2>2, <1>4, <1>5
<1>7. Suivant'
  BY <1>2, <1>4 DEF Suivant, Message
<1>8. \A i \in Jeux : Tient(i)' <=> Tient(i)
  BY <1>5 DEF Tient
<1>9. Tour'
  BY <1>2, <1>4, <1>5, <1>8 DEF Tour, Libre, Copie, Plein, Lu
<1>10. JeuxFuturs'
  BY <1>5 DEF JeuxFuturs
<1>11. varsBar' = varsBar
  BY <1>4, <1>5, <1>8 DEF varsBar, placeBar, EnVie
<1> QED BY <1>6, <1>7, <1>9, <1>10, <1>11

\* sem_wait(&semOKGame): nobody is at the buffer when it succeeds.
LEMMA PrendrePlacePas ==
  ASSUME IInv, PrendrePlace
  PROVE  IInv' /\ varsBar' = varsBar
<1> USE DEF IInv, Types, Semaphores
<1>1. /\ EnVie /\ ecoute.pc = "semOKGame" /\ sem["okGame"] > 0
      /\ ecoute' = [ecoute EXCEPT !.pc = "copie"]
      /\ sem' = [sem EXCEPT !["okGame"] = @ - 1]
      /\ UNCHANGED <<jeux, fils, bufferJeu, programme, historique>>
  BY DEF PrendrePlace, SemWait, tampons
<1>2. Libre
  BY <1>1 DEF Tour, Libre, Copie, Plein, Lu
<1>3. \A i \in Jeux : Tient(i)' <=> Tient(i)
  BY <1>1 DEF Tient
<1>4. Copie'
  BY <1>1, <1>2, <1>3 DEF Libre, Copie
<1>5. Types' /\ JeuxFuturs' /\ Suivant'
  BY <1>1 DEF JeuxFuturs, Suivant, PcEcoute
<1>6. varsBar' = varsBar
  BY <1>1, <1>3 DEF varsBar, placeBar, EnVie
<1> QED BY <1>4, <1>5, <1>6 DEF Tour

\* The copy and sem_post(&semGame): the buffer is full, with the next message.
LEMMA DeposerPas ==
  ASSUME IInv, DeposerMessage
  PROVE  IInv' /\ Canal!Ecrire
<1> USE DEF IInv, Types, Semaphores
<1>1. /\ EnVie /\ ecoute.pc = "copie"
      /\ bufferJeu' = ecoute.m
      /\ ecoute' = [ecoute EXCEPT !.pc = "select", !.m = Rien]
      /\ sem' = [sem EXCEPT !["game"] = @ + 1]
      /\ historique' = [historique EXCEPT !.ecrits = @ + 1]
      /\ UNCHANGED <<jeux, fils, programme>>
  BY DEF DeposerMessage, SemPost
<1>2. Copie /\ ecoute.m.n = historique.ecrits + 1
  BY <1>1 DEF Tour, Libre, Copie, Plein, Lu, Suivant
<1>3. \A i \in Jeux : Tient(i)' <=> Tient(i)
  BY <1>1 DEF Tient
<1>4. Plein'
  BY <1>1, <1>2, <1>3 DEF Copie, Plein
<1>5. Types' /\ JeuxFuturs' /\ Suivant'
  <2>1. Rien \in Messages
    BY DEF Rien, Message, Messages, Genres
  <2>2. ecoute' \in [pc : PcEcoute, m : Messages, annule : BOOLEAN]
    BY <1>1, <2>1 DEF PcEcoute
  <2> QED BY <1>1, <2>2 DEF JeuxFuturs, Suivant
<1>6. Canal!Ecrire
  BY <1>1, <1>2 DEF Canal!Ecrire, Copie, EnVie
<1> QED BY <1>4, <1>5, <1>6 DEF Tour

\* sem_wait(&semGame): one game takes the message.
LEMMA PrendreMessagePas ==
  ASSUME IInv, NEW j \in Jeux, PrendreMessage(j)
  PROVE  IInv' /\ Canal!Lire
<1> USE DEF IInv, Types, Semaphores
<1> DEFINE pc == IF bufferJeu.genre \in Questions THEN "repond"
                 ELSE IF bufferJeu.genre = "fin" THEN "joueurs" ELSE "rend"
<1>1. /\ EnVie /\ jeux[j].pc = "attend" /\ sem["game"] > 0
      /\ jeux' = [jeux EXCEPT ![j].pc = pc, ![j].end = bufferJeu.genre = "fin"]
      /\ sem' = [sem EXCEPT !["game"] = @ - 1]
      /\ historique' = [historique EXCEPT !.lus = bufferJeu.n]
      /\ UNCHANGED <<ecoute, fils, bufferJeu, programme>>
  BY DEF PrendreMessage, SemWait, tampons
<1>2. Plein
  BY <1>1 DEF Tour, Libre, Copie, Plein, Lu
<1>3. pc \in {"repond", "joueurs", "rend"}
  OBVIOUS
<1> HIDE DEF pc
<1>4. Tient(j)' /\ \A i \in Jeux : i # j => ~Tient(i)'
  BY <1>1, <1>2, <1>3 DEF Tient, Plein
<1>5. Lu'
  BY <1>1, <1>2, <1>4 DEF Plein, Lu
<1>6. Types'
  <2> DEFINE pris == [jeux[j] EXCEPT !.pc = pc, !.end = bufferJeu.genre = "fin"]
  <2>1. jeux' \in [Jeux -> [pc : PcJeu, end : BOOLEAN]]
    <3>1. jeux' = [jeux EXCEPT ![j] = pris]
      BY <1>1
    <3>2. pris \in [pc : PcJeu, end : BOOLEAN]
      BY <1>3 DEF PcJeu
    <3> HIDE DEF pris
    <3> QED BY <3>1, <3>2
  <2>2. historique' \in [ecrits : Nat, lus : Nat, accidents : SUBSET Accidents]
    BY <1>1 DEF Messages
  <2> QED BY <1>1, <2>1, <2>2
<1>7. JeuxFuturs' /\ Suivant'
  BY <1>1 DEF JeuxFuturs, Suivant
<1>8. Canal!Lire
  BY <1>1, <1>2, <1>4 DEF Canal!Lire, Plein, EnVie, Messages
<1> QED BY <1>5, <1>6, <1>7, <1>8 DEF Tour

\* The game that has the message works on it.
LEMMA JeuTient ==
  ASSUME IInv, NEW j \in Jeux, RepondreServeur(j) \/ Abandonner(j) \/ RedevenirLibre(j)
  PROVE  IInv' /\ varsBar' = varsBar
<1> USE DEF IInv, Types, Semaphores
<1>1. /\ EnVie /\ Tient(j) /\ jeux[j].pc \notin {"futur", "mort"}
      /\ UNCHANGED <<ecoute, fils, sem, programme>>
      /\ historique'.ecrits = historique.ecrits /\ historique'.lus = historique.lus
      /\ historique' \in [ecrits : Nat, lus : Nat, accidents : SUBSET Accidents]
  <2>1. CASE RepondreServeur(j) \/ RedevenirLibre(j)
    BY <2>1 DEF RepondreServeur, RedevenirLibre, Tient
  <2>2. CASE Abandonner(j)
    <3>1. PICK A \in SUBSET Accidents : Noter(A)
      BY <2>2 DEF Abandonner, Accidents
    <3> QED BY <2>2, <3>1, NoterType DEF Abandonner, Tient
  <2> QED BY <2>1, <2>2
<1>2. bufferJeu' \in Messages /\ bufferJeu'.n = bufferJeu.n
  BY DEF RepondreServeur, Abandonner, RedevenirLibre, tampons, Messages, Genres
<1>3. /\ jeux' \in [Jeux -> [pc : PcJeu, end : BOOLEAN]]
      /\ jeux'[j].pc \in {"joueurs", "rend"}
      /\ \A i \in Jeux \ {j} : jeux'[i] = jeux[i]
  <2>1. CASE RepondreServeur(j) \/ RedevenirLibre(j)
    <3>1. jeux' = [jeux EXCEPT ![j].pc = "rend"]
      BY <2>1 DEF RepondreServeur, RedevenirLibre
    <3> QED BY <3>1 DEF PcJeu
  <2>2. CASE Abandonner(j)
    <3>1. jeux' = [jeux EXCEPT ![j].pc = "joueurs", ![j].end = TRUE]
      BY <2>2 DEF Abandonner
    <3> QED BY <3>1 DEF PcJeu
  <2> QED BY <2>1, <2>2
<1>4. \A i \in Jeux : Tient(i)' <=> Tient(i)
  BY <1>1, <1>3 DEF Tient
<1>5. Tour'
  <2>1. Lu
    BY <1>1 DEF Tour, Libre, Copie, Plein, Lu
  <2> QED BY <2>1, <1>1, <1>4 DEF Tour, Lu
<1>6. Types'
  BY <1>1, <1>2, <1>3
<1>7. JeuxFuturs' /\ Suivant'
  BY <1>1, <1>3 DEF JeuxFuturs, Suivant
<1>8. varsBar' = varsBar
  BY <1>1, <1>4 DEF varsBar, placeBar, EnVie
<1> QED BY <1>5, <1>6, <1>7, <1>8

\* sem_post(&semOKGame): the buffer is free again.
LEMMA RendrePlacePas ==
  ASSUME IInv, NEW j \in Jeux, RendrePlace(j)
  PROVE  IInv' /\ Canal!Rendre
<1> USE DEF IInv, Types, Semaphores
<1>1. /\ EnVie /\ jeux[j].pc = "rend"
      /\ jeux' = [jeux EXCEPT ![j].pc = IF jeux[j].end THEN "finit" ELSE "attend"]
      /\ sem' = [sem EXCEPT !["okGame"] = @ + 1]
      /\ UNCHANGED <<ecoute, fils, bufferJeu, programme, historique>>
  BY DEF RendrePlace, SemPost, tampons
<1>2. Tient(j) /\ Lu
  BY <1>1 DEF Tour, Libre, Copie, Plein, Lu, Tient
<1>3. \A i \in Jeux : ~Tient(i)'
  BY <1>1, <1>2 DEF Lu, Tient
<1>4. Libre'
  BY <1>1, <1>2, <1>3 DEF Libre, Lu
<1>5. Types' /\ JeuxFuturs' /\ Suivant'
  BY <1>1 DEF JeuxFuturs, Suivant, PcJeu
<1>6. Canal!Rendre
  BY <1>1, <1>2, <1>3 DEF Canal!Rendre, EnVie, Lu
<1> QED BY <1>4, <1>5, <1>6 DEF Tour

\* A game that is over gives the menu back and leaves the buffer alone.
LEMMA FinirJeuPas ==
  ASSUME IInv, NEW j \in Jeux, FinirJeu(j)
  PROVE  IInv' /\ varsBar' = varsBar
<1> USE DEF IInv, Types, Semaphores
<1>1. /\ EnVie /\ jeux[j].pc = "finit"
      /\ jeux' = [jeux EXCEPT ![j].pc = "mort"]
      /\ fils' = [fils EXCEPT !.menu = @ + 1]
      /\ UNCHANGED <<ecoute, sem, bufferJeu, programme, historique>>
  BY DEF FinirJeu, CreerMenu, tampons
<1>2. \A i \in Jeux : Tient(i)' <=> Tient(i)
  BY <1>1 DEF Tient
<1>3. Tour'
  BY <1>1, <1>2 DEF Tour, Libre, Copie, Plein, Lu
<1>4. Types' /\ JeuxFuturs' /\ Suivant'
  BY <1>1 DEF JeuxFuturs, Suivant, PcJeu
<1>5. varsBar' = varsBar
  BY <1>1, <1>2 DEF varsBar, placeBar, EnVie
<1> QED BY <1>3, <1>4, <1>5

\* The process is over.
LEMMA FinPas ==
  ASSUME IInv, ServeurDeconnecte \/ Terminer
  PROVE  IInv' /\ Canal!Fermer
<1> USE DEF IInv, Types, Semaphores
<1>1. PICK etat \in {"fini", "plante"} : Finir(etat)
  BY DEF ServeurDeconnecte, Terminer
<1>2. ~EnVie'
  BY <1>1 DEF Finir, EnVie
<1>3. Types'
  <2>1. Rien \in Messages
    BY DEF Rien, Message, Messages, Genres
  <2>2. ecoute' \in [pc : PcEcoute, m : Messages, annule : BOOLEAN]
    BY <1>1, <2>1 DEF Finir, PcEcoute
  <2>3. jeux' \in [Jeux -> [pc : PcJeu, end : BOOLEAN]]
    BY <1>1 DEF Finir, PcJeu
  <2> QED BY <1>1, <2>1, <2>2, <2>3 DEF Finir
<1>4. JeuxFuturs'
  BY <1>1 DEF Finir, JeuxFuturs
<1>5. Canal!Fermer
  BY <1>1, <1>2 DEF Finir, Canal!Fermer
<1> QED BY <1>2, <1>3, <1>4, <1>5

-----------------------------------------------------------------------------
(* The theorems. *)

\* The buffer is free when the program starts.
LEMMA InvInit ==
  ASSUME Init
  PROVE  IInv /\ Canal!Init
<1> USE DEF Init, Semaphores
<1>1. Rien \in Messages
  BY DEF Rien, Message, Messages, Genres
<1>2. Types
  BY <1>1 DEF Types, PcEcoute, PcJeu, Aucun
<1>3. JeuxFuturs /\ Suivant
  BY DEF JeuxFuturs, Suivant
<1>4. Libre
  BY DEF Libre, Tient
<1>5. Canal!Init
  BY <1>4 DEF Canal!Init, Libre, EnVie
<1> QED BY <1>2, <1>3, <1>4, <1>5 DEF IInv, Tour

\* A step of the program keeps the invariant and is a step of the channel, or
\* a stutter.
LEMMA InvPas ==
  ASSUME IInv, [Next]_vars
  PROVE  IInv' /\ (Canal!Next \/ varsBar' = varsBar)
<1> USE DEF Canal!Next
<1>1. CASE RecevoirJoueur \/ ModifierListe \/ RecevoirDefi \/ RefuserDefi \/ RecevoirRefus
           \/ RecevoirObs("turn") \/ RecevoirObs("terminer") \/ RecevoirListe \/ ArreterEcoute
  BY <1>1, EcouteNeutre, NeutrePas
<1>2. CASE AccepterDefi \/ RecevoirAccord
  BY <1>2, AccordPas
<1>3. CASE RecevoirPartie
  BY <1>3, RecevoirPartiePas
<1>4. CASE PrendrePlace
  BY <1>4, PrendrePlacePas
<1>5. CASE DeposerMessage
  BY <1>5, DeposerPas
<1>6. CASE ServeurDeconnecte \/ Terminer
  BY <1>6, FinPas
<1>7. ASSUME NEW m \in Menus,
             \/ Menu(m) \/ Quitter(m) \/ ChoisirPartie(m) \/ Defier(m) \/ DemanderParties(m)
             \/ ChoisirObservation(m)
      PROVE  IInv' /\ (Canal!Next \/ varsBar' = varsBar)
  BY <1>7, MenuNeutre, NeutrePas
<1>8. ASSUME NEW j \in Jeux, RepondreServeur(j) \/ Abandonner(j) \/ Jeu(j)
      PROVE  IInv' /\ (Canal!Next \/ varsBar' = varsBar)
  <2>1. CASE PrendreMessage(j)
    BY <2>1, PrendreMessagePas
  <2>2. CASE RepondreServeur(j) \/ Abandonner(j) \/ RedevenirLibre(j)
    BY <2>2, JeuTient
  <2>3. CASE RendrePlace(j)
    BY <2>3, RendrePlacePas
  <2>4. CASE FinirJeu(j)
    BY <2>4, FinirJeuPas
  <2> QED BY <1>8, <2>1, <2>2, <2>3, <2>4 DEF Jeu
<1>9. ASSUME NEW o \in Observeurs, Observe(o)
      PROVE  IInv' /\ (Canal!Next \/ varsBar' = varsBar)
  BY <1>9, ObserveNeutre, NeutrePas
<1>10. CASE UNCHANGED vars
  <2>1. UNCHANGED <<ecoute, jeux, fils, sem, bufferJeu, programme, historique>>
    BY <1>10 DEF vars, threads, tampons
  <2>2. Neutre
    BY <2>1 DEF Neutre, IInv, Types
  <2> QED BY <2>2, NeutrePas
<1> QED
  BY <1>1, <1>2, <1>3, <1>4, <1>5, <1>6, <1>7, <1>8, <1>9, <1>10
  DEF Next, Reseau, Utilisateur, Ecoute

\* The invariant holds in every state of the program.
THEOREM InvariantClient == Spec => []IInv
<1>1. Init => IInv
  BY InvInit
<1>2. IInv /\ [Next]_vars => IInv'
  BY InvPas
<1> QED BY <1>1, <1>2, PTL DEF Spec

\* For any number of games that overlap, the buffer of the game has one user at
\* a time: the listening thread, one game, or nobody with one semaphore up
\* (listen_info_serveur and jeu, semGame and semOKGame).
THEOREM JetonExclusif == Spec => []JetonPartie
<1>1. IInv => JetonPartie
  <2> SUFFICES ASSUME IInv, EnVie PROVE JetonPartie
    BY DEF JetonPartie
  <2> DEFINE tenants == {j \in Jeux : Tient(j)}
  <2>1. CASE \A j \in Jeux : ~Tient(j)
    <3>1. tenants = {}
      BY <2>1
    <3>2. Cardinality(tenants) = 0
      BY <3>1, FS_EmptySet
    <3>3. Libre \/ Copie \/ Plein
      BY <2>1 DEF IInv, Tour, Lu
    <3> HIDE DEF tenants
    <3>4. sem["game"] + sem["okGame"] + Cardinality(tenants)
            + (IF ecoute.pc = "copie" THEN 1 ELSE 0) = 1
      BY <3>2, <3>3 DEF Libre, Copie, Plein
    <3> QED BY <3>4 DEF JetonPartie, tenants
  <2>2. CASE \E j \in Jeux : Tient(j)
    <3>1. Lu
      BY <2>2 DEF IInv, Tour, Libre, Copie, Plein
    <3>2. PICK j \in Jeux : tenants = {j}
      BY <3>1 DEF Lu
    <3>3. Cardinality(tenants) = 1
      BY <3>2, FS_Singleton
    <3> HIDE DEF tenants
    <3>4. sem["game"] + sem["okGame"] + Cardinality(tenants)
            + (IF ecoute.pc = "copie" THEN 1 ELSE 0) = 1
      BY <3>1, <3>3 DEF Lu
    <3> QED BY <3>4 DEF JetonPartie, tenants
  <2> QED BY <2>1, <2>2
<1> QED BY <1>1, InvariantClient, PTL

\* The threads implement the channel of module Canal: every message of a game
\* that is put is taken once, in order, and nothing is put in the place of a
\* message that was not taken, or is still being read.
THEOREM CanalImplemente == Spec => CanalRespecte
<1>1. Init => Canal!Init
  BY InvInit
<1>2. IInv /\ [Next]_vars => [Canal!Next]_(Canal!vars)
  BY InvPas DEF varsBar, placeBar, Canal!vars
<1> QED BY <1>1, <1>2, InvariantClient, PTL DEF Spec, CanalRespecte, Canal!Spec


-----------------------------------------------------------------------------
(* Types. *)

PcMenu == {"futur", "choix", "joueurs", "affiche", "adversaire", "defi", "liste", "numero",
           "etat3", "observer", "mort"}
PcObs  == {"futur", "debut", "join", "clavier", "attend", "finit", "mort"}
Etats  == {"aucun", "joue", "attend", "fini", "clos"}

TypesFils ==
  /\ menus \in [Menus -> [pc : PcMenu, annule : BOOLEAN]]
  /\ observeurs \in [Observeurs -> [pc : PcObs, cible : Nat, averti : BOOLEAN]]
  /\ serveur \in [jeux : [Jeux -> Etats], defis : Nat, listes : Nat, observe : BOOLEAN]
  /\ compteurs \in [episodes : 0..MaxEpisodes, messages : Nat]
  /\ sem \in [Semaphores -> Nat]

-----------------------------------------------------------------------------
(* How many threads there are. *)

Vivant(pc) == pc \notin {"futur", "mort"}

JeuxVivants == {j \in Jeux : Vivant(jeux[j].pc)}
ObsVivants  == {o \in Observeurs : Vivant(observeurs[o].pc)}
Demandes    == {m \in Menus : menus[m].pc \in {"etat3", "observer"}}
Sollicites  == {e \in {1} : ecoute.pc = "sollicite"}

\* What the episodes begun so far may still become: a challenge received that
\* is not answered, a challenge sent, an observation asked for.
EnAttente == Cardinality(Sollicites) + serveur.defis + Cardinality(Demandes)

\* Each episode gives one game or one observer at most, and one menu.
Budget ==
  /\ fils.menu \in Nat \ {0}
  /\ fils.jeu + fils.observeur + EnAttente <= compteurs.episodes
  /\ fils.menu - 1 + Cardinality(JeuxVivants) + Cardinality(ObsVivants) + EnAttente
       <= compteurs.episodes

\* The threads that were never created.
Futurs ==
  /\ \A m \in Menus : m > fils.menu => menus[m].pc = "futur" /\ ~menus[m].annule
  /\ \A m \in Menus : m <= fils.menu => menus[m].pc # "futur"
  /\ \A o \in Observeurs : o > fils.observeur => observeurs[o].pc = "futur"
  /\ \A j \in Jeux : j > fils.jeu => jeux[j].pc = "futur" /\ ~jeux[j].end

\* The lock of the list of players.
Verrou ==
  /\ sem["joueurs"] \in {0, 1}
  /\ sem["joueurs"] = 1 => \A m \in Menus : menus[m].pc # "affiche"
  /\ \A m, n \in Menus : menus[m].pc = "affiche" /\ menus[n].pc = "affiche" => m = n

-----------------------------------------------------------------------------
(* The dialogue. *)

Actif(m) == Vivant(menus[m].pc) /\ ~menus[m].annule

\* One thread at a time: the last menu, the last game, the last observer or
\* the listening thread.
Dialogue ==
  /\ \A m \in Menus : Actif(m) => m = fils.menu
  /\ \A j \in Jeux : Vivant(jeux[j].pc) => j = fils.jeu
  /\ \A o \in Observeurs : Vivant(observeurs[o].pc) => o = fils.observeur
  /\ \A m \in Menus : menus[m].pc = "observer" => Actif(m)
  /\ \A m \in Menus : Actif(m) => JeuxVivants = {} /\ ObsVivants = {} /\ ecoute.pc # "sollicite"
  /\ JeuxVivants # {} => ObsVivants = {} /\ ecoute.pc # "sollicite"
  /\ ObsVivants # {} => ecoute.pc # "sollicite"

\* The answers that are missing or not yet read, and the menus that wait.
EnDefi == {m \in Menus : menus[m].pc = "defi"}

Reponses == serveur.defis + sem["defi"] = Cardinality(EnDefi)

-----------------------------------------------------------------------------
(* The messages of the game that is played. *)

Depose == ecoute.pc \in {"semOKGame", "copie"}
EnJeu(j) == jeux[j].pc \in {"attend", "repond", "joueurs", "rend"}

\* The buffer holds nothing that ends the game or asks for an answer.
Simple ==
  /\ sem["game"] = 1 => bufferJeu.genre = "info"
  /\ \A j \in Jeux : Tient(j) => jeux[j].pc = "rend"

Courant ==
  /\ \A j \in Jeux : j # fils.jeu => serveur.jeux[j] \in {"aucun", "fini", "clos"}
  /\ Depose \/ sem["game"] = 1 => fils.jeu \in Jeux /\ EnJeu(fils.jeu) /\ ~jeux[fils.jeu].end
  /\ Depose => ecoute.m.genre \in {"info", "demande_fin", "coups", "fin"}
  /\ Depose /\ ecoute.m.genre # "fin" => Simple
  /\ Depose /\ ecoute.m.genre = "fin" =>
       /\ serveur.jeux[fils.jeu] = "fini"
       /\ sem["game"] = 1 => bufferJeu.genre # "fin"
  /\ sem["game"] = 1 => bufferJeu.genre \in {"info", "demande_fin", "coups", "fin"}
  /\ sem["game"] = 1 /\ bufferJeu.genre = "fin" => serveur.jeux[fils.jeu] = "fini"
  /\ fils.jeu \in Jeux /\ serveur.jeux[fils.jeu] = "joue" =>
       /\ EnJeu(fils.jeu) /\ ~jeux[fils.jeu].end
       /\ Simple
       /\ Depose => ecoute.m.genre = "info"
  /\ fils.jeu \in Jeux /\ serveur.jeux[fils.jeu] = "attend" =>
       /\ EnJeu(fils.jeu)
       /\ jeux[fils.jeu].end => jeux[fils.jeu].pc = "joueurs" /\ bufferJeu.genre = "demande_fin"

\* The inductive invariant of the dialogue, with that of the buffer.
Bornes ==
  /\ fils \in [menu : Menus, jeu : Jeux \cup {Aucun}, observeur : Observeurs \cup {Aucun}]
  /\ sem["joueurs"] \in {0, 1}

\* The process is over, and its threads with it.
Arret ==
  /\ ecoute.pc = "mort"
  /\ \A m \in Menus : menus[m].pc = "mort"
  /\ \A j \in Jeux : jeux[j].pc = "mort"
  /\ \A o \in Observeurs : observeurs[o].pc = "mort"

DInv ==
  /\ TypesFils /\ Bornes
  /\ ~EnVie => Arret
  /\ EnVie =>
    /\ Budget /\ Futurs /\ Verrou
    /\ Accident("orphelin") \/ Reponses
    /\ Accident("sansMenu") \/ Dialogue
    /\ Accident("sansMenu") \/ Accident("abandonTardif") \/ Courant


-----------------------------------------------------------------------------
(* Types. *)

PcsMenu == [Menus -> [pc : PcMenu, annule : BOOLEAN]]
PcsObs  == [Observeurs -> [pc : PcObs, cible : Nat, averti : BOOLEAN]]
Serveurs == [jeux : [Jeux -> Etats], defis : Nat, listes : Nat, observe : BOOLEAN]
Compteurs == [episodes : 0..MaxEpisodes, messages : Nat]

\* A menu that moves, is cancelled or is created keeps its type.
LEMMA AllerType ==
  ASSUME menus \in PcsMenu, NEW m, NEW pc \in PcMenu
  PROVE  [menus EXCEPT ![m].pc = pc] \in PcsMenu
<1> USE DEF PcsMenu
<1> DEFINE va == [menus[m] EXCEPT !.pc = pc]
<1>1. [menus EXCEPT ![m].pc = pc] = [menus EXCEPT ![m] = va]
  OBVIOUS
<1>2. m \in Menus => va \in [pc : PcMenu, annule : BOOLEAN]
  OBVIOUS
<1> HIDE DEF va
<1> QED BY <1>1, <1>2

LEMMA AnnulerType ==
  ASSUME menus \in PcsMenu, NEW m
  PROVE  [menus EXCEPT ![m].annule = TRUE] \in PcsMenu
<1> USE DEF PcsMenu
<1> DEFINE an == [menus[m] EXCEPT !.annule = TRUE]
<1>1. [menus EXCEPT ![m].annule = TRUE] = [menus EXCEPT ![m] = an]
  OBVIOUS
<1>2. m \in Menus => an \in [pc : PcMenu, annule : BOOLEAN]
  OBVIOUS
<1> HIDE DEF an
<1> QED BY <1>1, <1>2

LEMMA MenusType ==
  ASSUME menus \in PcsMenu,
         \/ UNCHANGED menus \/ AnnulerMenu \/ CreerMenu
         \/ \E m \in Menus : \E pc \in PcMenu : Aller(m, pc)
         \/ \E m \in Menus : CreerObserveur(m)
         \/ \E etat \in {"fini", "plante"} : Finir(etat)
  PROVE  menus' \in PcsMenu
<1>1. "choix" \in PcMenu
  BY DEF PcMenu
<1>2. CASE AnnulerMenu
  BY <1>2, AnnulerType DEF AnnulerMenu
<1>3. CASE CreerMenu
  BY <1>1, <1>3, AllerType DEF CreerMenu
<1>4. ASSUME NEW m \in Menus, NEW pc \in PcMenu, Aller(m, pc) PROVE menus' \in PcsMenu
  BY <1>4, AllerType DEF Aller
<1>5. ASSUME NEW m \in Menus, CreerObserveur(m) PROVE menus' \in PcsMenu
  <2> DEFINE va == [menus EXCEPT ![m].pc = "choix"]
  <2>1. va \in PcsMenu
    BY <1>1, AllerType
  <2>2. menus' = [va EXCEPT ![fils.menu].annule = TRUE]
    BY <1>5 DEF CreerObserveur
  <2> DEFINE an == [va[fils.menu] EXCEPT !.annule = TRUE]
  <2>3. menus' = [va EXCEPT ![fils.menu] = an]
    BY <2>2
  <2> HIDE DEF va
  <2>4. fils.menu \in Menus => an \in [pc : PcMenu, annule : BOOLEAN]
    BY <2>1 DEF PcsMenu
  <2> HIDE DEF an
  <2> QED BY <2>1, <2>3, <2>4 DEF PcsMenu
<1>6. CASE \E etat \in {"fini", "plante"} : Finir(etat)
  BY <1>6 DEF Finir, PcsMenu, PcMenu
<1> QED BY <1>2, <1>3, <1>4, <1>5, <1>6

\* What the server does with this client.
LEMMA ServeurType ==
  ASSUME serveur \in Serveurs, NEW j, NEW etat \in Etats
  PROVE  [serveur EXCEPT !.jeux[j] = etat] \in Serveurs
<1> DEFINE autres == [serveur.jeux EXCEPT ![j] = etat]
<1>1. autres \in [Jeux -> Etats]
  BY DEF Serveurs
<1>2. [serveur EXCEPT !.jeux[j] = etat] = [serveur EXCEPT !.jeux = autres]
  BY DEF Serveurs
<1> HIDE DEF autres
<1> QED BY <1>1, <1>2 DEF Serveurs

LEMMA ServeurAccordType ==
  ASSUME serveur \in Serveurs, NEW j, NEW etat \in Etats, serveur.defis > 0
  PROVE  [serveur EXCEPT !.defis = @ - 1, !.jeux[j] = etat] \in Serveurs
<1> DEFINE autres == [serveur.jeux EXCEPT ![j] = etat]
           n == serveur.defis - 1
<1>1. autres \in [Jeux -> Etats]
  BY DEF Serveurs
<1>3. n \in Nat
  <2>1. serveur.defis \in Nat
    BY DEF Serveurs
  <2> QED BY <2>1
<1>2. [serveur EXCEPT !.defis = @ - 1, !.jeux[j] = etat]
        = [serveur EXCEPT !.defis = n, !.jeux = autres]
  BY DEF Serveurs
<1> HIDE DEF autres, n
<1> QED BY <1>1, <1>2, <1>3 DEF Serveurs

\* The semaphores.
LEMMA SemType ==
  ASSUME sem \in [Semaphores -> Nat],
         UNCHANGED sem \/ \E s \in Semaphores : SemWait(s) \/ SemPost(s)
  PROVE  sem' \in [Semaphores -> Nat]
BY DEF SemWait, SemPost

\* An observer that moves keeps its type.
LEMMA ObservateurType ==
  ASSUME observeurs \in PcsObs, NEW o, NEW pc \in PcObs
  PROVE  [observeurs EXCEPT ![o].pc = pc] \in PcsObs
<1> DEFINE va == [observeurs[o] EXCEPT !.pc = pc]
<1>1. [observeurs EXCEPT ![o].pc = pc] = [observeurs EXCEPT ![o] = va]
  BY DEF PcsObs
<1>2. o \in Observeurs => va \in [pc : PcObs, cible : Nat, averti : BOOLEAN]
  BY DEF PcsObs
<1> HIDE DEF va
<1> QED BY <1>1, <1>2 DEF PcsObs

\* The listening thread.
LEMMA EcouteTypes ==
  ASSUME TypesFils, Types,
         \/ RecevoirJoueur \/ RecevoirDefi \/ RecevoirAccord \/ RecevoirRefus
         \/ RecevoirPartie \/ RecevoirObs("turn") \/ RecevoirObs("terminer") \/ RecevoirListe
         \/ AccepterDefi \/ RefuserDefi
         \/ PrendrePlace \/ DeposerMessage \/ ArreterEcoute \/ ModifierListe
  PROVE  TypesFils'
<1> USE DEF TypesFils, Semaphores, SemPost, SemWait
<1>c. MaxEpisodes \in Nat
  BY ClientAssumption
<1>m. menus \in PcsMenu /\ serveur \in Serveurs /\ compteurs \in Compteurs
  BY DEF PcsMenu, Serveurs, Compteurs
<1>e. Episode \/ CompterMessage \/ UNCHANGED compteurs => compteurs' \in Compteurs
  BY <1>c, <1>m DEF Episode, CompterMessage, Compteurs
<1>1. CASE RecevoirJoueur
  <2>1. compteurs' \in Compteurs
    BY <1>1, <1>e DEF RecevoirJoueur
  <2> QED BY <1>1, <2>1 DEF RecevoirJoueur, Compteurs
<1>2. CASE RecevoirDefi
  <2>1. menus' \in PcsMenu /\ compteurs' \in Compteurs
    BY <1>2, <1>m, <1>e, MenusType DEF RecevoirDefi
  <2> QED BY <1>2, <2>1 DEF RecevoirDefi, PcsMenu, Compteurs
<1>3. CASE RecevoirAccord
  <2>1. menus' \in PcsMenu
    BY <1>3, <1>m, MenusType DEF RecevoirAccord
  <2>2. PICK etat \in {"joue", "clos"} :
          serveur' = [serveur EXCEPT !.defis = @ - 1, !.jeux[fils.jeu + 1] = etat]
    BY <1>3 DEF RecevoirAccord
  <2>3. serveur.defis > 0 /\ etat \in Etats
    BY <1>3 DEF RecevoirAccord, Etats
  <2>4. serveur' \in Serveurs
    BY <1>m, <2>2, <2>3, ServeurAccordType
  <2>5. sem' \in [Semaphores -> Nat] /\ UNCHANGED <<observeurs, compteurs>>
    BY <1>3 DEF RecevoirAccord
  <2> QED BY <2>1, <2>4, <2>5 DEF PcsMenu, Serveurs
<1>4. CASE RecevoirRefus
  BY <1>4 DEF RecevoirRefus, threads
<1>5. CASE RecevoirPartie
  <2>1. PICK j \in Jeux : \E suite \in Suites(serveur.jeux[j]) :
          serveur' = [serveur EXCEPT !.jeux[j] = suite[2]]
    BY <1>5 DEF RecevoirPartie
  <2>2. \A suite \in Suites(serveur.jeux[j]) : suite[2] \in Etats
    BY DEF Suites, Etats
  <2>3. serveur' \in Serveurs
    BY <1>m, <2>1, <2>2, ServeurType
  <2>4. compteurs' \in Compteurs
    BY <1>5, <1>e DEF RecevoirPartie
  <2> QED BY <1>5, <2>3, <2>4 DEF RecevoirPartie, Serveurs, Compteurs
<1>6. ASSUME NEW g \in {"turn", "terminer"}, RecevoirObs(g) PROVE TypesFils'
  <2>1. observeurs' \in PcsObs
    BY <1>6 DEF RecevoirObs, Avertir, PcsObs
  <2>2. serveur' \in Serveurs
    BY <1>6 DEF RecevoirObs, Serveurs
  <2>3. compteurs' \in Compteurs
    BY <1>6, <1>e DEF RecevoirObs
  <2>4. sem' \in [Semaphores -> Nat] /\ UNCHANGED menus
    BY <1>6 DEF RecevoirObs
  <2> QED BY <2>1, <2>2, <2>3, <2>4 DEF Serveurs, Compteurs, PcsObs
<1>7. CASE RecevoirListe
  BY <1>7 DEF RecevoirListe, threads
<1>8. CASE AccepterDefi
  <2>1. PICK etat \in {"joue", "clos"} : serveur' = [serveur EXCEPT !.jeux[fils.jeu + 1] = etat]
    BY <1>8 DEF AccepterDefi
  <2>2. serveur' \in Serveurs
    BY <1>m, <2>1, ServeurType DEF Etats
  <2> QED BY <1>8, <2>2 DEF AccepterDefi, Serveurs
<1>9. CASE RefuserDefi
  <2>1. menus' \in PcsMenu
    BY <1>9, <1>m, MenusType DEF RefuserDefi
  <2> QED BY <1>9, <2>1 DEF RefuserDefi, PcsMenu
<1>10. CASE PrendrePlace
  BY <1>10 DEF PrendrePlace
<1>11. CASE DeposerMessage
  BY <1>11 DEF DeposerMessage
<1>12. CASE ArreterEcoute
  BY <1>12 DEF ArreterEcoute
<1>13. CASE ModifierListe
  BY <1>13 DEF ModifierListe
<1> QED BY <1>1, <1>2, <1>3, <1>4, <1>5, <1>6, <1>7, <1>8, <1>9, <1>10, <1>11, <1>12, <1>13

\* The menus.
LEMMA MenuTypes ==
  ASSUME TypesFils, Types, NEW m \in Menus,
         \/ Menu(m) \/ Quitter(m) \/ ChoisirPartie(m) \/ Defier(m) \/ DemanderParties(m)
         \/ ChoisirObservation(m)
  PROVE  TypesFils'
<1> USE DEF TypesFils, Semaphores
<1>c. MaxEpisodes \in Nat
  BY ClientAssumption
<1>m. menus \in PcsMenu /\ compteurs \in Compteurs
  BY DEF PcsMenu, Compteurs
<1>e. Episode \/ UNCHANGED compteurs => compteurs' \in Compteurs
  BY <1>c, <1>m DEF Episode, Compteurs
<1>p. {"choix", "joueurs", "affiche", "adversaire", "defi", "liste", "numero",
       "etat3", "observer", "mort"} \subseteq PcMenu
  BY DEF PcMenu
<1>1. menus' \in PcsMenu
  <2>1. CASE CreerObserveur(m)
    BY <2>1, <1>m, MenusType
  <2>2. ASSUME ~CreerObserveur(m) PROVE \E pc \in PcMenu : Aller(m, pc)
    BY <2>2, <1>p
    DEF Menu, Quitter, ChoisirPartie, VerrouillerListe, LibererListe, Defier, ReprendreApresDefi,
        DemanderParties, LireParties, ChoisirObservation, PasserObservateur, Mourir
  <2> QED BY <2>1, <2>2, <1>m, MenusType
<1>2. compteurs' \in Compteurs
  BY <1>e
  DEF Menu, Quitter, ChoisirPartie, VerrouillerListe, LibererListe, Defier, ReprendreApresDefi,
      DemanderParties, LireParties, ChoisirObservation, PasserObservateur, Mourir, CreerObserveur
<1>3. sem' \in [Semaphores -> Nat]
  <2>1. UNCHANGED sem \/ \E s \in Semaphores : SemWait(s) \/ SemPost(s)
    BY DEF Menu, Quitter, ChoisirPartie, VerrouillerListe, LibererListe, Defier,
           ReprendreApresDefi, DemanderParties, LireParties, ChoisirObservation,
           PasserObservateur, Mourir, CreerObserveur
  <2> QED BY <2>1, SemType
<1>4. serveur' \in Serveurs
  <2>1. CASE Defier(m)
    BY <2>1 DEF Defier, Serveurs
  <2>2. CASE DemanderParties(m)
    BY <2>2 DEF DemanderParties, Serveurs
  <2>3. CASE ChoisirObservation(m)
    <3>1. PICK o \in BOOLEAN : serveur' = [serveur EXCEPT !.observe = o] \/ UNCHANGED serveur
      BY <2>3 DEF ChoisirObservation
    <3> QED BY <3>1 DEF Serveurs
  <2>4. CASE Menu(m) \/ Quitter(m) \/ ChoisirPartie(m)
    BY <2>4 DEF Menu, Quitter, ChoisirPartie, VerrouillerListe, LibererListe, ReprendreApresDefi,
                LireParties, PasserObservateur, Mourir, CreerObserveur, Serveurs
  <2> QED BY <2>1, <2>2, <2>3, <2>4
<1>5. observeurs' \in PcsObs
  <2>1. CASE CreerObserveur(m)
    <3> DEFINE cree == [observeurs[fils.observeur + 1] EXCEPT !.pc = "debut"]
    <3>1. observeurs' = [observeurs EXCEPT ![fils.observeur + 1] = cree]
      BY <2>1 DEF CreerObserveur
    <3>2. fils.observeur + 1 \in Observeurs => cree \in [pc : PcObs, cible : Nat, averti : BOOLEAN]
      BY DEF PcObs
    <3> HIDE DEF cree
    <3> QED BY <3>1, <3>2 DEF PcsObs
  <2>2. ASSUME ~CreerObserveur(m) PROVE observeurs' \in PcsObs
    BY <2>2
    DEF Menu, Quitter, ChoisirPartie, VerrouillerListe, LibererListe, Defier, ReprendreApresDefi,
        DemanderParties, LireParties, ChoisirObservation, PasserObservateur, Mourir, PcsObs
  <2> QED BY <2>1, <2>2
<1> QED BY <1>1, <1>2, <1>3, <1>4, <1>5 DEF PcsMenu, Compteurs, Serveurs, PcsObs

\* The games.
LEMMA JeuTypes ==
  ASSUME TypesFils, Types, NEW j \in Jeux, Jeu(j) \/ RepondreServeur(j) \/ Abandonner(j)
  PROVE  TypesFils'
<1> USE DEF TypesFils, Semaphores
<1>m. menus \in PcsMenu /\ serveur \in Serveurs
  BY DEF PcsMenu, Serveurs
<1>1. menus' \in PcsMenu
  BY <1>m, MenusType
  DEF Jeu, PrendreMessage, RedevenirLibre, RendrePlace, FinirJeu, RepondreServeur, Abandonner
<1>2. serveur' \in Serveurs
  <2>1. \A fin \in BOOLEAN : \A etat \in Etats : Jouee(etat, fin) \in Etats
    BY DEF Jouee, Etats
  <2>2. ASSUME NEW fin \in BOOLEAN
        PROVE  [serveur EXCEPT !.jeux[fils.jeu] = Jouee(@, fin)] \in Serveurs
    <3>1. CASE fils.jeu \in Jeux
      <4> DEFINE etat == Jouee(serveur.jeux[fils.jeu], fin)
      <4>1. etat \in Etats
        BY <2>1, <3>1
      <4>2. [serveur EXCEPT !.jeux[fils.jeu] = Jouee(@, fin)]
              = [serveur EXCEPT !.jeux[fils.jeu] = etat]
        OBVIOUS
      <4> HIDE DEF etat
      <4> QED BY <1>m, <4>1, <4>2, ServeurType
    <3>2. CASE fils.jeu \notin Jeux
      BY <1>m, <3>2 DEF Serveurs
    <3> QED BY <3>1, <3>2
  <2>3. CASE RepondreServeur(j)
    BY <2>2, <2>3 DEF RepondreServeur
  <2>4. CASE RedevenirLibre(j)
    BY <1>m, <2>2, <2>4 DEF RedevenirLibre
  <2>5. ASSUME ~RepondreServeur(j), ~RedevenirLibre(j) PROVE UNCHANGED serveur
    BY <2>5 DEF Jeu, PrendreMessage, RendrePlace, FinirJeu, Abandonner
  <2> QED BY <1>m, <2>3, <2>4, <2>5
<1>3. /\ UNCHANGED <<observeurs, compteurs>>
      /\ UNCHANGED sem \/ \E s \in Semaphores : SemWait(s) \/ SemPost(s)
  BY DEF Jeu, PrendreMessage, RedevenirLibre, RendrePlace, FinirJeu, RepondreServeur, Abandonner
<1>4. sem' \in [Semaphores -> Nat]
  BY <1>3, SemType
<1> QED BY <1>1, <1>2, <1>3, <1>4 DEF PcsMenu, Serveurs

\* The observers.
LEMMA ObserveTypes ==
  ASSUME TypesFils, Types, NEW o \in Observeurs, Observe(o)
  PROVE  TypesFils'
<1> USE DEF TypesFils, Semaphores, SemPost, SemWait
<1>m. menus \in PcsMenu
  BY DEF PcsMenu
<1>1. menus' \in PcsMenu
  BY <1>m, MenusType DEF Observe, Rejoindre, LireClavier, SuivrePartie, CesserObservation
<1>2. observeurs' \in PcsObs
  <2>o. observeurs \in PcsObs
    BY DEF PcsObs
  <2>p. {"debut", "join", "clavier", "attend", "finit", "mort"} \subseteq PcObs
    BY DEF PcObs
  <2>1. CASE Rejoindre(o)
    <3>1. CASE observeurs' = [observeurs EXCEPT ![o].pc = "join", ![o].cible = fils.menu]
      <4> DEFINE va == [observeurs[o] EXCEPT !.pc = "join", !.cible = fils.menu]
      <4>1. observeurs' = [observeurs EXCEPT ![o] = va]
        BY <3>1
      <4>2. va \in [pc : PcObs, cible : Nat, averti : BOOLEAN]
        <5>1. fils.menu \in Nat
          BY DEF Types
        <5>2. observeurs[o] \in [pc : PcObs, cible : Nat, averti : BOOLEAN]
          OBVIOUS
        <5> QED BY <2>p, <5>1, <5>2
      <4> HIDE DEF va
      <4> QED BY <4>1, <4>2 DEF PcsObs
    <3>2. CASE observeurs' = [observeurs EXCEPT ![o].pc = "clavier"]
      BY <2>o, <2>p, <3>2, ObservateurType
    <3> QED BY <2>1, <3>1, <3>2 DEF Rejoindre
  <2>2. CASE LireClavier(o)
    <3>1. PICK pc \in {"finit", "attend"} : observeurs' = [observeurs EXCEPT ![o].pc = pc]
      BY <2>2 DEF LireClavier
    <3> QED BY <2>o, <2>p, <3>1, ObservateurType
  <2>3. CASE SuivrePartie(o)
    <3>1. PICK pc \in {"finit", "clavier"} : observeurs' = [observeurs EXCEPT ![o].pc = pc]
      BY <2>3 DEF SuivrePartie
    <3> QED BY <2>o, <2>p, <3>1, ObservateurType
  <2>4. CASE CesserObservation(o)
    BY <2>4, <2>o, <2>p, ObservateurType DEF CesserObservation
  <2> QED BY <2>1, <2>2, <2>3, <2>4 DEF Observe
<1>3. sem' \in [Semaphores -> Nat] /\ UNCHANGED compteurs
  BY DEF Observe, Rejoindre, LireClavier, SuivrePartie, CesserObservation
<1>4. serveur' \in Serveurs
  BY DEF Observe, Rejoindre, LireClavier, SuivrePartie, CesserObservation, Serveurs
<1> QED BY <1>1, <1>2, <1>3, <1>4 DEF PcsMenu, Serveurs, PcsObs

\* Every step keeps the types.
LEMMA TypesPas ==
  ASSUME TypesFils, Types, [Next]_vars
  PROVE  TypesFils'
<1>1. CASE ServeurDeconnecte \/ Terminer
  <2>1. PICK etat \in {"fini", "plante"} : Finir(etat)
    BY <1>1 DEF ServeurDeconnecte, Terminer
  <2>2. menus' \in PcsMenu
    BY <2>1, MenusType DEF TypesFils, PcsMenu
  <2>3. observeurs' \in PcsObs
    BY <2>1 DEF Finir, PcsObs, PcObs, Aucun
  <2> QED BY <2>1, <2>2, <2>3 DEF Finir, TypesFils, PcsMenu, PcsObs, Etats
<1>2. CASE UNCHANGED vars
  BY <1>2 DEF vars, threads, TypesFils
<1> QED BY <1>1, <1>2, EcouteTypes, MenuTypes, JeuTypes, ObserveTypes
    DEF Next, Reseau, Utilisateur, Ecoute

-----------------------------------------------------------------------------
(* Counting threads. *)

\* The sets that are counted are finite.
LEMMA Fini ==
  ASSUME NEW S \in SUBSET Menus
  PROVE  IsFiniteSet(S) /\ Cardinality(S) \in Nat
<1>1. IsFiniteSet(Menus)
  BY ClientAssumption, FS_Interval DEF Menus
<1>2. IsFiniteSet(S)
  BY <1>1, FS_Subset
<1> QED BY <1>2, FS_CardinalityType

\* One thing more, or one less, counts for one.
LEMMA Inclus ==
  ASSUME NEW S \in SUBSET Menus, NEW T \in SUBSET Menus, T \subseteq S
  PROVE  Cardinality(T) <= Cardinality(S)
BY Fini, FS_Subset

LEMMA Ajout ==
  ASSUME NEW S \in SUBSET Menus, NEW T \in SUBSET Menus, NEW x, T \subseteq S \cup {x}
  PROVE  Cardinality(T) <= Cardinality(S) + 1
<1>1. /\ IsFiniteSet(S \cup {x})
      /\ Cardinality(S \cup {x}) = IF x \in S THEN Cardinality(S) ELSE Cardinality(S) + 1
  BY Fini, FS_AddElement
<1>2. Cardinality(T) <= Cardinality(S \cup {x})
  BY <1>1, FS_Subset
<1>3. Cardinality(S) \in Nat /\ Cardinality(T) \in Nat
  BY Fini
<1> QED BY <1>1, <1>2, <1>3

LEMMA Retrait ==
  ASSUME NEW S \in SUBSET Menus, NEW T \in SUBSET Menus, NEW x \in S, T \subseteq S \ {x}
  PROVE  Cardinality(T) <= Cardinality(S) - 1
<1>1. IsFiniteSet(S \ {x}) /\ Cardinality(S \ {x}) = Cardinality(S) - 1
  BY Fini, FS_RemoveElement
<1>2. Cardinality(T) <= Cardinality(S \ {x})
  BY <1>1, FS_Subset
<1> QED BY <1>1, <1>2

\* The sets of threads, before and after a step.
LEMMA Ensembles ==
  /\ JeuxVivants \in SUBSET Menus /\ ObsVivants \in SUBSET Menus
  /\ Demandes \in SUBSET Menus /\ Sollicites \in SUBSET Menus /\ EnDefi \in SUBSET Menus
  /\ JeuxVivants' \in SUBSET Menus /\ ObsVivants' \in SUBSET Menus
  /\ Demandes' \in SUBSET Menus /\ Sollicites' \in SUBSET Menus /\ EnDefi' \in SUBSET Menus
<1>1. Jeux \subseteq Menus /\ Observeurs \subseteq Menus /\ {1} \subseteq Menus
  BY ClientAssumption DEF Jeux, Observeurs, Menus
<1> QED BY <1>1 DEF JeuxVivants, ObsVivants, Demandes, Sollicites, EnDefi

LEMMA Nombres ==
  /\ Cardinality(JeuxVivants) \in Nat /\ Cardinality(ObsVivants) \in Nat
  /\ Cardinality(Demandes) \in Nat /\ Cardinality(Sollicites) \in Nat
  /\ Cardinality(EnDefi) \in Nat
  /\ Cardinality(JeuxVivants') \in Nat /\ Cardinality(ObsVivants') \in Nat
  /\ Cardinality(Demandes') \in Nat /\ Cardinality(Sollicites') \in Nat
  /\ Cardinality(EnDefi') \in Nat
BY Ensembles, Fini

-----------------------------------------------------------------------------
(* The budget. *)

\* Where nothing is created the budget is kept.
LEMMA BudgetStable ==
  ASSUME Budget, Types, TypesFils, TypesFils',
         UNCHANGED <<fils, compteurs.episodes>>,
         serveur'.defis <= serveur.defis,
         JeuxVivants' \subseteq JeuxVivants, ObsVivants' \subseteq ObsVivants,
         Demandes' \subseteq Demandes, Sollicites' \subseteq Sollicites
  PROVE  Budget'
<1>1. /\ Cardinality(JeuxVivants') <= Cardinality(JeuxVivants)
      /\ Cardinality(ObsVivants') <= Cardinality(ObsVivants)
      /\ Cardinality(Demandes') <= Cardinality(Demandes)
      /\ Cardinality(Sollicites') <= Cardinality(Sollicites)
  BY Ensembles, Inclus
<1>2. /\ fils.menu \in Nat /\ fils.jeu \in Nat /\ fils.observeur \in Nat
      /\ serveur.defis \in Nat /\ serveur'.defis \in Nat
      /\ compteurs.episodes \in Int
  BY ClientAssumption DEF Types, TypesFils
<1> QED BY <1>1, <1>2, Nombres DEF Budget, EnAttente

\* The listening thread.
LEMMA BudgetEcoute ==
  ASSUME Budget, Types, TypesFils, TypesFils',
         \/ RecevoirJoueur \/ RecevoirDefi \/ RecevoirAccord \/ RecevoirRefus
         \/ RecevoirPartie \/ RecevoirObs("turn") \/ RecevoirObs("terminer") \/ RecevoirListe
         \/ AccepterDefi \/ RefuserDefi
         \/ PrendrePlace \/ DeposerMessage \/ ArreterEcoute \/ ModifierListe
  PROVE  Budget'
<1>n. /\ fils.menu \in Nat /\ fils.jeu \in Nat /\ fils.observeur \in Nat
      /\ serveur.defis \in Nat /\ serveur'.defis \in Nat
      /\ compteurs.episodes \in Int
  BY ClientAssumption DEF Types, TypesFils
<1>t. /\ ecoute \in [pc : PcEcoute, m : Messages, annule : BOOLEAN]
      /\ jeux \in [Jeux -> [pc : PcJeu, end : BOOLEAN]]
      /\ fils \in [menu : Nat, jeu : Nat, observeur : Nat]
      /\ menus \in PcsMenu /\ observeurs \in PcsObs /\ serveur \in Serveurs
      /\ compteurs \in Compteurs
  BY DEF Types, TypesFils, PcsMenu, PcsObs, Serveurs, Compteurs
<1> USE DEF AuSelect, Sollicite
<1>1. ASSUME RecevoirDefi PROVE Budget'
  <2>1. /\ UNCHANGED <<jeux, observeurs, fils, serveur>>
        /\ compteurs'.episodes = compteurs.episodes + 1
    BY <1>1, <1>t DEF RecevoirDefi, Episode, Compteurs
  <2>2. Demandes' \subseteq Demandes
    BY <1>1, <1>t DEF RecevoirDefi, AnnulerMenu, Demandes, PcsMenu
  <2>3. Sollicites' \subseteq Sollicites \cup {1}
    BY DEF Sollicites
  <2>4. JeuxVivants' = JeuxVivants /\ ObsVivants' = ObsVivants
    BY <2>1 DEF JeuxVivants, ObsVivants
  <2>5. /\ Cardinality(Demandes') <= Cardinality(Demandes)
        /\ Cardinality(Sollicites') <= Cardinality(Sollicites) + 1
    BY <2>2, <2>3, Ensembles, Inclus, Ajout
  <2> QED BY <1>n, <2>1, <2>4, <2>5, Nombres DEF Budget, EnAttente
<1>2. ASSUME AccepterDefi PROVE Budget'
  <2>1. /\ UNCHANGED <<menus, observeurs, compteurs>>
        /\ fils' = [fils EXCEPT !.jeu = @ + 1]
        /\ serveur'.defis = serveur.defis
    BY <1>2, <1>t DEF AccepterDefi, CreerJeu, Serveurs
  <2>2. Demandes' = Demandes /\ ObsVivants' = ObsVivants
    BY <2>1 DEF Demandes, ObsVivants
  <2>3. JeuxVivants' \subseteq JeuxVivants \cup {fils.jeu + 1}
    BY <1>2, <1>t DEF AccepterDefi, CreerJeu, JeuxVivants
  <2>4. 1 \in Sollicites /\ Sollicites' \subseteq Sollicites \ {1}
    BY <1>2, <1>t DEF AccepterDefi, Sollicites
  <2>5. /\ Cardinality(JeuxVivants') <= Cardinality(JeuxVivants) + 1
        /\ Cardinality(Sollicites') <= Cardinality(Sollicites) - 1
    BY <2>3, <2>4, Ensembles, Ajout, Retrait
  <2> QED BY <1>n, <1>t, <2>1, <2>2, <2>5, Nombres DEF Budget, EnAttente
<1>3. ASSUME RefuserDefi PROVE Budget'
  <2>1. /\ UNCHANGED <<jeux, observeurs, compteurs, serveur>>
        /\ fils' = [fils EXCEPT !.menu = @ + 1]
    BY <1>3 DEF RefuserDefi, CreerMenu
  <2>2. JeuxVivants' = JeuxVivants /\ ObsVivants' = ObsVivants
    BY <2>1 DEF JeuxVivants, ObsVivants
  <2>3. Demandes' \subseteq Demandes
    BY <1>3, <1>t DEF RefuserDefi, CreerMenu, Demandes, PcsMenu
  <2>4. 1 \in Sollicites /\ Sollicites' \subseteq Sollicites \ {1}
    BY <1>3, <1>t DEF RefuserDefi, Sollicites
  <2>5. /\ Cardinality(Demandes') <= Cardinality(Demandes)
        /\ Cardinality(Sollicites') <= Cardinality(Sollicites) - 1
    BY <2>3, <2>4, Ensembles, Inclus, Retrait
  <2> QED BY <1>n, <1>t, <2>1, <2>2, <2>5, Nombres DEF Budget, EnAttente
<1>4. ASSUME RecevoirAccord PROVE Budget'
  <2>1. /\ UNCHANGED <<ecoute, observeurs, compteurs>>
        /\ fils' = [fils EXCEPT !.jeu = @ + 1]
        /\ serveur'.defis = serveur.defis - 1
    BY <1>4, <1>t DEF RecevoirAccord, CreerJeu, Serveurs
  <2>2. Sollicites' = Sollicites /\ ObsVivants' = ObsVivants
    BY <2>1 DEF Sollicites, ObsVivants
  <2>3. JeuxVivants' \subseteq JeuxVivants \cup {fils.jeu + 1}
    BY <1>4, <1>t DEF RecevoirAccord, CreerJeu, JeuxVivants
  <2>4. Demandes' \subseteq Demandes
    BY <1>4, <1>t DEF RecevoirAccord, AnnulerMenu, Demandes, PcsMenu
  <2>5. /\ Cardinality(JeuxVivants') <= Cardinality(JeuxVivants) + 1
        /\ Cardinality(Demandes') <= Cardinality(Demandes)
    BY <2>3, <2>4, Ensembles, Ajout, Inclus
  <2> QED BY <1>n, <1>t, <2>1, <2>2, <2>5, Nombres DEF Budget, EnAttente
<1>5. ASSUME \/ RecevoirJoueur \/ RecevoirRefus
             \/ RecevoirPartie \/ RecevoirObs("turn") \/ RecevoirObs("terminer") \/ RecevoirListe
             \/ PrendrePlace \/ DeposerMessage \/ ArreterEcoute \/ ModifierListe
      PROVE  Budget'
  <2>1. UNCHANGED <<menus, jeux, fils>>
    BY <1>5
    DEF RecevoirJoueur, RecevoirRefus, RecevoirPartie, RecevoirObs, RecevoirListe, PrendrePlace,
        DeposerMessage, ArreterEcoute, ModifierListe, threads
  <2>2. ecoute'.pc = "sollicite" => ecoute.pc = "sollicite"
    BY <1>5, <1>t
    DEF RecevoirJoueur, RecevoirRefus, RecevoirPartie, RecevoirObs, RecevoirListe, PrendrePlace,
        DeposerMessage, ArreterEcoute, ModifierListe, threads
  <2>3. serveur'.defis <= serveur.defis
    <3>1. CASE RecevoirRefus
      BY <3>1, <1>n, <1>t DEF RecevoirRefus, Serveurs
    <3>2. CASE RecevoirPartie
      <4>1. PICK j \in Jeux : \E suite \in Suites(serveur.jeux[j]) :
              serveur' = [serveur EXCEPT !.jeux[j] = suite[2]]
        BY <3>2 DEF RecevoirPartie
      <4>2. serveur'.defis = serveur.defis
        BY <4>1, <1>t DEF Serveurs
      <4> QED BY <4>2, <1>n
    <3>3. ASSUME NEW g, RecevoirObs(g) PROVE serveur'.defis <= serveur.defis
      BY <3>3, <1>n, <1>t DEF RecevoirObs, Serveurs
    <3>4. CASE RecevoirListe
      BY <3>4, <1>n, <1>t DEF RecevoirListe, Serveurs
    <3>5. CASE RecevoirJoueur \/ PrendrePlace \/ DeposerMessage \/ ArreterEcoute \/ ModifierListe
      BY <3>5, <1>n
      DEF RecevoirJoueur, PrendrePlace, DeposerMessage, ArreterEcoute, ModifierListe
    <3> QED BY <1>5, <3>1, <3>2, <3>3, <3>4, <3>5
  <2>4. UNCHANGED compteurs.episodes
    <3>1. CompterMessage \/ UNCHANGED compteurs
      BY <1>5
      DEF RecevoirJoueur, RecevoirRefus, RecevoirPartie, RecevoirObs, RecevoirListe, PrendrePlace,
          DeposerMessage, ArreterEcoute, ModifierListe
    <3> QED BY <3>1, <1>t DEF CompterMessage, Compteurs
  <2>5. \A o \in Observeurs : observeurs'[o].pc = observeurs[o].pc
    <3>1. ASSUME NEW g, RecevoirObs(g)
          PROVE  \A o \in Observeurs : observeurs'[o].pc = observeurs[o].pc
      BY <3>1, <1>t DEF RecevoirObs, Avertir, PcsObs
    <3>2. CASE \/ RecevoirJoueur \/ RecevoirRefus \/ RecevoirPartie \/ RecevoirListe
               \/ PrendrePlace \/ DeposerMessage \/ ArreterEcoute \/ ModifierListe
      BY <3>2
      DEF RecevoirJoueur, RecevoirRefus, RecevoirPartie, RecevoirListe, PrendrePlace,
          DeposerMessage, ArreterEcoute, ModifierListe, threads
    <3> QED BY <1>5, <3>1, <3>2
  <2>6. /\ JeuxVivants' \subseteq JeuxVivants /\ ObsVivants' \subseteq ObsVivants
        /\ Demandes' \subseteq Demandes /\ Sollicites' \subseteq Sollicites
    BY <2>1, <2>2, <2>5 DEF JeuxVivants, ObsVivants, Demandes, Sollicites
  <2> QED BY <2>1, <2>3, <2>4, <2>6, BudgetStable
<1> QED BY <1>1, <1>2, <1>3, <1>4, <1>5

\* The menus: a challenge or an observation takes an episode, and the observer
\* that is created takes the place of the observation asked for.
LEMMA BudgetMenu ==
  ASSUME Budget, Types, TypesFils, TypesFils', NEW m \in Menus,
         \/ Menu(m) \/ Quitter(m) \/ ChoisirPartie(m) \/ Defier(m) \/ DemanderParties(m)
         \/ ChoisirObservation(m)
  PROVE  Budget'
<1>n. /\ fils.menu \in Nat /\ fils.jeu \in Nat /\ fils.observeur \in Nat
      /\ serveur.defis \in Nat /\ serveur'.defis \in Nat
      /\ compteurs.episodes \in Int
  BY ClientAssumption DEF Types, TypesFils
<1>t. /\ ecoute \in [pc : PcEcoute, m : Messages, annule : BOOLEAN]
      /\ fils \in [menu : Nat, jeu : Nat, observeur : Nat]
      /\ menus \in PcsMenu /\ observeurs \in PcsObs /\ serveur \in Serveurs
      /\ compteurs \in Compteurs
  BY DEF Types, TypesFils, PcsMenu, PcsObs, Serveurs, Compteurs
<1>s. UNCHANGED <<jeux, ecoute.pc>>
  BY <1>t
  DEF Menu, Quitter, ChoisirPartie, VerrouillerListe, LibererListe, Defier, ReprendreApresDefi,
      DemanderParties, LireParties, ChoisirObservation, PasserObservateur, Mourir, CreerObserveur
<1>j. JeuxVivants' = JeuxVivants /\ Sollicites' = Sollicites
  BY <1>s DEF JeuxVivants, Sollicites
<1> USE DEF Au, Aller
<1>1. ASSUME CreerObserveur(m) PROVE Budget'
  <2>1. /\ UNCHANGED <<compteurs, serveur>>
        /\ fils' = [fils EXCEPT !.observeur = @ + 1]
    BY <1>1 DEF CreerObserveur
  <2>2. ObsVivants' \subseteq ObsVivants \cup {fils.observeur + 1}
    BY <1>1, <1>t DEF CreerObserveur, ObsVivants, PcsObs
  <2>3. m \in Demandes /\ Demandes' \subseteq Demandes \ {m}
    BY <1>1, <1>t DEF CreerObserveur, Demandes, PcsMenu
  <2>4. /\ Cardinality(ObsVivants') <= Cardinality(ObsVivants) + 1
        /\ Cardinality(Demandes') <= Cardinality(Demandes) - 1
    BY <2>2, <2>3, Ensembles, Ajout, Retrait
  <2> QED BY <1>n, <1>t, <1>j, <2>1, <2>4, Nombres DEF Budget, EnAttente
<1>2. ASSUME ChoisirObservation(m), Episode PROVE Budget'
  <2>1. UNCHANGED <<fils, observeurs>> /\ compteurs'.episodes = compteurs.episodes + 1
    BY <1>2, <1>t DEF ChoisirObservation, Episode, Compteurs
  <2>2. serveur'.defis = serveur.defis
    BY <1>2, <1>t DEF ChoisirObservation, Serveurs
  <2>3. Demandes' \subseteq Demandes \cup {m}
    BY <1>2, <1>t DEF ChoisirObservation, Demandes, PcsMenu
  <2>4. Cardinality(Demandes') <= Cardinality(Demandes) + 1
    BY <2>3, Ensembles, Ajout
  <2>5. ObsVivants' = ObsVivants
    BY <2>1 DEF ObsVivants
  <2> QED BY <1>n, <1>j, <2>1, <2>2, <2>4, <2>5, Nombres DEF Budget, EnAttente
<1>3. ASSUME Defier(m), Episode PROVE Budget'
  <2>1. /\ UNCHANGED <<fils, observeurs>>
        /\ compteurs'.episodes = compteurs.episodes + 1
    BY <1>3, <1>t DEF Defier, Episode, Compteurs
  <2>2. serveur'.defis <= serveur.defis + 1
    BY <1>3, <1>n, <1>t DEF Defier, Serveurs
  <2>3. Demandes' \subseteq Demandes
    BY <1>3, <1>t DEF Defier, Demandes, PcsMenu
  <2>4. Cardinality(Demandes') <= Cardinality(Demandes)
    BY <2>3, Ensembles, Inclus
  <2>5. ObsVivants' = ObsVivants
    BY <2>1 DEF ObsVivants
  <2> QED BY <1>n, <1>j, <2>1, <2>2, <2>4, <2>5, Nombres DEF Budget, EnAttente
<1>4. ASSUME ~CreerObserveur(m), ~Episode PROVE Budget'
  <2>1. UNCHANGED <<fils, observeurs, compteurs>> /\ serveur'.defis = serveur.defis
    <3>1. CASE DemanderParties(m)
      <4>1. UNCHANGED <<fils, observeurs, compteurs>>
        BY <3>1 DEF DemanderParties
      <4>2. PICK n : serveur' = [serveur EXCEPT !.listes = @ + n]
        BY <3>1 DEF DemanderParties
      <4> QED BY <4>1, <4>2, <1>t DEF Serveurs
    <3>2. CASE ~DemanderParties(m)
      BY <1>4, <3>2
      DEF Menu, Quitter, ChoisirPartie, VerrouillerListe, LibererListe, Defier, ReprendreApresDefi,
          LireParties, ChoisirObservation, PasserObservateur, Mourir
    <3> QED BY <3>1, <3>2
  <2>2. \E pc \in PcMenu \ {"etat3"} : Aller(m, pc) /\ (pc = "observer" => menus[m].pc = "etat3")
    BY <1>4
    DEF Menu, Quitter, ChoisirPartie, VerrouillerListe, LibererListe, Defier, ReprendreApresDefi,
        DemanderParties, LireParties, ChoisirObservation, PasserObservateur, Mourir, PcMenu
  <2>3. Demandes' \subseteq Demandes
    BY <2>2, <1>t DEF Demandes, PcsMenu
  <2>4. ObsVivants' = ObsVivants
    BY <2>1 DEF ObsVivants
  <2> QED BY <1>n, <1>j, <2>1, <2>3, <2>4, BudgetStable
<1>5. ASSUME ~CreerObserveur(m), Episode PROVE ChoisirObservation(m) \/ Defier(m)
  BY <1>5, <1>t
  DEF Menu, Quitter, ChoisirPartie, VerrouillerListe, LibererListe, ReprendreApresDefi,
      DemanderParties, LireParties, PasserObservateur, Mourir, Episode, Compteurs
<1> QED BY <1>1, <1>2, <1>3, <1>4, <1>5

\* The games and the observers: each leaves a menu behind it.
LEMMA BudgetJeu ==
  ASSUME Budget, Types, TypesFils, TypesFils', NEW j \in Jeux,
         Jeu(j) \/ RepondreServeur(j) \/ Abandonner(j)
  PROVE  Budget'
<1>n. /\ fils.menu \in Nat /\ fils.jeu \in Nat /\ fils.observeur \in Nat
      /\ serveur.defis \in Nat /\ serveur'.defis \in Nat
      /\ compteurs.episodes \in Int
  BY ClientAssumption DEF Types, TypesFils
<1>t. /\ jeux \in [Jeux -> [pc : PcJeu, end : BOOLEAN]]
      /\ fils \in [menu : Nat, jeu : Nat, observeur : Nat]
      /\ menus \in PcsMenu /\ serveur \in Serveurs
  BY DEF Types, TypesFils, PcsMenu, Serveurs
<1>s. UNCHANGED <<ecoute, observeurs, compteurs>> /\ serveur'.defis = serveur.defis
  <2>1. UNCHANGED <<ecoute, observeurs, compteurs>>
    BY DEF Jeu, PrendreMessage, RedevenirLibre, RendrePlace, FinirJeu, RepondreServeur, Abandonner
  <2>2. UNCHANGED serveur \/ \E etat : serveur' = [serveur EXCEPT !.jeux[fils.jeu] = etat]
    <3>1. CASE RepondreServeur(j)
      BY <3>1 DEF RepondreServeur
    <3>2. CASE RedevenirLibre(j)
      BY <3>2 DEF RedevenirLibre
    <3>3. CASE ~RepondreServeur(j) /\ ~RedevenirLibre(j)
      BY <3>3 DEF Jeu, PrendreMessage, RendrePlace, FinirJeu, Abandonner
    <3> QED BY <3>1, <3>2, <3>3
  <2> QED BY <2>1, <2>2, <1>t DEF Serveurs
<1>j. ObsVivants' = ObsVivants /\ Sollicites' = Sollicites
  BY <1>s DEF ObsVivants, Sollicites
<1>1. ASSUME FinirJeu(j) PROVE Budget'
  <2>1. fils' = [fils EXCEPT !.menu = @ + 1]
    BY <1>1 DEF FinirJeu, CreerMenu
  <2>2. j \in JeuxVivants /\ JeuxVivants' \subseteq JeuxVivants \ {j}
    BY <1>1, <1>t DEF FinirJeu, JeuxVivants, Vivant
  <2>3. Demandes' \subseteq Demandes
    BY <1>1, <1>t DEF FinirJeu, CreerMenu, Demandes, PcsMenu
  <2>4. /\ Cardinality(JeuxVivants') <= Cardinality(JeuxVivants) - 1
        /\ Cardinality(Demandes') <= Cardinality(Demandes)
    BY <2>2, <2>3, Ensembles, Inclus, Retrait
  <2> QED BY <1>n, <1>t, <1>s, <1>j, <2>1, <2>4, Nombres DEF Budget, EnAttente
<1>2. ASSUME ~FinirJeu(j) PROVE Budget'
  <2>1. UNCHANGED <<menus, fils>>
    BY <1>2 DEF Jeu, PrendreMessage, RedevenirLibre, RendrePlace, RepondreServeur, Abandonner
  <2>2. Vivant(jeux[j].pc) /\ \A i \in Jeux : i # j => jeux'[i] = jeux[i]
    BY <1>2, <1>t
    DEF Jeu, PrendreMessage, RedevenirLibre, RendrePlace, RepondreServeur, Abandonner, Vivant
  <2>3. JeuxVivants' \subseteq JeuxVivants /\ Demandes' = Demandes
    BY <2>1, <2>2 DEF JeuxVivants, Demandes
  <2> QED BY <1>n, <1>s, <1>j, <2>1, <2>3, BudgetStable
<1> QED BY <1>1, <1>2

LEMMA BudgetObserve ==
  ASSUME Budget, Types, TypesFils, TypesFils', NEW o \in Observeurs, Observe(o)
  PROVE  Budget'
<1>n. /\ fils.menu \in Nat /\ fils.jeu \in Nat /\ fils.observeur \in Nat
      /\ serveur.defis \in Nat /\ serveur'.defis \in Nat
      /\ compteurs.episodes \in Int
  BY ClientAssumption DEF Types, TypesFils
<1>t. /\ fils \in [menu : Nat, jeu : Nat, observeur : Nat]
      /\ menus \in PcsMenu /\ observeurs \in PcsObs /\ serveur \in Serveurs
  BY DEF Types, TypesFils, PcsMenu, PcsObs, Serveurs
<1>s. UNCHANGED <<ecoute, jeux, compteurs>> /\ serveur'.defis = serveur.defis
  BY <1>t DEF Observe, Rejoindre, LireClavier, SuivrePartie, CesserObservation, Serveurs
<1>j. JeuxVivants' = JeuxVivants /\ Sollicites' = Sollicites
  BY <1>s DEF JeuxVivants, Sollicites
<1>1. ASSUME CesserObservation(o) PROVE Budget'
  <2>1. fils' = [fils EXCEPT !.menu = @ + 1]
    BY <1>1 DEF CesserObservation, CreerMenu
  <2>2. o \in ObsVivants /\ ObsVivants' \subseteq ObsVivants \ {o}
    BY <1>1, <1>t DEF CesserObservation, ObsVivants, Vivant, PcsObs
  <2>3. Demandes' \subseteq Demandes
    BY <1>1, <1>t DEF CesserObservation, CreerMenu, Demandes, PcsMenu
  <2>4. /\ Cardinality(ObsVivants') <= Cardinality(ObsVivants) - 1
        /\ Cardinality(Demandes') <= Cardinality(Demandes)
    BY <2>2, <2>3, Ensembles, Inclus, Retrait
  <2> QED BY <1>n, <1>t, <1>s, <1>j, <2>1, <2>4, Nombres DEF Budget, EnAttente
<1>2. ASSUME ~CesserObservation(o) PROVE Budget'
  <2>1. UNCHANGED <<menus, fils>>
    BY <1>2 DEF Observe, Rejoindre, LireClavier, SuivrePartie
  <2>2. Vivant(observeurs[o].pc)
    BY <1>2 DEF Observe, Rejoindre, LireClavier, SuivrePartie, Vivant
  <2>3. \A i \in Observeurs : i # o => observeurs'[i] = observeurs[i]
    BY <1>2, <1>t DEF Observe, Rejoindre, LireClavier, SuivrePartie, PcsObs
  <2>4. ObsVivants' \subseteq ObsVivants /\ Demandes' = Demandes
    BY <2>1, <2>2, <2>3 DEF ObsVivants, Demandes
  <2> QED BY <1>n, <1>s, <1>j, <2>1, <2>4, BudgetStable
<1> QED BY <1>1, <1>2

-----------------------------------------------------------------------------
(* The threads to come. *)

\* What a step does to the menus: nothing; one moves; one is created; one is
\* cancelled; one moves and the last one is cancelled.
PasDesMenus ==
  \/ UNCHANGED <<menus, fils.menu>>
  \/ /\ UNCHANGED fils.menu
     /\ \E m \in Menus : \E pc \in PcMenu \ {"futur"} :
          Aller(m, pc) /\ Vivant(menus[m].pc)
  \/ CreerMenu
  \/ AnnulerMenu /\ UNCHANGED fils.menu
  \/ UNCHANGED fils.menu /\ \E m \in Menus : CreerObserveur(m)

LEMMA Menus5 ==
  ASSUME TypesFils, Types, EnVie', Next
  PROVE  PasDesMenus
<1> USE DEF PasDesMenus
<1>t. fils \in [menu : Nat, jeu : Nat, observeur : Nat]
  BY DEF Types
<1>1. CASE RecevoirDefi
  BY <1>1 DEF RecevoirDefi
<1>2. CASE RecevoirAccord
  BY <1>2, <1>t DEF RecevoirAccord, CreerJeu
<1>3. CASE RefuserDefi
  BY <1>3 DEF RefuserDefi
<1>4. CASE AccepterDefi
  BY <1>4, <1>t DEF AccepterDefi, CreerJeu
<1>5. CASE \/ RecevoirJoueur \/ RecevoirRefus \/ RecevoirPartie
           \/ RecevoirObs("turn") \/ RecevoirObs("terminer") \/ RecevoirListe
           \/ PrendrePlace \/ DeposerMessage \/ ArreterEcoute \/ ModifierListe
  BY <1>5
  DEF RecevoirJoueur, RecevoirRefus, RecevoirPartie, RecevoirObs, RecevoirListe, PrendrePlace,
      DeposerMessage, ArreterEcoute, ModifierListe, threads
<1>6. CASE ServeurDeconnecte \/ Terminer
  BY <1>6 DEF ServeurDeconnecte, Terminer, Finir, EnVie
<1>7. ASSUME NEW m \in Menus,
             \/ Menu(m) \/ Quitter(m) \/ ChoisirPartie(m) \/ Defier(m) \/ DemanderParties(m)
             \/ ChoisirObservation(m)
      PROVE  PasDesMenus
  <2>1. CASE CreerObserveur(m)
    BY <2>1, <1>t DEF CreerObserveur
  <2>2. CASE ~CreerObserveur(m)
    <3>1. UNCHANGED fils
      BY <1>7, <2>2
      DEF Menu, Quitter, ChoisirPartie, VerrouillerListe, LibererListe, Defier, ReprendreApresDefi,
          DemanderParties, LireParties, ChoisirObservation, PasserObservateur, Mourir
    <3>2. \E pc \in PcMenu \ {"futur"} : Aller(m, pc)
      BY <1>7, <2>2
      DEF Menu, Quitter, ChoisirPartie, VerrouillerListe, LibererListe, Defier, ReprendreApresDefi,
          DemanderParties, LireParties, ChoisirObservation, PasserObservateur, Mourir, PcMenu
    <3>3. Vivant(menus[m].pc)
      BY <1>7, <2>2
      DEF Menu, Quitter, ChoisirPartie, VerrouillerListe, LibererListe, Defier, ReprendreApresDefi,
          DemanderParties, LireParties, ChoisirObservation, PasserObservateur, Mourir, Au, Vivant
    <3> QED BY <3>1, <3>2, <3>3
  <2> QED BY <2>1, <2>2
<1>8. ASSUME NEW j \in Jeux, Jeu(j) \/ RepondreServeur(j) \/ Abandonner(j)
      PROVE  PasDesMenus
  BY <1>8
  DEF Jeu, PrendreMessage, RedevenirLibre, RendrePlace, FinirJeu, RepondreServeur, Abandonner
<1>9. ASSUME NEW o \in Observeurs, Observe(o)
      PROVE  PasDesMenus
  BY <1>9 DEF Observe, Rejoindre, LireClavier, SuivrePartie, CesserObservation
<1> QED BY <1>1, <1>2, <1>3, <1>4, <1>5, <1>6, <1>7, <1>8, <1>9
    DEF Next, Reseau, Utilisateur, Ecoute

\* The games: nothing; one moves; one is created.
PasDesJeux ==
  \/ UNCHANGED <<jeux, fils.jeu>>
  \/ /\ UNCHANGED fils.jeu
     /\ \E j \in Jeux : /\ Vivant(jeux[j].pc) /\ jeux'[j].pc # "futur"
                        /\ \A i \in Jeux : i # j => jeux'[i] = jeux[i]
  \/ CreerJeu

LEMMA Jeux3 ==
  ASSUME TypesFils, Types, EnVie', Next
  PROVE  PasDesJeux
<1> USE DEF PasDesJeux
<1>t. /\ fils \in [menu : Nat, jeu : Nat, observeur : Nat]
      /\ jeux \in [Jeux -> [pc : PcJeu, end : BOOLEAN]]
  BY DEF Types
<1>1. CASE \/ RecevoirJoueur \/ RecevoirRefus \/ RecevoirPartie \/ RecevoirDefi \/ RefuserDefi
           \/ RecevoirObs("turn") \/ RecevoirObs("terminer") \/ RecevoirListe
           \/ PrendrePlace \/ DeposerMessage \/ ArreterEcoute \/ ModifierListe
  BY <1>1, <1>t
  DEF RecevoirJoueur, RecevoirRefus, RecevoirPartie, RecevoirDefi, RefuserDefi, RecevoirObs,
      RecevoirListe, PrendrePlace, DeposerMessage, ArreterEcoute, ModifierListe, CreerMenu, threads
<1>2. CASE AccepterDefi \/ RecevoirAccord
  BY <1>2 DEF AccepterDefi, RecevoirAccord
<1>3. CASE ServeurDeconnecte \/ Terminer
  BY <1>3 DEF ServeurDeconnecte, Terminer, Finir, EnVie
<1>4. ASSUME NEW m \in Menus,
             \/ Menu(m) \/ Quitter(m) \/ ChoisirPartie(m) \/ Defier(m) \/ DemanderParties(m)
             \/ ChoisirObservation(m)
      PROVE  PasDesJeux
  BY <1>4, <1>t
  DEF Menu, Quitter, ChoisirPartie, VerrouillerListe, LibererListe, Defier, ReprendreApresDefi,
      DemanderParties, LireParties, ChoisirObservation, PasserObservateur, Mourir, CreerObserveur
<1>5. ASSUME NEW j \in Jeux, Jeu(j) \/ RepondreServeur(j) \/ Abandonner(j)
      PROVE  PasDesJeux
  <2>1. UNCHANGED fils.jeu
    BY <1>5, <1>t
    DEF Jeu, PrendreMessage, RedevenirLibre, RendrePlace, FinirJeu, RepondreServeur, Abandonner,
        CreerMenu
  <2>2. Vivant(jeux[j].pc) /\ jeux'[j].pc # "futur" /\ \A i \in Jeux : i # j => jeux'[i] = jeux[i]
    <3>1. CASE PrendreMessage(j)
      <4>1. PICK pc \in {"repond", "joueurs", "rend"} :
              jeux' = [jeux EXCEPT ![j].pc = pc, ![j].end = bufferJeu.genre = "fin"]
        BY <3>1 DEF PrendreMessage
      <4>2. jeux[j].pc = "attend"
        BY <3>1 DEF PrendreMessage
      <4> QED BY <4>1, <4>2, <1>t DEF Vivant
    <3>2. CASE Abandonner(j)
      BY <3>2, <1>t DEF Abandonner, Vivant
    <3>3. CASE RedevenirLibre(j) \/ RepondreServeur(j)
      <4>1. /\ jeux' = [jeux EXCEPT ![j].pc = "rend"]
            /\ jeux[j].pc \in {"joueurs", "repond"}
        BY <3>3 DEF RedevenirLibre, RepondreServeur
      <4> QED BY <4>1, <1>t DEF Vivant
    <3>4. CASE RendrePlace(j)
      <4>1. PICK pc \in {"finit", "attend"} : jeux' = [jeux EXCEPT ![j].pc = pc]
        BY <3>4 DEF RendrePlace
      <4>2. jeux[j].pc = "rend"
        BY <3>4 DEF RendrePlace
      <4> QED BY <4>1, <4>2, <1>t DEF Vivant
    <3>5. CASE FinirJeu(j)
      BY <3>5, <1>t DEF FinirJeu, Vivant
    <3> QED BY <1>5, <3>1, <3>2, <3>3, <3>4, <3>5 DEF Jeu
  <2> QED BY <2>1, <2>2
<1>6. ASSUME NEW o \in Observeurs, Observe(o)
      PROVE  PasDesJeux
  BY <1>6, <1>t DEF Observe, Rejoindre, LireClavier, SuivrePartie, CesserObservation, CreerMenu
<1> QED BY <1>1, <1>2, <1>3, <1>4, <1>5, <1>6 DEF Next, Reseau, Utilisateur, Ecoute

\* The observers: nothing but a message; one moves; one is created.
PasDesObservateurs ==
  \/ UNCHANGED fils.observeur /\ \A o \in Observeurs : observeurs'[o].pc = observeurs[o].pc
  \/ /\ UNCHANGED fils.observeur
     /\ \E o \in Observeurs : /\ Vivant(observeurs[o].pc) /\ observeurs'[o].pc # "futur"
                              /\ \A i \in Observeurs : i # o => observeurs'[i] = observeurs[i]
  \/ \E m \in Menus : CreerObserveur(m)

LEMMA Observateurs3 ==
  ASSUME TypesFils, Types, EnVie', Next
  PROVE  PasDesObservateurs
<1> USE DEF PasDesObservateurs
<1>t. /\ fils \in [menu : Nat, jeu : Nat, observeur : Nat]
      /\ observeurs \in PcsObs
  BY DEF Types, TypesFils, PcsObs
<1>1. CASE \/ RecevoirJoueur \/ RecevoirRefus \/ RecevoirPartie \/ RecevoirDefi \/ RefuserDefi
           \/ RecevoirListe \/ AccepterDefi \/ RecevoirAccord
           \/ PrendrePlace \/ DeposerMessage \/ ArreterEcoute \/ ModifierListe
  BY <1>1, <1>t
  DEF RecevoirJoueur, RecevoirRefus, RecevoirPartie, RecevoirDefi, RefuserDefi, AccepterDefi,
      RecevoirAccord, RecevoirListe, PrendrePlace, DeposerMessage, ArreterEcoute, ModifierListe,
      CreerMenu, CreerJeu, threads
<1>2. ASSUME NEW g, RecevoirObs(g) PROVE PasDesObservateurs
  BY <1>2, <1>t DEF RecevoirObs, Avertir, PcsObs
<1>3. CASE ServeurDeconnecte \/ Terminer
  BY <1>3 DEF ServeurDeconnecte, Terminer, Finir, EnVie
<1>4. ASSUME NEW m \in Menus,
             \/ Menu(m) \/ Quitter(m) \/ ChoisirPartie(m) \/ Defier(m) \/ DemanderParties(m)
             \/ ChoisirObservation(m)
      PROVE  PasDesObservateurs
  BY <1>4
  DEF Menu, Quitter, ChoisirPartie, VerrouillerListe, LibererListe, Defier, ReprendreApresDefi,
      DemanderParties, LireParties, ChoisirObservation, PasserObservateur, Mourir
<1>5. ASSUME NEW j \in Jeux, Jeu(j) \/ RepondreServeur(j) \/ Abandonner(j)
      PROVE  PasDesObservateurs
  BY <1>5, <1>t
  DEF Jeu, PrendreMessage, RedevenirLibre, RendrePlace, FinirJeu, RepondreServeur, Abandonner,
      CreerMenu
<1>6. ASSUME NEW o \in Observeurs, Observe(o)
      PROVE  PasDesObservateurs
  <2>1. UNCHANGED fils.observeur
    BY <1>6, <1>t DEF Observe, Rejoindre, LireClavier, SuivrePartie, CesserObservation, CreerMenu
  <2>2. /\ Vivant(observeurs[o].pc) /\ observeurs'[o].pc # "futur"
        /\ \A i \in Observeurs : i # o => observeurs'[i] = observeurs[i]
    BY <1>6, <1>t
    DEF Observe, Rejoindre, LireClavier, SuivrePartie, CesserObservation, Vivant, PcsObs
  <2> QED BY <2>1, <2>2
<1> QED BY <1>1, <1>2, <1>3, <1>4, <1>5, <1>6 DEF Next, Reseau, Utilisateur, Ecoute

\* The threads to come have not begun.
LEMMA FutursPas ==
  ASSUME TypesFils, Types, Bornes, Budget, Futurs, EnVie', Next
  PROVE  Futurs'
<1>t. /\ fils \in [menu : Menus, jeu : Jeux \cup {Aucun}, observeur : Observeurs \cup {Aucun}]
      /\ jeux \in [Jeux -> [pc : PcJeu, end : BOOLEAN]]
      /\ menus \in PcsMenu /\ observeurs \in PcsObs
  BY DEF Types, TypesFils, Bornes, PcsMenu, PcsObs
<1>b. Menus \subseteq Int /\ Jeux \subseteq Int /\ Observeurs \subseteq Int
  BY DEF Menus, Jeux, Observeurs
<1>1. /\ \A m \in Menus : m > fils'.menu => menus'[m].pc = "futur" /\ ~menus'[m].annule
      /\ \A m \in Menus : m <= fils'.menu => menus'[m].pc # "futur"
  <2>1. CASE UNCHANGED <<menus, fils.menu>>
    BY <2>1 DEF Futurs
  <2>2. ASSUME UNCHANGED fils.menu, NEW m \in Menus, NEW pc \in PcMenu \ {"futur"},
               Aller(m, pc), Vivant(menus[m].pc)
        PROVE  <1>1!:
    BY <2>2, <1>t DEF Futurs, Aller, Vivant, PcsMenu
  <2>3. CASE CreerMenu
    <3>n. fils'.menu = fils.menu + 1 /\ fils.menu \in Int
      BY <2>3, <1>t, <1>b DEF CreerMenu
    <3>1. /\ \A m \in Menus : m # fils.menu + 1 => menus'[m] = menus[m]
          /\ fils.menu + 1 \in Menus => menus'[fils.menu + 1].pc = "choix"
      BY <2>3, <1>t DEF CreerMenu, PcsMenu
    <3>2. ASSUME NEW m \in Menus, m > fils'.menu
          PROVE  menus'[m].pc = "futur" /\ ~menus'[m].annule
      <4>1. m > fils.menu /\ m # fils.menu + 1
        <5>1. m \in Int
          BY <1>b
        <5> QED BY <3>n, <3>2, <5>1
      <4> QED BY <3>1, <4>1 DEF Futurs
    <3>3. ASSUME NEW m \in Menus, m <= fils'.menu
          PROVE  menus'[m].pc # "futur"
      <4>1. CASE m = fils.menu + 1
        BY <3>1, <4>1
      <4>2. CASE m # fils.menu + 1
        <5>1. m <= fils.menu
          <6>1. m \in Int
            BY <1>b
          <6> QED BY <3>n, <3>3, <4>2, <6>1
        <5> QED BY <3>1, <4>2, <5>1 DEF Futurs
      <4> QED BY <4>1, <4>2
    <3> QED BY <3>2, <3>3
  <2>4. CASE AnnulerMenu /\ UNCHANGED fils.menu
    BY <2>4, <1>t, <1>b DEF Futurs, AnnulerMenu, PcsMenu
  <2>5. ASSUME UNCHANGED fils.menu, NEW m \in Menus, CreerObserveur(m)
        PROVE  <1>1!:
    BY <2>5, <1>t, <1>b DEF Futurs, CreerObserveur, Au, PcsMenu
  <2> QED BY <2>1, <2>2, <2>3, <2>4, <2>5, Menus5 DEF PasDesMenus
<1>2. \A j \in Jeux : j > fils'.jeu => jeux'[j].pc = "futur" /\ ~jeux'[j].end
  <2>1. CASE UNCHANGED <<jeux, fils.jeu>>
    BY <2>1 DEF Futurs
  <2>2. ASSUME UNCHANGED fils.jeu, NEW j \in Jeux, Vivant(jeux[j].pc),
               \A i \in Jeux : i # j => jeux'[i] = jeux[i]
        PROVE  <1>2!:
    BY <2>2 DEF Futurs, Vivant
  <2>3. CASE CreerJeu
    BY <2>3, <1>t, <1>b DEF Futurs, CreerJeu, Aucun
  <2> QED BY <2>1, <2>2, <2>3, Jeux3 DEF PasDesJeux
<1>3. \A o \in Observeurs : o > fils'.observeur => observeurs'[o].pc = "futur"
  <2>1. CASE UNCHANGED fils.observeur /\ \A o \in Observeurs : observeurs'[o].pc = observeurs[o].pc
    BY <2>1 DEF Futurs
  <2>2. ASSUME UNCHANGED fils.observeur, NEW o \in Observeurs, Vivant(observeurs[o].pc),
               \A i \in Observeurs : i # o => observeurs'[i] = observeurs[i]
        PROVE  <1>3!:
    BY <2>2 DEF Futurs, Vivant
  <2>3. ASSUME NEW m \in Menus, CreerObserveur(m)
        PROVE  <1>3!:
    BY <2>3, <1>t, <1>b DEF Futurs, CreerObserveur, Aucun, PcsObs
  <2> QED BY <2>1, <2>2, <2>3, Observateurs3 DEF PasDesObservateurs
<1> QED BY <1>1, <1>2, <1>3 DEF Futurs

-----------------------------------------------------------------------------
(* The lock of the list, and the answers. *)

\* The steps of the menus that neither take the lock nor give it back, nor wait
\* for an answer.
AutreMenu(m) ==
  \/ LireParties(m) \/ PasserObservateur(m) \/ CreerObserveur(m)
  \/ Quitter(m) \/ ChoisirPartie(m) \/ DemanderParties(m) \/ ChoisirObservation(m)

\* The steps of the other threads, but the answers received.
AutreFil ==
  \/ RecevoirJoueur \/ RecevoirDefi \/ RecevoirPartie
  \/ RecevoirObs("turn") \/ RecevoirObs("terminer") \/ RecevoirListe \/ AccepterDefi \/ RefuserDefi
  \/ PrendrePlace \/ DeposerMessage \/ ArreterEcoute \/ ModifierListe
  \/ \E j \in Jeux : Jeu(j) \/ RepondreServeur(j) \/ Abandonner(j)
  \/ \E o \in Observeurs : Observe(o)

LEMMA Partage ==
  ASSUME Next, EnVie'
  PROVE  \/ AutreFil \/ RecevoirAccord \/ RecevoirRefus
         \/ \E m \in Menus : \/ AutreMenu(m) \/ VerrouillerListe(m) \/ LibererListe(m)
                             \/ Defier(m) \/ ReprendreApresDefi(m) \/ Mourir(m)
<1>1. CASE ServeurDeconnecte \/ Terminer
  BY <1>1 DEF ServeurDeconnecte, Terminer, Finir, EnVie
<1> QED BY <1>1 DEF Next, Reseau, Utilisateur, Ecoute, Menu, AutreFil, AutreMenu

\* They leave both semaphores, and the places where a menu holds the lock or
\* waits for an answer.
LEMMA AutresPas ==
  ASSUME TypesFils, Types, Bornes, Futurs, EnVie', Next,
         AutreFil \/ \E m \in Menus : AutreMenu(m)
  PROVE  /\ sem'["joueurs"] = sem["joueurs"] /\ sem'["defi"] = sem["defi"]
         /\ serveur'.defis = serveur.defis
         /\ \A n \in Menus : menus'[n].pc = "affiche" <=> menus[n].pc = "affiche"
         /\ \A n \in Menus : menus'[n].pc = "defi" <=> menus[n].pc = "defi"
<1>t. /\ fils \in [menu : Menus, jeu : Jeux \cup {Aucun}, observeur : Observeurs \cup {Aucun}]
      /\ menus \in PcsMenu /\ serveur \in Serveurs /\ sem \in [Semaphores -> Nat]
  BY DEF TypesFils, Bornes, PcsMenu, Serveurs
<1>b. Menus \subseteq Int
  BY DEF Menus
<1>1. sem'["joueurs"] = sem["joueurs"] /\ sem'["defi"] = sem["defi"]
  <2>1. UNCHANGED sem \/ \E s \in Semaphores \ {"joueurs", "defi"} : SemWait(s) \/ SemPost(s)
    <3>1. CASE AutreFil
      BY <3>1
      DEF AutreFil, RecevoirJoueur, RecevoirDefi, RecevoirPartie, RecevoirObs, RecevoirListe,
          AccepterDefi, RefuserDefi, PrendrePlace, DeposerMessage, ArreterEcoute, ModifierListe,
          Jeu, PrendreMessage, RedevenirLibre, RendrePlace, FinirJeu, RepondreServeur, Abandonner,
          Observe, Rejoindre, LireClavier, SuivrePartie, CesserObservation, Semaphores
    <3>2. CASE \E m \in Menus : AutreMenu(m)
      BY <3>2
      DEF AutreMenu, Quitter, ChoisirPartie, DemanderParties, LireParties, ChoisirObservation,
          PasserObservateur, CreerObserveur, Semaphores
    <3> QED BY <3>1, <3>2
  <2> QED BY <2>1, <1>t DEF SemWait, SemPost, Semaphores
<1>2. serveur'.defis = serveur.defis
  <2>1. \/ UNCHANGED serveur
        \/ \E etat, j : serveur' = [serveur EXCEPT !.jeux[j] = etat]
        \/ \E b : serveur' = [serveur EXCEPT !.observe = b]
        \/ \E n : serveur' = [serveur EXCEPT !.listes = n]
    <3>1. CASE RecevoirPartie
      BY <3>1 DEF RecevoirPartie
    <3>2. CASE AccepterDefi
      BY <3>2 DEF AccepterDefi
    <3>3. CASE RecevoirListe
      BY <3>3 DEF RecevoirListe
    <3>4. ASSUME NEW g, RecevoirObs(g) PROVE <2>1!:
      BY <3>4 DEF RecevoirObs
    <3>5. ASSUME NEW j \in Jeux, RepondreServeur(j) PROVE <2>1!:
      BY <3>5 DEF RepondreServeur
    <3>6. ASSUME NEW j \in Jeux, RedevenirLibre(j) PROVE <2>1!:
      BY <3>6 DEF RedevenirLibre
    <3>7. ASSUME NEW o \in Observeurs, CesserObservation(o) PROVE <2>1!:
      BY <3>7 DEF CesserObservation
    <3>8. ASSUME NEW m \in Menus, DemanderParties(m) PROVE <2>1!:
      BY <3>8 DEF DemanderParties
    <3>9. ASSUME NEW m \in Menus, ChoisirObservation(m) PROVE <2>1!:
      BY <3>9 DEF ChoisirObservation
    <3>10. CASE \/ RecevoirJoueur \/ RecevoirDefi \/ RefuserDefi
                \/ PrendrePlace \/ DeposerMessage \/ ArreterEcoute \/ ModifierListe
                \/ \E j \in Jeux : \/ PrendreMessage(j) \/ RendrePlace(j) \/ FinirJeu(j)
                                   \/ Abandonner(j)
                \/ \E o \in Observeurs : Rejoindre(o) \/ LireClavier(o) \/ SuivrePartie(o)
                \/ \E m \in Menus : \/ LireParties(m) \/ PasserObservateur(m) \/ CreerObserveur(m)
                                    \/ Quitter(m) \/ ChoisirPartie(m)
      BY <3>10
      DEF RecevoirJoueur, RecevoirDefi, RefuserDefi, PrendrePlace, DeposerMessage, ArreterEcoute,
          ModifierListe, PrendreMessage, RendrePlace, FinirJeu, Abandonner, Rejoindre, LireClavier,
          SuivrePartie, LireParties, PasserObservateur, CreerObserveur, Quitter, ChoisirPartie
    <3> QED BY <3>1, <3>2, <3>3, <3>4, <3>5, <3>6, <3>7, <3>8, <3>9, <3>10
        DEF AutreFil, AutreMenu, Jeu, Observe
  <2> QED BY <2>1, <1>t DEF Serveurs
<1>3. \A n \in Menus : /\ menus'[n].pc = "affiche" <=> menus[n].pc = "affiche"
                       /\ menus'[n].pc = "defi" <=> menus[n].pc = "defi"
  <2>1. CASE UNCHANGED menus
    BY <2>1
  <2>2. CASE CreerMenu
    <3>1. fils.menu + 1 \in Menus => menus[fils.menu + 1].pc = "futur"
      <4>1. fils.menu \in Int
        BY <1>t, <1>b
      <4> QED BY <4>1 DEF Futurs
    <3> QED BY <2>2, <3>1, <1>t DEF CreerMenu, PcsMenu
  <2>3. CASE AnnulerMenu
    BY <2>3, <1>t DEF AnnulerMenu, PcsMenu
  <2>4. ASSUME NEW m \in Menus, AutreMenu(m) PROVE <1>3!:
    <3>1. CASE CreerObserveur(m)
      BY <3>1, <1>t DEF CreerObserveur, Au, PcsMenu
    <3>2. CASE ~CreerObserveur(m)
      <4>1. PICK pc \in PcMenu \ {"affiche", "defi"} : Aller(m, pc)
        BY <2>4, <3>2
        DEF AutreMenu, Quitter, ChoisirPartie, DemanderParties, LireParties, ChoisirObservation,
            PasserObservateur, PcMenu
      <4>2. menus[m].pc \notin {"affiche", "defi"}
        BY <2>4, <3>2
        DEF AutreMenu, Quitter, ChoisirPartie, DemanderParties, LireParties, ChoisirObservation,
            PasserObservateur, Au
      <4> QED BY <4>1, <4>2, <1>t DEF Aller, PcsMenu
    <3> QED BY <3>1, <3>2
  <2>5. CASE AutreFil
    <3>1. UNCHANGED menus \/ AnnulerMenu \/ CreerMenu
      BY <2>5
      DEF AutreFil, RecevoirJoueur, RecevoirDefi, RecevoirPartie, RecevoirObs, RecevoirListe,
          AccepterDefi, RefuserDefi, PrendrePlace, DeposerMessage, ArreterEcoute, ModifierListe,
          Jeu, PrendreMessage, RedevenirLibre, RendrePlace, FinirJeu, RepondreServeur, Abandonner,
          Observe, Rejoindre, LireClavier, SuivrePartie, CesserObservation, threads
    <3> QED BY <2>1, <2>2, <2>3, <3>1
  <2> QED BY <2>4, <2>5
<1> QED BY <1>1, <1>2, <1>3

\* The lock is free, or one menu that prints the list holds it, or the menu that
\* held it was cancelled.
LEMMA VerrouPas ==
  ASSUME TypesFils, Types, Bornes, Futurs, Verrou, EnVie', Next
  PROVE  Verrou'
<1>t. /\ fils \in [menu : Menus, jeu : Jeux \cup {Aucun}, observeur : Observeurs \cup {Aucun}]
      /\ menus \in PcsMenu /\ sem \in [Semaphores -> Nat]
  BY DEF TypesFils, Bornes, PcsMenu
<1> USE DEF Semaphores
<1>1. CASE AutreFil \/ \E m \in Menus : AutreMenu(m)
  BY <1>1, AutresPas DEF Verrou
<1>2. CASE RecevoirAccord \/ RecevoirRefus
  <2>1. sem'["joueurs"] = sem["joueurs"]
    BY <1>2, <1>t DEF RecevoirAccord, RecevoirRefus, SemPost
  <2>2. \A n \in Menus : menus'[n].pc = menus[n].pc
    BY <1>2, <1>t DEF RecevoirAccord, RecevoirRefus, AnnulerMenu, threads, PcsMenu
  <2> QED BY <2>1, <2>2 DEF Verrou
<1>3. ASSUME NEW m \in Menus, Defier(m) \/ ReprendreApresDefi(m) \/ Mourir(m)
      PROVE  Verrou'
  <2>1. sem'["joueurs"] = sem["joueurs"]
    BY <1>3, <1>t DEF Defier, ReprendreApresDefi, Mourir, SemWait
  <2>2. \A n \in Menus : menus'[n].pc = "affiche" => menus[n].pc = "affiche"
    BY <1>3, <1>t DEF Defier, ReprendreApresDefi, Mourir, Aller, PcsMenu
  <2> QED BY <2>1, <2>2 DEF Verrou
<1>4. ASSUME NEW m \in Menus, VerrouillerListe(m)
      PROVE  Verrou'
  <2>1. sem["joueurs"] = 1 /\ sem'["joueurs"] = 0
    BY <1>4, <1>t DEF VerrouillerListe, SemWait, Verrou
  <2>2. \A n \in Menus : menus'[n].pc = "affiche" => n = m
    BY <1>4, <2>1, <1>t DEF VerrouillerListe, Aller, PcsMenu, Verrou
  <2> QED BY <2>1, <2>2 DEF Verrou
<1>5. ASSUME NEW m \in Menus, LibererListe(m)
      PROVE  Verrou'
  <2>1. menus[m].pc = "affiche"
    BY <1>5 DEF LibererListe, Au
  <2>2. sem["joueurs"] = 0 /\ sem'["joueurs"] = 1
    BY <1>5, <2>1, <1>t DEF LibererListe, SemPost, Verrou
  <2>3. \A n \in Menus : menus'[n].pc # "affiche"
    BY <1>5, <2>1, <1>t DEF LibererListe, Aller, PcsMenu, Verrou
  <2> QED BY <2>2, <2>3 DEF Verrou
<1> QED BY <1>1, <1>2, <1>3, <1>4, <1>5, Partage

\* The threads that exist are within the bounds.
LEMMA BornesPas ==
  ASSUME TypesFils', Types', Budget', Verrou'
  PROVE  Bornes'
<1>1. /\ fils' \in [menu : Nat, jeu : Nat, observeur : Nat]
      /\ serveur'.defis \in Nat /\ compteurs'.episodes \in 0..MaxEpisodes
      /\ MaxEpisodes \in Nat
  BY ClientAssumption DEF TypesFils, Types
<1>2. /\ fils'.menu \in Nat \ {0} /\ fils'.menu <= MaxEpisodes + 1
      /\ fils'.jeu <= MaxEpisodes /\ fils'.observeur <= MaxEpisodes
  BY <1>1, Nombres DEF Budget, EnAttente
<1>3. fils' \in [menu : Menus, jeu : Jeux \cup {Aucun}, observeur : Observeurs \cup {Aucun}]
  BY <1>1, <1>2 DEF Menus, Jeux, Observeurs, Aucun
<1> QED BY <1>3 DEF Bornes, Verrou

\* What happened stays noted.
LEMMA AccidentsRestent ==
  ASSUME Types, Next, NEW a, Accident(a)
  PROVE  Accident(a)'
<1>1. \/ historique'.accidents = historique.accidents
      \/ \E A : Noter(A)
  <2>1. CASE \/ RecevoirJoueur \/ RecevoirDefi \/ RecevoirAccord \/ RecevoirRefus
             \/ RecevoirPartie \/ RecevoirObs("turn") \/ RecevoirObs("terminer") \/ RecevoirListe
             \/ AccepterDefi \/ RefuserDefi
             \/ PrendrePlace \/ ArreterEcoute \/ ModifierListe
             \/ ServeurDeconnecte \/ Terminer
    BY <2>1
    DEF RecevoirJoueur, RecevoirDefi, RecevoirAccord, RecevoirRefus, RecevoirPartie, RecevoirObs,
        RecevoirListe, AccepterDefi, RefuserDefi, PrendrePlace, ArreterEcoute, ModifierListe,
        ServeurDeconnecte, Terminer, Finir
  <2>2. CASE DeposerMessage
    BY <2>2 DEF DeposerMessage, Types
  <2>3. ASSUME NEW m \in Menus,
               \/ Menu(m) \/ Quitter(m) \/ ChoisirPartie(m) \/ Defier(m) \/ DemanderParties(m)
               \/ ChoisirObservation(m)
        PROVE  <1>1!:
    BY <2>3
    DEF Menu, Quitter, ChoisirPartie, VerrouillerListe, LibererListe, Defier, ReprendreApresDefi,
        DemanderParties, LireParties, ChoisirObservation, PasserObservateur, Mourir, CreerObserveur
  <2>4. ASSUME NEW j \in Jeux, PrendreMessage(j)
        PROVE  <1>1!:
    BY <2>4 DEF PrendreMessage, Types
  <2>5. ASSUME NEW j \in Jeux,
               \/ RedevenirLibre(j) \/ RendrePlace(j) \/ FinirJeu(j) \/ RepondreServeur(j)
               \/ Abandonner(j)
        PROVE  <1>1!:
    BY <2>5 DEF RedevenirLibre, RendrePlace, FinirJeu, RepondreServeur, Abandonner
  <2>6. ASSUME NEW o \in Observeurs, Observe(o)
        PROVE  <1>1!:
    BY <2>6 DEF Observe, Rejoindre, LireClavier, SuivrePartie, CesserObservation
  <2> QED BY <2>1, <2>2, <2>3, <2>4, <2>5, <2>6 DEF Next, Reseau, Utilisateur, Ecoute, Jeu
<1> QED BY <1>1 DEF Noter, Accident, Types

\* One menu waits for each challenge that has no answer or whose answer it has
\* not read, unless one that waited was cancelled.
LEMMA ReponsesPas ==
  ASSUME TypesFils, Types, Bornes, Futurs, Accident("orphelin") \/ Reponses, EnVie', Next
  PROVE  Accident("orphelin")' \/ Reponses'
<1>t. /\ menus \in PcsMenu /\ sem \in [Semaphores -> Nat] /\ serveur \in Serveurs
      /\ sem["defi"] \in Nat /\ serveur.defis \in Nat
  BY DEF TypesFils, PcsMenu, Serveurs, Semaphores
<1>a. CASE Accident("orphelin")
  BY <1>a, AccidentsRestent
<1> SUFFICES ASSUME ~Accident("orphelin"), Reponses PROVE Accident("orphelin")' \/ Reponses'
  BY <1>a
<1> USE DEF Semaphores
<1>e. (\A n \in Menus : menus'[n].pc = "defi" <=> menus[n].pc = "defi") => EnDefi' = EnDefi
  BY DEF EnDefi
<1>1. CASE AutreFil \/ \E m \in Menus : AutreMenu(m)
  BY <1>1, <1>e, AutresPas DEF Reponses
<1>2. CASE RecevoirAccord \/ RecevoirRefus
  <2>1. \A n \in Menus : menus'[n].pc = menus[n].pc
    BY <1>2, <1>t DEF RecevoirAccord, RecevoirRefus, AnnulerMenu, threads, PcsMenu
  <2>2. serveur'.defis = serveur.defis - 1
    <3>1. CASE RecevoirAccord
      <4>1. PICK etat : serveur' = [serveur EXCEPT !.defis = @ - 1, !.jeux[fils.jeu + 1] = etat]
        BY <3>1 DEF RecevoirAccord
      <4> QED BY <4>1, <1>t DEF Serveurs
    <3>2. CASE RecevoirRefus
      BY <3>2, <1>t DEF RecevoirRefus, Serveurs
    <3> QED BY <1>2, <3>1, <3>2
  <2>3. sem'["defi"] = sem["defi"] + 1
    BY <1>2, <1>t DEF RecevoirAccord, RecevoirRefus, SemPost
  <2> QED BY <1>t, <1>e, <2>1, <2>2, <2>3, Nombres DEF Reponses
<1>3. ASSUME NEW m \in Menus, VerrouillerListe(m) \/ LibererListe(m)
      PROVE  Reponses'
  <2>1. sem'["defi"] = sem["defi"] /\ serveur'.defis = serveur.defis
    BY <1>3, <1>t DEF VerrouillerListe, LibererListe, SemWait, SemPost
  <2>2. \A n \in Menus : menus'[n].pc = "defi" <=> menus[n].pc = "defi"
    BY <1>3, <1>t DEF VerrouillerListe, LibererListe, Au, Aller, PcsMenu
  <2> QED BY <1>e, <2>1, <2>2 DEF Reponses
<1>4. ASSUME NEW m \in Menus, Defier(m)
      PROVE  Reponses'
  <2>1. UNCHANGED sem /\ menus[m].pc = "adversaire"
    BY <1>4 DEF Defier, Au
  <2>2. CASE Aller(m, "choix") /\ UNCHANGED serveur
    <3>1. EnDefi' = EnDefi
      BY <1>t, <1>e, <2>1, <2>2 DEF Aller, PcsMenu
    <3> QED BY <2>1, <2>2, <3>1 DEF Reponses
  <2>3. CASE Aller(m, "defi") /\ serveur' = [serveur EXCEPT !.defis = @ + 1]
    <3>1. EnDefi' = EnDefi \cup {m} /\ m \notin EnDefi
      BY <1>t, <2>1, <2>3 DEF Aller, PcsMenu, EnDefi
    <3>2. Cardinality(EnDefi') = Cardinality(EnDefi) + 1
      BY <3>1, Ensembles, Fini, FS_AddElement
    <3>3. serveur'.defis = serveur.defis + 1
      BY <2>3, <1>t DEF Serveurs
    <3> QED BY <1>t, <2>1, <3>2, <3>3, Nombres DEF Reponses
  <2> QED BY <1>4, <2>2, <2>3 DEF Defier
<1>5. ASSUME NEW m \in Menus, ReprendreApresDefi(m)
      PROVE  Reponses'
  <2>1. /\ UNCHANGED serveur /\ menus[m].pc = "defi" /\ Aller(m, "choix")
        /\ sem'["defi"] = sem["defi"] - 1
    BY <1>5, <1>t DEF ReprendreApresDefi, Au, SemWait
  <2>2. EnDefi' = EnDefi \ {m} /\ m \in EnDefi
    BY <1>t, <2>1 DEF Aller, PcsMenu, EnDefi
  <2>3. Cardinality(EnDefi') = Cardinality(EnDefi) - 1
    BY <2>2, Ensembles, Fini, FS_RemoveElement
  <2> QED BY <1>t, <2>1, <2>3, Nombres DEF Reponses
<1>6. ASSUME NEW m \in Menus, Mourir(m)
      PROVE  Accident("orphelin")' \/ Reponses'
  <2>1. CASE menus[m].pc = "defi"
    BY <1>6, <2>1 DEF Mourir, Noter, Accident, Types
  <2>2. CASE menus[m].pc # "defi"
    <3>1. UNCHANGED <<sem, serveur>> /\ Aller(m, "mort")
      BY <1>6 DEF Mourir
    <3>2. EnDefi' = EnDefi
      BY <1>t, <1>e, <2>2, <3>1 DEF Aller, PcsMenu
    <3> QED BY <3>1, <3>2 DEF Reponses
  <2> QED BY <2>1, <2>2
<1> QED BY <1>1, <1>2, <1>3, <1>4, <1>5, <1>6, Partage

-----------------------------------------------------------------------------
(* The dialogue with the user. *)

\* Nobody new comes: whoever had the dialogue has it still, or leaves it.
LEMMA DialogueStable ==
  ASSUME Dialogue, UNCHANGED fils,
         \A m \in Menus : Actif(m)' => Actif(m),
         \A m \in Menus : menus'[m].pc = "observer" => Actif(m)',
         JeuxVivants' \subseteq JeuxVivants, ObsVivants' \subseteq ObsVivants,
         ecoute'.pc = "sollicite" => ecoute.pc = "sollicite"
  PROVE  Dialogue'
<1>1. /\ \A j \in Jeux : Vivant(jeux'[j].pc) => Vivant(jeux[j].pc)
      /\ \A o \in Observeurs : Vivant(observeurs'[o].pc) => Vivant(observeurs[o].pc)
  BY DEF JeuxVivants, ObsVivants
<1> QED BY <1>1 DEF Dialogue

\* The steps after which the dialogue is where it was.
Poursuivre ==
  \/ RecevoirJoueur \/ RecevoirRefus \/ RecevoirPartie
  \/ RecevoirObs("turn") \/ RecevoirObs("terminer") \/ RecevoirListe
  \/ PrendrePlace \/ DeposerMessage \/ ArreterEcoute \/ ModifierListe
  \/ \E m \in Menus : \/ VerrouillerListe(m) \/ LibererListe(m) \/ ReprendreApresDefi(m)
                      \/ LireParties(m) \/ PasserObservateur(m) \/ Mourir(m)
                      \/ Quitter(m) \/ ChoisirPartie(m) \/ Defier(m) \/ DemanderParties(m)
                      \/ ChoisirObservation(m)
  \/ \E j \in Jeux : \/ PrendreMessage(j) \/ RedevenirLibre(j) \/ RendrePlace(j)
                     \/ RepondreServeur(j) \/ Abandonner(j)
  \/ \E o \in Observeurs : Rejoindre(o) \/ LireClavier(o) \/ SuivrePartie(o)

LEMMA PoursuivrePas ==
  ASSUME TypesFils, Types, Dialogue, EnVie', Next, Poursuivre
  PROVE  Dialogue'
<1>t. /\ menus \in PcsMenu
      /\ fils \in [menu : Nat, jeu : Nat, observeur : Nat]
      /\ ecoute \in [pc : PcEcoute, m : Messages, annule : BOOLEAN]
  BY DEF TypesFils, Types, PcsMenu
<1>1. UNCHANGED fils
  BY DEF Poursuivre, RecevoirJoueur, RecevoirRefus, RecevoirPartie, RecevoirObs, RecevoirListe,
         PrendrePlace, DeposerMessage, ArreterEcoute, ModifierListe, VerrouillerListe,
         LibererListe, ReprendreApresDefi, LireParties, PasserObservateur, Mourir, Quitter,
         ChoisirPartie, Defier, DemanderParties, ChoisirObservation, PrendreMessage,
         RedevenirLibre, RendrePlace, RepondreServeur, Abandonner, Rejoindre, LireClavier,
         SuivrePartie, threads
<1>2. \/ UNCHANGED menus
      \/ \E m \in Menus : \E pc \in PcMenu :
           Aller(m, pc) /\ Vivant(menus[m].pc) /\ (pc = "observer" => ~menus[m].annule)
  <2>1. ASSUME NEW m \in Menus,
               \/ VerrouillerListe(m) \/ LibererListe(m) \/ ReprendreApresDefi(m)
               \/ LireParties(m) \/ PasserObservateur(m) \/ Mourir(m)
               \/ Quitter(m) \/ ChoisirPartie(m) \/ Defier(m) \/ DemanderParties(m)
               \/ ChoisirObservation(m)
        PROVE  \E pc \in PcMenu :
                 Aller(m, pc) /\ Vivant(menus[m].pc) /\ (pc = "observer" => ~menus[m].annule)
    BY <2>1
    DEF VerrouillerListe, LibererListe, ReprendreApresDefi, LireParties, PasserObservateur, Mourir,
        Quitter, ChoisirPartie, Defier, DemanderParties, ChoisirObservation, Au, Vivant, PcMenu
  <2>2. ASSUME NEW j \in Jeux,
               \/ PrendreMessage(j) \/ RedevenirLibre(j) \/ RendrePlace(j)
               \/ RepondreServeur(j) \/ Abandonner(j)
        PROVE  UNCHANGED menus
    BY <2>2 DEF PrendreMessage, RedevenirLibre, RendrePlace, RepondreServeur, Abandonner
  <2>3. ASSUME NEW o \in Observeurs, Rejoindre(o) \/ LireClavier(o) \/ SuivrePartie(o)
        PROVE  UNCHANGED menus
    BY <2>3 DEF Rejoindre, LireClavier, SuivrePartie
  <2>4. CASE \/ RecevoirJoueur \/ RecevoirRefus \/ RecevoirPartie
             \/ RecevoirObs("turn") \/ RecevoirObs("terminer") \/ RecevoirListe
             \/ PrendrePlace \/ DeposerMessage \/ ArreterEcoute \/ ModifierListe
    BY <2>4
    DEF RecevoirJoueur, RecevoirRefus, RecevoirPartie, RecevoirObs, RecevoirListe,
        PrendrePlace, DeposerMessage, ArreterEcoute, ModifierListe, threads
  <2> QED BY <2>1, <2>2, <2>3, <2>4 DEF Poursuivre
<1>3. \A n \in Menus : Actif(n)' => Actif(n)
  BY <1>2, <1>t DEF Aller, Actif, PcsMenu
<1>4. \A n \in Menus : menus'[n].pc = "observer" => Actif(n)'
  <2> SUFFICES ASSUME NEW n \in Menus, menus'[n].pc = "observer" PROVE Actif(n)'
    OBVIOUS
  <2>1. CASE UNCHANGED menus
    BY <2>1 DEF Dialogue, Actif
  <2>2. ASSUME NEW m \in Menus, NEW pc \in PcMenu, Aller(m, pc), Vivant(menus[m].pc),
               pc = "observer" => ~menus[m].annule
        PROVE  Actif(n)'
    <3>1. CASE n = m
      BY <2>2, <3>1, <1>t DEF Aller, Actif, Vivant, PcsMenu
    <3>2. CASE n # m
      BY <2>2, <3>2, <1>t DEF Aller, Actif, Dialogue, PcsMenu
    <3> QED BY <3>1, <3>2
  <2> QED BY <1>2, <2>1, <2>2
<1>5. JeuxVivants' \subseteq JeuxVivants
  <2>1. ~CreerJeu
    BY <1>1, <1>t DEF CreerJeu
  <2> QED BY <2>1, Jeux3 DEF PasDesJeux, JeuxVivants
<1>6. ObsVivants' \subseteq ObsVivants
  <2>1. \A m \in Menus : ~CreerObserveur(m)
    BY <1>1, <1>t DEF CreerObserveur
  <2> QED BY <2>1, Observateurs3 DEF PasDesObservateurs, ObsVivants
<1>7. ecoute'.pc = "sollicite" => ecoute.pc = "sollicite"
  BY <1>t
  DEF Poursuivre, RecevoirJoueur, RecevoirRefus, RecevoirPartie, RecevoirObs, RecevoirListe,
      PrendrePlace, DeposerMessage, ArreterEcoute, ModifierListe, VerrouillerListe,
      LibererListe, ReprendreApresDefi, LireParties, PasserObservateur, Mourir, Quitter,
      ChoisirPartie, Defier, DemanderParties, ChoisirObservation, PrendreMessage,
      RedevenirLibre, RendrePlace, RepondreServeur, Abandonner, Rejoindre, LireClavier,
      SuivrePartie, threads
<1> QED BY <1>1, <1>3, <1>4, <1>5, <1>6, <1>7, DialogueStable

\* A message about a challenge finds the menu, which has the dialogue.
LEMMA MenuInterrompu ==
  ASSUME TypesFils, Types, Bornes, Futurs, Dialogue, NEW A, Noter(SansMenu \cup A),
         ~Accident("sansMenu")', AnnulerMenu
  PROVE  /\ JeuxVivants = {} /\ ObsVivants = {} /\ ecoute.pc # "sollicite"
         /\ \A m \in Menus : ~Actif(m)'
         /\ \A m \in Menus : menus'[m].pc # "observer"
<1>t. menus \in PcsMenu /\ fils.menu \in Menus /\ fils.menu \in Int
  BY DEF TypesFils, PcsMenu, Bornes, Menus
<1>1. SansMenu \subseteq historique'.accidents
  BY DEF Noter, Types
<1>2. ~menus[fils.menu].annule /\ menus[fils.menu].pc \notin {"mort", "observer"}
  BY <1>1 DEF SansMenu, Accident
<1>3. menus[fils.menu].pc # "futur"
  BY <1>t DEF Futurs
<1>4. Actif(fils.menu)
  BY <1>2, <1>3 DEF Actif, Vivant
<1>5. JeuxVivants = {} /\ ObsVivants = {} /\ ecoute.pc # "sollicite"
  BY <1>t, <1>4 DEF Dialogue
<1>6. ASSUME NEW m \in Menus PROVE ~Actif(m)' /\ menus'[m].pc # "observer"
  <2>1. CASE m = fils.menu
    BY <2>1, <1>t, <1>2 DEF AnnulerMenu, Actif, PcsMenu
  <2>2. CASE m # fils.menu
    <3>1. menus'[m] = menus[m]
      BY <2>2, <1>t DEF AnnulerMenu, PcsMenu
    <3> QED BY <2>2, <3>1 DEF Actif, Dialogue
  <2> QED BY <2>1, <2>2
<1> QED BY <1>5, <1>6

\* The menu that is created.
LEMMA MenuCree ==
  ASSUME TypesFils, Types, Bornes, Futurs, Dialogue, CreerMenu,
         \A m \in Menus : ~Actif(m)
  PROVE  /\ \A m \in Menus : Actif(m)' => m = fils'.menu
         /\ \A m \in Menus : menus'[m].pc # "observer"
<1>t. /\ menus \in PcsMenu
      /\ fils \in [menu : Nat, jeu : Nat, observeur : Nat]
  BY DEF TypesFils, PcsMenu, Types
<1>1. fils'.menu = fils.menu + 1
  BY <1>t DEF CreerMenu
<1>2. \A m \in Menus : m # fils.menu + 1 => menus'[m] = menus[m]
  BY <1>t DEF CreerMenu, PcsMenu
<1>3. fils.menu + 1 \in Menus => menus'[fils.menu + 1].pc = "choix"
  BY <1>t DEF CreerMenu, PcsMenu
<1> QED BY <1>1, <1>2, <1>3 DEF Actif, Dialogue

\* Every step hands the dialogue over to one thread.
LEMMA DialoguePas ==
  ASSUME TypesFils, Types, Bornes, Futurs, Accident("sansMenu") \/ Dialogue, EnVie', Next
  PROVE  Accident("sansMenu")' \/ Dialogue'
<1>a. CASE Accident("sansMenu")
  BY <1>a, AccidentsRestent
<1> SUFFICES ASSUME ~Accident("sansMenu"), Dialogue, ~Accident("sansMenu")' PROVE Dialogue'
  BY <1>a
<1>t. /\ menus \in PcsMenu /\ observeurs \in PcsObs
      /\ fils \in [menu : Nat, jeu : Nat, observeur : Nat]
      /\ jeux \in [Jeux -> [pc : PcJeu, end : BOOLEAN]]
      /\ ecoute \in [pc : PcEcoute, m : Messages, annule : BOOLEAN]
  BY DEF TypesFils, Types, PcsMenu, PcsObs
<1>1. CASE Poursuivre
  BY <1>1, PoursuivrePas
<1>2. CASE RecevoirDefi
  <2>1. UNCHANGED <<jeux, observeurs, fils>>
    BY <1>2 DEF RecevoirDefi
  <2>2. /\ JeuxVivants = {} /\ ObsVivants = {} /\ ecoute.pc # "sollicite"
        /\ \A m \in Menus : ~Actif(m)'
        /\ \A m \in Menus : menus'[m].pc # "observer"
    BY <1>2, MenuInterrompu DEF RecevoirDefi
  <2>3. JeuxVivants' = {} /\ ObsVivants' = {}
    BY <2>1, <2>2 DEF JeuxVivants, ObsVivants
  <2>4. \A j \in Jeux : ~Vivant(jeux'[j].pc)
    BY <2>3 DEF JeuxVivants
  <2>5. \A o \in Observeurs : ~Vivant(observeurs'[o].pc)
    BY <2>3 DEF ObsVivants
  <2> QED BY <2>2, <2>3, <2>4, <2>5 DEF Dialogue
<1>3. CASE RecevoirAccord
  <2>1. UNCHANGED <<ecoute, observeurs>> /\ CreerJeu /\ AnnulerMenu
    BY <1>3 DEF RecevoirAccord
  <2>2. /\ JeuxVivants = {} /\ ObsVivants = {} /\ ecoute.pc # "sollicite"
        /\ \A m \in Menus : ~Actif(m)'
        /\ \A m \in Menus : menus'[m].pc # "observer"
    <3>1. Noter(SansMenu \cup {})
      BY <1>3 DEF RecevoirAccord
    <3> QED BY <2>1, <3>1, MenuInterrompu
  <2>3. ObsVivants' = {} /\ \A o \in Observeurs : ~Vivant(observeurs'[o].pc)
    BY <2>1, <2>2 DEF ObsVivants
  <2>4. \A j \in Jeux : Vivant(jeux'[j].pc) => j = fils'.jeu
    BY <2>1, <2>2, <1>t DEF JeuxVivants, CreerJeu
  <2> QED BY <2>1, <2>2, <2>3, <2>4 DEF Dialogue
<1>4. CASE AccepterDefi
  <2>1. /\ UNCHANGED <<menus, observeurs>> /\ CreerJeu
        /\ ecoute.pc = "sollicite" /\ ecoute'.pc = "select"
    BY <1>4, <1>t DEF AccepterDefi, Sollicite
  <2>2. /\ \A m \in Menus : ~Actif(m)
        /\ JeuxVivants = {} /\ ObsVivants = {}
    BY <2>1 DEF Dialogue
  <2>3. \A m \in Menus : ~Actif(m)' /\ menus'[m].pc # "observer"
    BY <2>1, <2>2 DEF Actif, Dialogue
  <2>4. ObsVivants' = {} /\ \A o \in Observeurs : ~Vivant(observeurs'[o].pc)
    BY <2>1, <2>2 DEF ObsVivants
  <2>5. \A j \in Jeux : Vivant(jeux'[j].pc) => j = fils'.jeu
    BY <2>1, <2>2, <1>t DEF JeuxVivants, CreerJeu
  <2> QED BY <2>1, <2>3, <2>4, <2>5 DEF Dialogue
<1>5. CASE RefuserDefi
  <2>1. /\ UNCHANGED <<jeux, observeurs>> /\ CreerMenu
        /\ ecoute.pc = "sollicite" /\ ecoute'.pc = "select"
    BY <1>5, <1>t DEF RefuserDefi, Sollicite
  <2>2. /\ \A m \in Menus : ~Actif(m)
        /\ JeuxVivants = {} /\ ObsVivants = {}
    BY <2>1 DEF Dialogue
  <2>3. /\ \A m \in Menus : Actif(m)' => m = fils'.menu
        /\ \A m \in Menus : menus'[m].pc # "observer"
    BY <2>1, <2>2, MenuCree
  <2>4. /\ ObsVivants' = {} /\ JeuxVivants' = {}
        /\ \A o \in Observeurs : ~Vivant(observeurs'[o].pc)
        /\ \A j \in Jeux : ~Vivant(jeux'[j].pc)
    BY <2>1, <2>2 DEF ObsVivants, JeuxVivants
  <2> QED BY <2>1, <2>3, <2>4 DEF Dialogue
<1>6. ASSUME NEW m \in Menus, CreerObserveur(m) PROVE Dialogue'
  <2>1. /\ UNCHANGED <<ecoute, jeux>>
        /\ fils' = [fils EXCEPT !.observeur = @ + 1]
        /\ observeurs' = [observeurs EXCEPT ![fils.observeur + 1].pc = "debut"]
        /\ menus' = [menus EXCEPT ![m].pc = "choix", ![fils.menu].annule = TRUE]
    BY <1>6 DEF CreerObserveur
  <2>2. Actif(m) /\ m = fils.menu
    BY <1>6 DEF CreerObserveur, Au, Dialogue
  <2>3. JeuxVivants = {} /\ ObsVivants = {} /\ ecoute.pc # "sollicite"
    BY <2>2 DEF Dialogue
  <2>4. ASSUME NEW n \in Menus PROVE ~Actif(n)' /\ menus'[n].pc # "observer"
    <3>1. CASE n = m
      BY <2>1, <2>2, <3>1, <1>t DEF Actif, PcsMenu
    <3>2. CASE n # m
      <4>1. menus'[n] = menus[n]
        BY <2>1, <2>2, <3>2, <1>t DEF PcsMenu
      <4> QED BY <2>2, <3>2, <4>1 DEF Actif, Dialogue
    <3> QED BY <3>1, <3>2
  <2>5. JeuxVivants' = {} /\ \A j \in Jeux : ~Vivant(jeux'[j].pc)
    BY <2>1, <2>3 DEF JeuxVivants
  <2>6. \A o \in Observeurs : Vivant(observeurs'[o].pc) => o = fils'.observeur
    BY <2>1, <2>3, <1>t DEF ObsVivants, PcsObs
  <2> QED BY <2>1, <2>3, <2>4, <2>5, <2>6 DEF Dialogue
<1>7. ASSUME NEW j \in Jeux, FinirJeu(j) PROVE Dialogue'
  <2>1. UNCHANGED <<ecoute, observeurs>> /\ CreerMenu /\ jeux' = [jeux EXCEPT ![j].pc = "mort"]
    BY <1>7 DEF FinirJeu
  <2>2. j \in JeuxVivants /\ j = fils.jeu
    BY <1>7 DEF FinirJeu, JeuxVivants, Vivant, Dialogue
  <2>3. (\A m \in Menus : ~Actif(m)) /\ ObsVivants = {} /\ ecoute.pc # "sollicite"
    BY <2>2 DEF Dialogue
  <2>4. /\ \A m \in Menus : Actif(m)' => m = fils'.menu
        /\ \A m \in Menus : menus'[m].pc # "observer"
    BY <2>1, <2>3, MenuCree
  <2>5. \A i \in Jeux : ~Vivant(jeux'[i].pc)
    BY <2>1, <2>2, <1>t DEF Vivant, Dialogue
  <2>6. /\ ObsVivants' = {} /\ JeuxVivants' = {}
        /\ \A o \in Observeurs : ~Vivant(observeurs'[o].pc)
    BY <2>1, <2>3, <2>5 DEF ObsVivants, JeuxVivants
  <2> QED BY <2>1, <2>3, <2>4, <2>5, <2>6 DEF Dialogue
<1>8. ASSUME NEW o \in Observeurs, CesserObservation(o) PROVE Dialogue'
  <2>1. /\ UNCHANGED <<ecoute, jeux>> /\ CreerMenu
        /\ observeurs' = [observeurs EXCEPT ![o].pc = "mort"]
    BY <1>8 DEF CesserObservation
  <2>2. o \in ObsVivants /\ o = fils.observeur
    BY <1>8 DEF CesserObservation, ObsVivants, Vivant, Dialogue
  <2>3. (\A m \in Menus : ~Actif(m)) /\ JeuxVivants = {} /\ ecoute.pc # "sollicite"
    BY <2>2 DEF Dialogue
  <2>4. /\ \A m \in Menus : Actif(m)' => m = fils'.menu
        /\ \A m \in Menus : menus'[m].pc # "observer"
    BY <2>1, <2>3, MenuCree
  <2>5. \A i \in Observeurs : ~Vivant(observeurs'[i].pc)
    BY <2>1, <2>2, <1>t DEF Vivant, Dialogue, PcsObs
  <2>6. /\ ObsVivants' = {} /\ JeuxVivants' = {}
        /\ \A j \in Jeux : ~Vivant(jeux'[j].pc)
    BY <2>1, <2>3, <2>5 DEF ObsVivants, JeuxVivants
  <2> QED BY <2>1, <2>3, <2>4, <2>5, <2>6 DEF Dialogue
<1>9. CASE ServeurDeconnecte \/ Terminer
  BY <1>9 DEF ServeurDeconnecte, Terminer, Finir, EnVie
<1> QED BY <1>1, <1>2, <1>3, <1>4, <1>5, <1>6, <1>7, <1>8, <1>9
    DEF Next, Reseau, Utilisateur, Ecoute, Menu, Jeu, Observe, Poursuivre

-----------------------------------------------------------------------------
(* The messages of the game that is played. *)

\* The steps that leave alone the games, their messages and the server's games.
LEMMA CourantStable ==
  ASSUME Courant, UNCHANGED <<jeux, bufferJeu, fils.jeu, serveur.jeux, sem["game"]>>,
         Depose' => Depose /\ ecoute'.m = ecoute.m
  PROVE  Courant'
<1>1. Simple' <=> Simple
  BY DEF Simple, Tient
<1>2. \A j : EnJeu(j)' <=> EnJeu(j)
  BY DEF EnJeu
<1> QED BY <1>1, <1>2 DEF Courant

\* Where the buffer is, when there is a message in it or a game works on one.
LEMMA PlaceTampon ==
  ASSUME Types, Tour
  PROVE  /\ sem["game"] \in {0, 1}
         /\ \A j \in Jeux : Tient(j) => /\ sem["game"] = 0 /\ ecoute.pc # "copie"
                                        /\ \A i \in Jeux : Tient(i) => i = j
         /\ ecoute.pc = "copie" => sem["game"] = 0
BY DEF Tour, Libre, Copie, Plein, Lu

\* A game that begins: the one before it is over for the server.
LEMMA CourantCreer ==
  ASSUME Types, TypesFils, Bornes, Budget', Futurs, Tour, Dialogue, Courant,
         fils'.jeu \in Jeux, CreerJeu, JeuxVivants = {},
         UNCHANGED bufferJeu, sem'["game"] = sem["game"], ecoute'.pc = "select",
         serveur' \in Serveurs, NEW etat \in {"joue", "clos"},
         serveur'.jeux = [serveur.jeux EXCEPT ![fils.jeu + 1] = etat]
  PROVE  Courant'
<1>t. /\ jeux \in [Jeux -> [pc : PcJeu, end : BOOLEAN]]
      /\ fils \in [menu : Nat, jeu : Nat, observeur : Nat]
      /\ serveur.jeux \in [Jeux -> Etats]
  BY DEF Types, TypesFils
<1>1. fils'.jeu = fils.jeu + 1
  BY <1>t DEF CreerJeu
<1>2. \A j \in Jeux : ~EnJeu(j) /\ ~Tient(j)
  BY <1>t DEF JeuxVivants, Vivant, EnJeu, Tient
<1>3. ~Depose /\ sem["game"] # 1
  BY <1>2 DEF Courant
<1>4. \A j \in Jeux : serveur.jeux[j] \in {"aucun", "fini", "clos"}
  BY <1>2, <1>t DEF Courant, Etats
<1>5. /\ jeux'[fils'.jeu].pc = "attend"
      /\ \A j \in Jeux : j # fils'.jeu => jeux'[j] = jeux[j]
  BY <1>1, <1>t DEF CreerJeu
<1>6. ~jeux'[fils'.jeu].end
  <2>1. jeux'[fils'.jeu].end = jeux[fils'.jeu].end
    BY <1>1, <1>t DEF CreerJeu
  <2>2. fils'.jeu > fils.jeu
    BY <1>1, <1>t
  <2> QED BY <2>1, <2>2 DEF Futurs
<1>7. \A j \in Jeux : j # fils'.jeu => serveur'.jeux[j] \in {"aucun", "fini", "clos"}
  BY <1>1, <1>4, <1>t
<1>8. serveur'.jeux[fils'.jeu] # "attend"
  BY <1>1, <1>t
<1>9. ~Depose' /\ sem'["game"] # 1
  BY <1>3 DEF Depose
<1>10. \A j \in Jeux : ~Tient(j)'
  BY <1>2, <1>5 DEF Tient
<1>11. Simple'
  BY <1>9, <1>10 DEF Simple
<1>12. jeux'[fils'.jeu].pc \in {"attend", "repond", "joueurs", "rend"}
  BY <1>5
<1> QED BY <1>6, <1>7, <1>8, <1>9, <1>11, <1>12 DEF Courant, EnJeu

\* A message of the game is received.
LEMMA CourantRecevoir ==
  ASSUME Types, TypesFils, Bornes, Tour, Dialogue, Courant, RecevoirPartie,
         ~Accident("abandonTardif")'
  PROVE  Courant'
<1>t. /\ ecoute \in [pc : PcEcoute, m : Messages, annule : BOOLEAN]
      /\ serveur \in Serveurs
      /\ serveur.jeux \in [Jeux -> Etats]
      /\ sem["game"] \in {0, 1}
  BY PlaceTampon DEF Types, TypesFils, Serveurs
<1>1. PICK j \in Jeux : \E suite \in Suites(serveur.jeux[j]) :
        /\ ecoute' = [ecoute EXCEPT !.pc = "semOKGame",
                                    !.m = Message(suite[1], historique.ecrits + 1)]
        /\ serveur' = [serveur EXCEPT !.jeux[j] = suite[2]]
        /\ Noter(IF suite[2] = "clos" \/ (suite[1] = "fin" /\ PlusDeJeu)
                 THEN {"abandonTardif"} ELSE {})
  BY DEF RecevoirPartie
<1>2. PICK suite \in Suites(serveur.jeux[j]) :
        /\ ecoute' = [ecoute EXCEPT !.pc = "semOKGame",
                                    !.m = Message(suite[1], historique.ecrits + 1)]
        /\ serveur' = [serveur EXCEPT !.jeux[j] = suite[2]]
        /\ Noter(IF suite[2] = "clos" \/ (suite[1] = "fin" /\ PlusDeJeu)
                 THEN {"abandonTardif"} ELSE {})
  BY <1>1
<1>3. suite[2] # "clos" /\ (suite[1] = "fin" => ~PlusDeJeu)
  BY <1>2 DEF Noter, Accident, Types
<1>4. serveur.jeux[j] \in {"joue", "attend"} /\ j = fils.jeu
  <2>1. serveur.jeux[j] \in {"joue", "attend"}
    BY <1>2, <1>3 DEF Suites
  <2> QED BY <2>1 DEF Courant
<1>5. /\ UNCHANGED <<jeux, fils, sem, bufferJeu>> /\ ~Depose /\ Depose'
      /\ ecoute'.m.genre = suite[1]
      /\ serveur'.jeux[j] = suite[2]
      /\ \A i \in Jeux : i # j => serveur'.jeux[i] = serveur.jeux[i]
  BY <1>2, <1>t DEF RecevoirPartie, AuSelect, tampons, Depose, Message, Serveurs
<1>6. (Simple' <=> Simple) /\ \A i : EnJeu(i)' <=> EnJeu(i)
  BY <1>5 DEF Simple, Tient, EnJeu
<1>7. CASE serveur.jeux[j] = "joue"
  <2>1. EnJeu(j) /\ ~jeux[j].end /\ Simple
    BY <1>4, <1>7 DEF Courant
  <2>2. \/ suite[1] = "info" /\ suite[2] = "joue"
        \/ suite[1] \in {"demande_fin", "coups"} /\ suite[2] = "attend"
        \/ suite[1] = "fin" /\ suite[2] = "fini"
    BY <1>2, <1>7 DEF Suites
  <2>3. sem["game"] = 1 => bufferJeu.genre = "info"
    BY <2>1 DEF Simple
  <2> QED BY <1>4, <1>5, <1>6, <2>1, <2>2, <2>3 DEF Courant
<1>8. CASE serveur.jeux[j] = "attend"
  <2>1. suite[1] = "fin" /\ suite[2] = "fini"
    BY <1>2, <1>8 DEF Suites
  <2>2. EnJeu(j)
    BY <1>4, <1>8 DEF Courant
  <2>3. ~jeux[j].end
    <3>1. PICK i \in Jeux : jeux[i].pc \notin {"futur", "finit", "mort"} /\ ~jeux[i].end
      BY <1>3, <2>1 DEF PlusDeJeu
    <3>2. i = j
      BY <1>4, <3>1 DEF Dialogue, Vivant
    <3> QED BY <3>1, <3>2
  <2>4. sem["game"] = 1 => bufferJeu.genre # "fin"
    BY <1>4, <1>8 DEF Courant
  <2> QED BY <1>4, <1>5, <1>6, <2>1, <2>2, <2>3, <2>4 DEF Courant
<1> QED BY <1>4, <1>7, <1>8

\* The message is put in the buffer.
LEMMA CourantDeposer ==
  ASSUME Types, TypesFils, Bornes, Tour, Dialogue, Courant, DeposerMessage
  PROVE  Courant'
<1>t. sem \in [Semaphores -> Int] /\ ecoute \in [pc : PcEcoute, m : Messages, annule : BOOLEAN]
  BY DEF Types
<1>1. /\ Depose /\ ecoute.pc = "copie" /\ sem["game"] = 0
      /\ \A j \in Jeux : ~Tient(j)
  BY PlaceTampon DEF DeposerMessage, Depose
<1>2. /\ UNCHANGED <<jeux, fils, serveur>> /\ bufferJeu' = ecoute.m /\ ~Depose'
      /\ sem'["game"] = 1
  BY <1>t, <1>1 DEF DeposerMessage, SemPost, Semaphores, Depose
<1>3. \A j \in Jeux : ~Tient(j)' /\ (EnJeu(j)' <=> EnJeu(j))
  BY <1>1, <1>2 DEF Tient, EnJeu
<1>4. Simple' <=> ecoute.m.genre = "info"
  BY <1>2, <1>3 DEF Simple
<1>5. fils.jeu \in Jeux => jeux[fils.jeu].pc # "joueurs"
  BY <1>1 DEF Tient
<1> QED BY <1>1, <1>2, <1>3, <1>4, <1>5 DEF Courant

\* The game takes it.
LEMMA CourantPrendre ==
  ASSUME Types, TypesFils, Bornes, Tour, Dialogue, Courant, NEW j \in Jeux, PrendreMessage(j)
  PROVE  Courant'
<1>t. /\ sem \in [Semaphores -> Int] /\ jeux \in [Jeux -> [pc : PcJeu, end : BOOLEAN]]
  BY DEF Types
<1> DEFINE pc == IF bufferJeu.genre \in Questions THEN "repond"
                 ELSE IF bufferJeu.genre = "fin" THEN "joueurs" ELSE "rend"
<1>1. /\ jeux[j].pc = "attend" /\ sem["game"] = 1 /\ sem'["game"] = 0
      /\ jeux' = [jeux EXCEPT ![j].pc = pc, ![j].end = bufferJeu.genre = "fin"]
      /\ UNCHANGED <<ecoute, fils, serveur, bufferJeu>>
  BY <1>t, PlaceTampon DEF PrendreMessage, SemWait, Semaphores, tampons
<1>2. /\ pc \in {"repond", "joueurs", "rend"}
      /\ bufferJeu.genre = "info" => pc = "rend"
  BY DEF Questions
<1> HIDE DEF pc
<1>3. j = fils.jeu
  BY <1>1 DEF Dialogue, Vivant
<1>4. jeux'[j].pc = pc /\ (jeux'[j].end <=> bufferJeu.genre = "fin")
  <2> DEFINE fin == bufferJeu.genre = "fin"
  <2>1. fin \in BOOLEAN
    OBVIOUS
  <2> HIDE DEF fin
  <2>2. jeux'[j].pc = pc /\ jeux'[j].end = fin
    BY <1>1, <1>t DEF fin
  <2> QED BY <2>2 DEF fin
<1>5. \A i \in Jeux : i # j => jeux'[i] = jeux[i] /\ ~Tient(i)
  BY <1>1, <1>t, PlaceTampon
<1>6. EnJeu(j)'
  BY <1>2, <1>4 DEF EnJeu
<1>7. Depose' <=> Depose
  BY <1>1 DEF Depose
<1>8. bufferJeu.genre = "info" => Simple'
  BY <1>1, <1>2, <1>4, <1>5 DEF Simple, Tient
<1>9. Simple => bufferJeu.genre = "info"
  BY <1>1 DEF Simple
<1>10. Depose => bufferJeu.genre # "fin"
  BY <1>1, <1>9 DEF Courant
<1>11. bufferJeu.genre = "fin" => serveur.jeux[j] = "fini"
  BY <1>1, <1>3 DEF Courant
<1> QED BY <1>1, <1>3, <1>4, <1>6, <1>7, <1>8, <1>9, <1>10, <1>11 DEF Courant

\* What the game that has a message does concerns no other game.
LEMMA JeuCourant ==
  ASSUME Types, Tour, Dialogue, NEW j \in Jeux, Tient(j)
  PROVE  /\ j = fils.jeu /\ sem["game"] = 0 /\ ecoute.pc # "copie"
         /\ \A i \in Jeux : i # j => ~Tient(i)
BY PlaceTampon DEF Dialogue, Tient, Vivant

\* The user answers, and plays on.
LEMMA CourantRepondre ==
  ASSUME Types, TypesFils, Bornes, Tour, Dialogue, Courant, NEW j \in Jeux, RepondreServeur(j)
  PROVE  Courant'
<1>t. /\ jeux \in [Jeux -> [pc : PcJeu, end : BOOLEAN]]
      /\ serveur \in Serveurs /\ serveur.jeux \in [Jeux -> Etats]
  BY DEF Types, TypesFils, Serveurs
<1>1. /\ j = fils.jeu /\ sem["game"] = 0
      /\ \A i \in Jeux : i # j => ~Tient(i)
  BY JeuCourant DEF RepondreServeur, Tient
<1>2. /\ jeux[j].pc = "repond"
      /\ jeux'[j].pc = "rend" /\ jeux'[j].end = jeux[j].end
      /\ \A i \in Jeux : i # j => jeux'[i] = jeux[i]
      /\ UNCHANGED <<ecoute, fils, sem>>
  BY <1>t DEF RepondreServeur
<1>3. /\ serveur'.jeux[j] = IF serveur.jeux[j] = "attend" THEN "joue" ELSE serveur.jeux[j]
      /\ \A i \in Jeux : i # j => serveur'.jeux[i] = serveur.jeux[i]
  <2> DEFINE etat == IF serveur.jeux[j] = "attend" THEN "joue" ELSE serveur.jeux[j]
  <2>1. serveur' = [serveur EXCEPT !.jeux[j] = etat]
    BY <1>1 DEF RepondreServeur, Jouee
  <2> HIDE DEF etat
  <2>2. serveur'.jeux[j] = etat /\ \A i \in Jeux : i # j => serveur'.jeux[i] = serveur.jeux[i]
    BY <2>1, <1>t DEF Serveurs
  <2> QED BY <2>2 DEF etat
<1>4. ~Simple
  BY <1>2 DEF Simple, Tient
<1>5. serveur.jeux[j] # "joue"
  BY <1>1, <1>4 DEF Courant
<1>6. Simple' /\ EnJeu(j)' /\ (Depose' <=> Depose)
  <2>1. \A i \in Jeux : i # j => ~Tient(i)'
    BY <1>1, <1>2 DEF Tient
  <2>2. Simple'
    BY <1>1, <1>2, <2>1 DEF Simple
  <2> QED BY <1>2, <2>2 DEF EnJeu, Depose
<1>7. Depose => ecoute.m.genre = "fin" /\ serveur.jeux[j] = "fini"
  BY <1>1, <1>4 DEF Courant
<1>8. serveur.jeux[j] = "attend" => ~jeux[j].end
  BY <1>1, <1>2 DEF Courant
<1>9. /\ \A i \in Jeux : i # j => serveur'.jeux[i] \in {"aucun", "fini", "clos"}
      /\ serveur'.jeux[j] # "attend"
      /\ serveur'.jeux[j] = "joue" => serveur.jeux[j] = "attend"
      /\ serveur.jeux[j] = "fini" => serveur'.jeux[j] = "fini"
  BY <1>1, <1>3, <1>5 DEF Courant
<1>10. Depose => ~jeux[j].end
  BY <1>1 DEF Courant
<1> QED BY <1>1, <1>2, <1>6, <1>7, <1>8, <1>9, <1>10 DEF Courant

\* The user gives up: the question that the server asked was the last.
LEMMA CourantAbandonner ==
  ASSUME Types, TypesFils, Bornes, Tour, Dialogue, Courant, NEW j \in Jeux, Abandonner(j),
         ~Accident("abandonTardif")'
  PROVE  Courant'
<1>t. jeux \in [Jeux -> [pc : PcJeu, end : BOOLEAN]]
  BY DEF Types
<1>1. /\ j = fils.jeu /\ sem["game"] = 0
      /\ \A i \in Jeux : i # j => ~Tient(i)
  BY JeuCourant DEF Abandonner, Tient
<1>2. /\ jeux[j].pc = "repond" /\ bufferJeu.genre = "demande_fin"
      /\ jeux'[j].pc = "joueurs"
      /\ \A i \in Jeux : i # j => jeux'[i] = jeux[i]
      /\ UNCHANGED <<ecoute, fils, sem, bufferJeu, serveur>>
  BY <1>t DEF Abandonner, tampons
<1>3. serveur.jeux[j] = "attend"
  BY <1>1 DEF Abandonner, Noter, Accident, Types
<1>4. ~Simple
  BY <1>2 DEF Simple, Tient
<1>5. ~Depose
  BY <1>1, <1>3, <1>4 DEF Courant
<1>6. EnJeu(j)' /\ ~Depose' /\ sem'["game"] = 0
  BY <1>1, <1>2, <1>5 DEF EnJeu, Depose
<1> QED BY <1>1, <1>2, <1>3, <1>6 DEF Courant

\* The game that ends takes the lock of the list, then answers.
LEMMA CourantRedevenir ==
  ASSUME Types, TypesFils, Bornes, Tour, Dialogue, Courant, NEW j \in Jeux, RedevenirLibre(j)
  PROVE  Courant'
<1>t. /\ jeux \in [Jeux -> [pc : PcJeu, end : BOOLEAN]]
      /\ serveur \in Serveurs /\ serveur.jeux \in [Jeux -> Etats]
  BY DEF Types, TypesFils, Serveurs
<1>1. /\ j = fils.jeu /\ sem["game"] = 0
      /\ \A i \in Jeux : i # j => ~Tient(i)
  BY JeuCourant DEF RedevenirLibre, Tient
<1>2. /\ jeux[j].pc = "joueurs"
      /\ jeux'[j].pc = "rend" /\ jeux'[j].end = jeux[j].end
      /\ \A i \in Jeux : i # j => jeux'[i] = jeux[i]
      /\ UNCHANGED <<ecoute, fils, sem>>
  BY <1>t DEF RedevenirLibre
<1>3. /\ serveur'.jeux[j] = IF bufferJeu.genre = "demande_fin" /\ serveur.jeux[j] = "attend"
                            THEN "fini" ELSE serveur.jeux[j]
      /\ \A i \in Jeux : i # j => serveur'.jeux[i] = serveur.jeux[i]
  <2>1. CASE bufferJeu.genre = "demande_fin"
    <3> DEFINE etat == IF serveur.jeux[j] = "attend" THEN "fini" ELSE serveur.jeux[j]
    <3>1. serveur' = [serveur EXCEPT !.jeux[j] = etat]
      BY <1>1, <2>1 DEF RedevenirLibre, Jouee
    <3> HIDE DEF etat
    <3>2. serveur'.jeux[j] = etat /\ \A i \in Jeux : i # j => serveur'.jeux[i] = serveur.jeux[i]
      BY <3>1, <1>t DEF Serveurs
    <3> QED BY <2>1, <3>2 DEF etat
  <2>2. CASE bufferJeu.genre # "demande_fin"
    BY <2>2 DEF RedevenirLibre
  <2> QED BY <2>1, <2>2
<1>4. ~Simple
  BY <1>2 DEF Simple, Tient
<1>5. serveur.jeux[j] # "joue"
  BY <1>1, <1>4 DEF Courant
<1>6. EnJeu(j)' /\ (Depose' <=> Depose) /\ sem'["game"] = 0
  BY <1>1, <1>2 DEF EnJeu, Depose
<1>7. Depose => /\ ecoute.m.genre = "fin" /\ serveur.jeux[j] = "fini"
                /\ ~jeux[j].end
  BY <1>1, <1>4 DEF Courant
<1>8. serveur'.jeux[j] = "attend" => ~jeux[j].end
  BY <1>1, <1>3 DEF Courant
<1>9. /\ \A i \in Jeux : i # j => serveur'.jeux[i] \in {"aucun", "fini", "clos"}
      /\ serveur'.jeux[j] # "joue"
      /\ serveur.jeux[j] = "fini" => serveur'.jeux[j] = "fini"
  BY <1>1, <1>3, <1>5 DEF Courant
<1> QED BY <1>1, <1>2, <1>6, <1>7, <1>8, <1>9 DEF Courant

\* The buffer is given back; the game that ends can have no message coming.
LEMMA CourantRendre ==
  ASSUME Types, TypesFils, Bornes, Tour, Dialogue, Courant, NEW j \in Jeux, RendrePlace(j)
  PROVE  Courant'
<1>t. jeux \in [Jeux -> [pc : PcJeu, end : BOOLEAN]] /\ sem \in [Semaphores -> Int]
  BY DEF Types
<1>1. /\ j = fils.jeu /\ sem["game"] = 0
      /\ \A i \in Jeux : i # j => ~Tient(i)
  BY JeuCourant DEF RendrePlace, Tient
<1>2. /\ jeux[j].pc = "rend"
      /\ ~jeux[j].end => jeux'[j].pc = "attend"
      /\ jeux'[j].pc \in {"attend", "finit"}
      /\ jeux'[j].end = jeux[j].end
      /\ \A i \in Jeux : i # j => jeux'[i] = jeux[i]
      /\ UNCHANGED <<ecoute, fils, bufferJeu, serveur>>
      /\ sem'["game"] = 0
  <2> DEFINE pc == IF jeux[j].end THEN "finit" ELSE "attend"
  <2>1. jeux' = [jeux EXCEPT ![j].pc = pc]
    BY DEF RendrePlace
  <2>2. pc \in {"attend", "finit"} /\ (~jeux[j].end => pc = "attend")
    OBVIOUS
  <2> HIDE DEF pc
  <2>3. /\ jeux'[j].pc = pc /\ jeux'[j].end = jeux[j].end
        /\ \A i \in Jeux : i # j => jeux'[i] = jeux[i]
    BY <2>1, <1>t
  <2> QED BY <1>1, <1>t, <2>2, <2>3 DEF RendrePlace, SemPost, Semaphores, tampons
<1>3. Simple'
  <2>1. \A i \in Jeux : ~Tient(i)'
    BY <1>1, <1>2 DEF Tient
  <2> QED BY <1>2, <2>1 DEF Simple
<1>4. (Depose' <=> Depose) /\ (~jeux[j].end => EnJeu(j)')
  BY <1>2 DEF Depose, EnJeu
<1>5. /\ Depose => ~jeux[j].end
      /\ serveur.jeux[j] \in {"joue", "attend"} => ~jeux[j].end
  BY <1>1, <1>2 DEF Courant
<1> QED BY <1>1, <1>2, <1>3, <1>4, <1>5 DEF Courant

\* A game that is over is not played, and nothing is coming for it.
LEMMA CourantFinir ==
  ASSUME Types, TypesFils, Bornes, Tour, Dialogue, Courant, NEW j \in Jeux, FinirJeu(j)
  PROVE  Courant'
<1>t. /\ jeux \in [Jeux -> [pc : PcJeu, end : BOOLEAN]]
      /\ fils \in [menu : Nat, jeu : Nat, observeur : Nat]
  BY DEF Types
<1>1. /\ jeux[j].pc = "finit" /\ jeux' = [jeux EXCEPT ![j].pc = "mort"]
      /\ UNCHANGED <<ecoute, sem, bufferJeu, serveur, fils.jeu>>
  BY <1>t DEF FinirJeu, CreerMenu, tampons
<1>2. j = fils.jeu
  BY <1>1 DEF Dialogue, Vivant
<1>3. ~EnJeu(j)
  BY <1>1 DEF EnJeu
<1>4. /\ ~Depose /\ sem["game"] # 1
      /\ serveur.jeux[j] \notin {"joue", "attend"}
  BY <1>2, <1>3 DEF Courant
<1>5. ~Depose'
  BY <1>1, <1>4 DEF Depose
<1> QED BY <1>1, <1>2, <1>4, <1>5 DEF Courant

\* The server's games, the games and the buffer are what the messages expect.
LEMMA CourantPas ==
  ASSUME Types, TypesFils, TypesFils', Bornes, Bornes', Budget', Futurs, Tour, EnVie', Next,
         Accident("sansMenu") \/ Dialogue,
         Accident("sansMenu") \/ Accident("abandonTardif") \/ Courant
  PROVE  Accident("sansMenu")' \/ Accident("abandonTardif")' \/ Courant'
<1>a. CASE Accident("sansMenu") \/ Accident("abandonTardif")
  BY <1>a, AccidentsRestent
<1> SUFFICES ASSUME Dialogue, Courant,
                    ~Accident("sansMenu")', ~Accident("abandonTardif")'
             PROVE  Courant'
  BY <1>a
<1>t. /\ ecoute \in [pc : PcEcoute, m : Messages, annule : BOOLEAN]
      /\ fils \in [menu : Nat, jeu : Nat, observeur : Nat]
      /\ sem \in [Semaphores -> Int] /\ serveur \in Serveurs
  BY DEF Types, TypesFils, Serveurs
<1>1. CASE AccepterDefi \/ RecevoirAccord
  <2>1. CreerJeu /\ UNCHANGED bufferJeu /\ ecoute'.pc = "select"
    BY <1>1, <1>t DEF AccepterDefi, RecevoirAccord, Sollicite, AuSelect, tampons
  <2>2. fils'.jeu \in Jeux
    <3>1. fils'.jeu = fils.jeu + 1 /\ fils.jeu \in Nat
      BY <2>1, <1>t DEF CreerJeu
    <3>2. fils'.jeu \in Jeux \cup {Aucun}
      BY DEF Bornes
    <3> QED BY <3>1, <3>2 DEF Aucun
  <2>3. JeuxVivants = {}
    <3>1. CASE AccepterDefi
      BY <3>1 DEF AccepterDefi, Sollicite, Dialogue
    <3>2. CASE RecevoirAccord
      <4>1. Noter(SansMenu \cup {}) /\ AnnulerMenu
        BY <3>2 DEF RecevoirAccord
      <4> QED BY <4>1, MenuInterrompu
    <3> QED BY <1>1, <3>1, <3>2
  <2>4. sem'["game"] = sem["game"]
    BY <1>1, <1>t DEF AccepterDefi, RecevoirAccord, SemPost, Semaphores
  <2>5. serveur' \in Serveurs
    BY DEF TypesFils, Serveurs
  <2>6. PICK etat \in {"joue", "clos"} :
          \/ serveur' = [serveur EXCEPT !.jeux[fils.jeu + 1] = etat]
          \/ serveur' = [serveur EXCEPT !.defis = @ - 1, !.jeux[fils.jeu + 1] = etat]
    BY <1>1 DEF AccepterDefi, RecevoirAccord
  <2>7. serveur'.jeux = [serveur.jeux EXCEPT ![fils.jeu + 1] = etat]
    BY <2>6, <1>t DEF Serveurs
  <2> QED BY <2>1, <2>2, <2>3, <2>4, <2>5, <2>7, CourantCreer
<1>2. CASE RecevoirPartie
  BY <1>2, CourantRecevoir
<1>3. CASE DeposerMessage
  BY <1>3, CourantDeposer
<1>4. ASSUME NEW j \in Jeux, Jeu(j) \/ RepondreServeur(j) \/ Abandonner(j)
      PROVE  Courant'
  BY <1>4, CourantPrendre, CourantRepondre, CourantAbandonner, CourantRedevenir, CourantRendre,
     CourantFinir DEF Jeu
<1>5. CASE \/ RecevoirJoueur \/ RecevoirRefus \/ RecevoirDefi \/ RefuserDefi
           \/ RecevoirObs("turn") \/ RecevoirObs("terminer") \/ RecevoirListe
           \/ PrendrePlace \/ ArreterEcoute \/ ModifierListe
  <2>1. UNCHANGED <<jeux, bufferJeu, fils.jeu>>
    BY <1>5, <1>t
    DEF RecevoirJoueur, RecevoirRefus, RecevoirDefi, RefuserDefi, RecevoirObs, RecevoirListe,
        PrendrePlace, ArreterEcoute, ModifierListe, CreerMenu, threads, tampons
  <2>2. UNCHANGED serveur.jeux
    BY <1>5, <1>t
    DEF RecevoirJoueur, RecevoirRefus, RecevoirDefi, RefuserDefi, RecevoirObs, RecevoirListe,
        PrendrePlace, ArreterEcoute, ModifierListe, Serveurs
  <2>3. UNCHANGED sem["game"]
    BY <1>5, <1>t
    DEF RecevoirJoueur, RecevoirRefus, RecevoirDefi, RefuserDefi, RecevoirObs, RecevoirListe,
        PrendrePlace, ArreterEcoute, ModifierListe, SemPost, SemWait, Semaphores
  <2>4. Depose' => Depose /\ ecoute'.m = ecoute.m
    BY <1>5, <1>t
    DEF RecevoirJoueur, RecevoirRefus, RecevoirDefi, RefuserDefi, RecevoirObs, RecevoirListe,
        PrendrePlace, ArreterEcoute, ModifierListe, threads, AuSelect, Depose
  <2> QED BY <2>1, <2>2, <2>3, <2>4, CourantStable
<1>6. ASSUME NEW m \in Menus,
             \/ Menu(m) \/ Quitter(m) \/ ChoisirPartie(m) \/ Defier(m) \/ DemanderParties(m)
             \/ ChoisirObservation(m)
      PROVE  Courant'
  <2>1. UNCHANGED <<jeux, bufferJeu, fils.jeu, ecoute.pc, ecoute.m>>
    BY <1>6, <1>t
    DEF Menu, Quitter, ChoisirPartie, VerrouillerListe, LibererListe, Defier, ReprendreApresDefi,
        DemanderParties, LireParties, ChoisirObservation, PasserObservateur, Mourir,
        CreerObserveur, tampons
  <2>2. UNCHANGED serveur.jeux
    <3>1. CASE DemanderParties(m)
      BY <3>1, <1>t DEF DemanderParties, Serveurs
    <3>2. CASE ChoisirObservation(m)
      BY <3>2, <1>t DEF ChoisirObservation, Serveurs
    <3>3. CASE Defier(m)
      BY <3>3, <1>t DEF Defier, Serveurs
    <3>4. CASE Menu(m) \/ Quitter(m) \/ ChoisirPartie(m)
      BY <3>4
      DEF Menu, Quitter, ChoisirPartie, VerrouillerListe, LibererListe, ReprendreApresDefi,
          LireParties, PasserObservateur, Mourir, CreerObserveur
    <3> QED BY <1>6, <3>1, <3>2, <3>3, <3>4
  <2>3. UNCHANGED sem["game"]
    BY <1>6, <1>t
    DEF Menu, Quitter, ChoisirPartie, VerrouillerListe, LibererListe, Defier, ReprendreApresDefi,
        DemanderParties, LireParties, ChoisirObservation, PasserObservateur, Mourir,
        CreerObserveur, SemPost, SemWait, Semaphores
  <2>4. Depose' => Depose
    BY <2>1 DEF Depose
  <2> QED BY <2>1, <2>2, <2>3, <2>4, CourantStable
<1>7. ASSUME NEW o \in Observeurs, Observe(o)
      PROVE  Courant'
  <2>1. UNCHANGED <<jeux, bufferJeu, fils.jeu, ecoute>>
    BY <1>7, <1>t
    DEF Observe, Rejoindre, LireClavier, SuivrePartie, CesserObservation, CreerMenu, tampons
  <2>2. UNCHANGED <<serveur.jeux, sem["game"]>>
    BY <1>7, <1>t
    DEF Observe, Rejoindre, LireClavier, SuivrePartie, CesserObservation, SemWait, Semaphores,
        Serveurs
  <2>3. Depose' => Depose
    BY <2>1 DEF Depose
  <2> QED BY <2>1, <2>2, <2>3, CourantStable
<1>8. CASE ServeurDeconnecte \/ Terminer
  BY <1>8 DEF ServeurDeconnecte, Terminer, Finir, EnVie
<1> QED BY <1>1, <1>2, <1>3, <1>4, <1>5, <1>6, <1>7, <1>8
    DEF Next, Reseau, Utilisateur, Ecoute

-----------------------------------------------------------------------------
(* The theorems. *)

\* At the beginning the first menu has the dialogue and nothing is counted.
LEMMA DInvInit ==
  ASSUME Init
  PROVE  DInv
<1> USE DEF Init, Semaphores
<1>c. MaxEpisodes \in Nat
  BY ClientAssumption
<1>1. TypesFils
  <2>1. menus \in PcsMenu
    BY DEF PcsMenu, PcMenu
  <2>2. observeurs \in PcsObs
    BY DEF PcsObs, PcObs, Aucun
  <2>3. serveur \in Serveurs /\ compteurs \in Compteurs /\ sem \in [Semaphores -> Nat]
    BY <1>c DEF Serveurs, Etats, Compteurs
  <2> QED BY <2>1, <2>2, <2>3 DEF TypesFils, PcsMenu, PcsObs, Serveurs, Compteurs
<1>2. Bornes /\ Verrou
  BY <1>c DEF Bornes, Verrou, Menus
<1>3. JeuxVivants = {} /\ ObsVivants = {} /\ Demandes = {} /\ Sollicites = {} /\ EnDefi = {}
  BY DEF JeuxVivants, ObsVivants, Demandes, Sollicites, EnDefi, Vivant
<1>4. Budget
  BY <1>3, FS_EmptySet DEF Budget, EnAttente, Aucun
<1>5. Futurs
  BY DEF Futurs, Menus
<1>6. Reponses
  BY <1>3, FS_EmptySet DEF Reponses
<1>7. Dialogue
  BY <1>3 DEF Dialogue, Actif, Vivant
<1>8. Courant
  BY DEF Courant, Depose, Aucun, Jeux
<1>9. EnVie
  BY DEF EnVie
<1> QED BY <1>1, <1>2, <1>4, <1>5, <1>6, <1>7, <1>8, <1>9 DEF DInv

LEMMA PasEnVie ==
  ASSUME Next
  PROVE  EnVie
BY DEF Next, Reseau, Utilisateur, Ecoute, Menu, Jeu, Observe, RecevoirJoueur, RecevoirDefi,
       RecevoirAccord, RecevoirRefus, RecevoirPartie, RecevoirObs, RecevoirListe,
       ServeurDeconnecte, AccepterDefi, RefuserDefi, Sollicite, AuSelect, PrendrePlace,
       DeposerMessage, ArreterEcoute, ModifierListe, Terminer, Quitter, ChoisirPartie,
       VerrouillerListe, LibererListe, Defier, ReprendreApresDefi, DemanderParties, LireParties,
       ChoisirObservation, PasserObservateur, CreerObserveur, Mourir, Au, PrendreMessage,
       RepondreServeur, Abandonner, RedevenirLibre, RendrePlace, FinirJeu, Rejoindre, LireClavier,
       SuivrePartie, CesserObservation

\* Every step keeps the invariant.
LEMMA DInvPas ==
  ASSUME IInv, IInv', DInv, [Next]_vars
  PROVE  DInv'
<1>t. Types /\ Types' /\ TypesFils /\ Bornes
  BY DEF IInv, DInv
<1>1. TypesFils'
  BY <1>t, TypesPas
<1>2. CASE UNCHANGED vars
  <2>1. UNCHANGED <<ecoute, menus, jeux, observeurs, fils, sem, bufferJeu, programme, serveur,
                    historique, compteurs>>
    BY <1>2 DEF vars, threads, tampons
  <2>2. EnVie' <=> EnVie
    BY <2>1 DEF EnVie
  <2>3. /\ Bornes => Bornes' /\ (Budget => Budget') /\ (Futurs => Futurs') /\ (Verrou => Verrou')
    BY <2>1 DEF Bornes, Budget, EnAttente, JeuxVivants, ObsVivants, Demandes, Sollicites, Futurs,
                Verrou
  <2>4. (Reponses => Reponses') /\ (Dialogue => Dialogue')
    BY <2>1 DEF Reponses, EnDefi, Dialogue, Actif, JeuxVivants, ObsVivants
  <2>5. Courant => Courant'
    BY <2>1 DEF Courant, Depose, EnJeu, Simple, Tient
  <2>6. \A a : Accident(a) => Accident(a)'
    BY <2>1 DEF Accident
  <2>7. Arret => Arret'
    BY <2>1 DEF Arret
  <2> QED BY <1>1, <2>2, <2>3, <2>4, <2>5, <2>6, <2>7 DEF DInv
<1>3. CASE Next /\ EnVie'
  <2>1. EnVie /\ Tour /\ Budget /\ Futurs /\ Verrou
    BY <1>3, PasEnVie DEF IInv, DInv
  <2>2. /\ Accident("orphelin") \/ Reponses
        /\ Accident("sansMenu") \/ Dialogue
        /\ Accident("sansMenu") \/ Accident("abandonTardif") \/ Courant
    BY <2>1 DEF DInv
  <2>3. Budget'
    <3>1. ~ServeurDeconnecte /\ ~Terminer
      BY <1>3 DEF ServeurDeconnecte, Terminer, Finir, EnVie
    <3> QED BY <1>3, <1>t, <1>1, <2>1, <3>1, BudgetEcoute, BudgetMenu, BudgetJeu, BudgetObserve
        DEF Next, Reseau, Utilisateur, Ecoute
  <2>4. Futurs'
    BY <1>3, <1>t, <2>1, FutursPas
  <2>5. Verrou'
    BY <1>3, <1>t, <2>1, VerrouPas
  <2>6. Bornes'
    BY <1>1, <1>t, <2>3, <2>5, BornesPas
  <2>7. Accident("orphelin")' \/ Reponses'
    BY <1>3, <1>t, <2>1, <2>2, ReponsesPas
  <2>8. Accident("sansMenu")' \/ Dialogue'
    BY <1>3, <1>t, <2>1, <2>2, DialoguePas
  <2>9. Accident("sansMenu")' \/ Accident("abandonTardif")' \/ Courant'
    BY <1>3, <1>1, <1>t, <2>1, <2>2, <2>3, <2>6, CourantPas
  <2> QED BY <1>1, <1>3, <2>3, <2>4, <2>5, <2>6, <2>7, <2>8, <2>9 DEF DInv
<1>4. CASE Next /\ ~EnVie'
  <2>1. UNCHANGED programme \/ \E etat : Finir(etat)
    BY <1>4
    DEF Next, Reseau, Utilisateur, Ecoute, Menu, Jeu, Observe, RecevoirJoueur, RecevoirDefi,
        RecevoirAccord, RecevoirRefus, RecevoirPartie, RecevoirObs, RecevoirListe,
        ServeurDeconnecte, AccepterDefi, RefuserDefi, PrendrePlace, DeposerMessage,
        ArreterEcoute, ModifierListe, Terminer, Quitter, ChoisirPartie, VerrouillerListe,
        LibererListe, Defier, ReprendreApresDefi, DemanderParties, LireParties,
        ChoisirObservation, PasserObservateur, CreerObserveur, Mourir, PrendreMessage,
        RepondreServeur, Abandonner, RedevenirLibre, RendrePlace, FinirJeu, Rejoindre,
        LireClavier, SuivrePartie, CesserObservation, threads
  <2>2. PICK etat : Finir(etat)
    BY <1>4, <2>1, PasEnVie DEF EnVie
  <2>3. Bornes'
    BY <1>t, <2>2 DEF Finir, Bornes, Semaphores
  <2>4. Arret'
    BY <1>t, <2>2 DEF Finir, Arret, Types
  <2> QED BY <1>1, <1>4, <2>3, <2>4 DEF DInv
<1> QED BY <1>2, <1>3, <1>4

\* The invariant of the dialogue holds in every state of the program.
THEOREM InvariantDialogue == Spec => []DInv
<1>1. Init => DInv
  BY DInvInit
<1>2. IInv /\ IInv' /\ DInv /\ [Next]_vars => DInv'
  BY DInvPas
<1> QED BY <1>1, <1>2, InvariantClient, PTL DEF Spec

\* The threads of the client are where their functions have places, there are no
\* more of them than the episodes allow, and no semaphore is negative; that of
\* the list is 0 or 1 (menu, listen_info_serveur, jeu, observeur).
THEOREM TypeClient == Spec => []TypeInvariant
<1>1. IInv /\ DInv => TypeInvariant
  <2> SUFFICES ASSUME IInv, DInv PROVE TypeInvariant
    OBVIOUS
  <2>1. ecoute.pc \in PcEcoute /\ historique.accidents \subseteq Accidents
    BY DEF IInv, Types
  <2>2. \A j \in Jeux : jeux[j].pc \in PcJeu
    BY DEF IInv, Types
  <2>3. \A m \in Menus : menus[m].pc \in PcMenu
    BY DEF DInv, TypesFils
  <2>4. \A o \in Observeurs : observeurs[o].pc \in PcObs
    BY DEF DInv, TypesFils
  <2>5. \A s \in Semaphores : sem[s] \in Nat
    BY DEF DInv, TypesFils
  <2>6. /\ fils \in [menu : Menus, jeu : Jeux \cup {Aucun}, observeur : Observeurs \cup {Aucun}]
        /\ sem["joueurs"] \in 0..1
    BY DEF DInv, Bornes
  <2> QED BY <2>1, <2>2, <2>3, <2>4, <2>5, <2>6 DEF TypeInvariant, PcEcoute, PcJeu, PcMenu, PcObs
<1> QED BY <1>1, InvariantClient, InvariantDialogue, PTL

\* As long as no challenge or accept has found the user elsewhere than in a menu
\* (sansMenu), one thread at a time talks to the user: a menu, the listening
\* thread that asks whether a challenge is accepted, a game or an observer
\* (listen_info_serveur cancels the menu before it asks or creates a game).
THEOREM UnMaitre == Spec => []UnSeulMaitre
<1>1. DInv => UnSeulMaitre
  <2> SUFFICES ASSUME DInv, ~Accident("sansMenu") PROVE Cardinality(Maitres) <= 1
    BY DEF UnSeulMaitre
  <2>1. ASSUME NEW x \in Maitres, NEW y \in Maitres PROVE x = y
    <3>1. CASE EnVie
      <4>1. Dialogue
        BY <3>1 DEF DInv
      <4> DEFINE M == {<<"menu", m>> : m \in {m \in Menus : Actif(m)}}
                 J == {<<"jeu", j>> : j \in JeuxVivants}
                 O == {<<"obs", o>> : o \in ObsVivants}
                 E == {<<"ecoute", e>> : e \in Sollicites}
      <4>2. x \in M \cup J \cup O \cup E /\ y \in M \cup J \cup O \cup E
        BY DEF Maitres, Actif, Vivant, JeuxVivants, ObsVivants, Sollicites
      <4>3. /\ \A z \in M : z = <<"menu", fils.menu>>
            /\ \A z \in J : z = <<"jeu", fils.jeu>>
            /\ \A z \in O : z = <<"obs", fils.observeur>>
            /\ \A z \in E : z = <<"ecoute", 1>>
        BY <4>1 DEF Dialogue, JeuxVivants, ObsVivants, Sollicites
      <4>4. /\ M # {} => J = {} /\ O = {} /\ E = {}
            /\ J # {} => O = {} /\ E = {}
            /\ O # {} => E = {}
        BY <4>1 DEF Dialogue, Sollicites
      <4> HIDE DEF M, J, O, E
      <4> QED BY <4>2, <4>3, <4>4
    <3>2. CASE ~EnVie
      <4>1. Arret
        BY <3>2 DEF DInv
      <4> QED BY <4>1 DEF Arret, Maitres
    <3> QED BY <3>1, <3>2
  <2>2. Maitres = {} \/ \E x : Maitres = {x}
    BY <2>1
  <2>3. Cardinality(Maitres) = 0 \/ Cardinality(Maitres) = 1
    BY <2>2, FS_EmptySet, FS_Singleton
  <2> QED BY <2>3
<1> QED BY <1>1, InvariantDialogue, PTL

\* As long as no menu was stopped while it waited for the answer to its challenge
\* (orphelin), no challenge or accept came without a menu to cancel (sansMenu),
\* and no menu in that wait has a cancellation pending: each challenge sent that
\* has no answer yet, or whose answer is not read, has its menu in
\* sem_wait(&semRepDefi), and there is one such challenge at a time.  A challenge
\* received while one waits ends this (client.c:141).
THEOREM DefiUnique == Spec => []UnDefi
<1>1. DInv => UnDefi
  <2> SUFFICES ASSUME DInv, EnVie, ~Accident("sansMenu"), ~Accident("orphelin"),
                      \A m \in Menus : ~(menus[m].pc = "defi" /\ menus[m].annule)
               PROVE  Reponses /\ serveur.defis <= 1
    BY DEF UnDefi, Reponses, EnDefi
  <2>1. Reponses /\ Dialogue
    BY DEF DInv
  <2>2. EnDefi \subseteq {fils.menu}
    BY <2>1 DEF EnDefi, Dialogue, Actif, Vivant
  <2>3. Cardinality(EnDefi) = 0 \/ Cardinality(EnDefi) = 1
    <3>1. EnDefi = {} \/ EnDefi = {fils.menu}
      BY <2>2
    <3> QED BY <3>1, FS_EmptySet, FS_Singleton
  <2>4. serveur.defis \in Nat /\ sem["defi"] \in Nat
    BY DEF DInv, TypesFils, Semaphores
  <2> QED BY <2>1, <2>3, <2>4 DEF Reponses
<1> QED BY <1>1, InvariantDialogue, PTL

\* As long as no end was sent to a game that was over or given up (abandonTardif)
\* and no challenge or accept came without a menu to cancel (sansMenu): when the
\* listening thread waits in sem_wait(&semOKGame) a game works on a message or can
\* take the one that is there.  Without the first it may wait for ever
\* (client.c:588).
THEOREM DepotSansBlocage == Spec => []DepotAttendu
<1>1. IInv /\ DInv => DepotAttendu
  <2> SUFFICES ASSUME IInv, DInv, EnVie, ecoute.pc = "semOKGame", sem["okGame"] = 0,
                      ~Accident("abandonTardif"), ~Accident("sansMenu")
               PROVE  \E j \in Jeux : Tient(j) \/ (jeux[j].pc = "attend" /\ sem["game"] > 0)
    BY DEF DepotAttendu
  <2>1. Tour /\ Courant
    BY DEF IInv, DInv
  <2>2. Plein \/ Lu
    BY <2>1 DEF Tour, Libre, Copie
  <2>3. CASE Plein
    <3>1. fils.jeu \in Jeux /\ EnJeu(fils.jeu)
      BY <2>1 DEF Courant, Depose
    <3> QED BY <2>3, <3>1 DEF Plein, EnJeu, Tient
  <2>4. CASE Lu
    BY <2>4 DEF Lu
  <2> QED BY <2>2, <2>3, <2>4
<1> QED BY <1>1, InvariantClient, InvariantDialogue, PTL

=============================================================================
