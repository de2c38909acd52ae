------------------------------- MODULE Client -------------------------------
(***************************************************************************)
(* The threads of one client program: menu, listening, game, observer, the *)
(* six semaphores and the two buffers they share.  A pthread_t variable    *)
(* (thread_menu, thread_jeu) names the last thread created through it.     *)
(* Cancellation is deferred: a cancelled thread dies at its next           *)
(* cancellation point, and there is one before each effect of a menu.      *)
(*                                                                         *)
(* The server is what one client sees of it: challenges at any time,       *)
(* answers to its own challenges, the messages of the games it is in, of   *)
(* the game it observes.  A message is received, one by recv, when the     *)
(* listening thread handles it (module Annuaire has joined messages and    *)
(* the contents of the list of players).  O_NONBLOCK, set on the keyboard  *)
(* by the observer, is left out.                                           *)
(***************************************************************************)
EXTENDS Integers, FiniteSets

CONSTANTS
  MaxEpisodes,   \* bound: challenges sent, challenges received, observations
  MaxMessages    \* bound: messages new_joueur, delete_joueur, PARTIE and OBS/turn

ASSUME ClientAssumption ==
  {MaxEpisodes, MaxMessages} \subseteq Nat

\* As many threads as the episodes let the program create: each brings at most
\* one game or observer, and the menu that comes back.
Jeux       == 1..MaxEpisodes
Observeurs == 1..MaxEpisodes
Menus      == 1 .. 1 + MaxEpisodes

Aucun == 0

VARIABLES
  ecoute,       \* listen_info_serveur(): where it stands, message, cancelled
  menus,        \* [Menus -> where menu() stands, cancelled]
  jeux,         \* [Jeux -> where jeu() stands, end]
  observeurs,   \* [Observeurs -> where observeur() stands, thread it joins,
                \* and whether it was sent the end]
  fils,         \* the threads created last through thread_menu, thread_jeu, ...
  sem,          \* the semaphores
  bufferJeu,    \* kind and number of the message of the game
  bufferObserveur,
  programme,    \* app(): running, over, or crashed
  serveur,      \* what the server does with this client
  historique,   \* messages put and taken; what happened that must not
  compteurs     \* what was done so far of what the bounds limit

threads == <<ecoute, menus, jeux, observeurs, fils>>
tampons == <<bufferJeu, bufferObserveur>>
vars == <<threads, sem, tampons, programme, serveur, historique, compteurs>>

Semaphores == {"joueurs", "defi", "game", "okGame", "liste", "observeur"}

Message(genre, n) == [genre |-> genre, n |-> n]
Rien == Message("rien", 0)

Init ==
  /\ ecoute = [pc |-> "select", m |-> Rien, annule |-> FALSE]
  /\ menus = [m \in Menus |-> [pc |-> IF m = 1 THEN "choix" ELSE "futur", annule |-> FALSE]]
  /\ jeux = [j \in Jeux |-> [pc |-> "futur", end |-> FALSE]]
  /\ observeurs = [o \in Observeurs |-> [pc |-> "futur", cible |-> Aucun, averti |-> FALSE]]
  /\ fils = [menu |-> 1, jeu |-> Aucun, observeur |-> Aucun]
  /\ sem = [s \in Semaphores |-> IF s \in {"joueurs", "okGame"} THEN 1 ELSE 0]
  /\ bufferJeu = Rien
  /\ bufferObserveur = "vide"
  /\ programme = "vie"
  /\ serveur = [jeux |-> [j \in Jeux |-> "aucun"], defis |-> 0, listes |-> 0, observe |-> FALSE]
  /\ historique = [ecrits |-> 0, lus |-> 0, accidents |-> {}]
  /\ compteurs = [episodes |-> 0, messages |-> 0]

EnVie == programme = "vie"

SemWait(s) == sem[s] > 0 /\ sem' = [sem EXCEPT ![s] = @ - 1]
SemPost(s) == sem' = [sem EXCEPT ![s] = @ + 1]

\* Mutant: the menu is left alone.
MenuNonAnnule == UNCHANGED menus

\* pthread_cancel(*thread_menu).
AnnulerMenu == menus' = [menus EXCEPT ![fils.menu].annule = TRUE]

\* pthread_create(thread_menu, NULL, menu, NULL).
CreerMenu ==
  /\ fils' = [fils EXCEPT !.menu = @ + 1]
  /\ menus' = [menus EXCEPT ![fils.menu + 1].pc = "choix"]

\* pthread_create(thread_jeu, NULL, jeu, NULL).  The server starts a game, or
\* has no place for one.
CreerJeu ==
  /\ fils' = [fils EXCEPT !.jeu = @ + 1]
  /\ jeux' = [jeux EXCEPT ![fils.jeu + 1].pc = "attend"]

Episode ==
  /\ compteurs.episodes < MaxEpisodes
  /\ compteurs' = [compteurs EXCEPT !.episodes = @ + 1]

CompterMessage ==
  /\ compteurs.messages < MaxMessages
  /\ compteurs' = [compteurs EXCEPT !.messages = @ + 1]

\* History: the hazards that were met, which the properties except.
Accidents == {"sansMenu", "orphelin", "abandonTardif", "verrouPerdu", "messageEcrase"}

Noter(accidents) == historique' = [historique EXCEPT !.accidents = @ \cup accidents]

-----------------------------------------------------------------------------
(* The listening thread. *)

\* The process is over, and its threads with it; the server forgets it.
Finir(etat) ==
  /\ programme' = etat
  /\ ecoute' = [ecoute EXCEPT !.pc = "mort", !.m = Rien]
  /\ menus' = [m \in Menus |-> [pc |-> "mort", annule |-> FALSE]]
  /\ jeux' = [j \in Jeux |-> [pc |-> "mort", end |-> FALSE]]
  /\ observeurs' = [o \in Observeurs |-> [pc |-> "mort", cible |-> Aucun, averti |-> FALSE]]
  /\ bufferJeu' = Rien /\ bufferObserveur' = "vide"
  /\ serveur' = [jeux |-> [j \in Jeux |-> "aucun"], defis |-> 0, listes |-> 0, observe |-> FALSE]
  /\ sem' = [s \in Semaphores |-> 0]
  /\ UNCHANGED <<fils, historique, compteurs>>

AuSelect == EnVie /\ ecoute.pc = "select" /\ ~ecoute.annule

\* A message about a challenge that finds no menu to cancel: its user plays,
\* observes, or is about to.
SansMenu ==
  IF menus[fils.menu].annule \/ menus[fils.menu].pc \in {"mort", "observer"} THEN {"sansMenu"} ELSE {}

\* new_joueur, delete_joueur: the list is locked first.
RecevoirJoueur ==
  /\ AuSelect
  /\ ecoute' = [ecoute EXCEPT !.pc = "joueurs"]
  /\ CompterMessage
  /\ UNCHANGED <<menus, jeux, observeurs, fils, sem, tampons, programme, serveur, historique>>

ModifierListe ==
  /\ EnVie
  /\ ecoute.pc = "joueurs" /\ ~ecoute.annule
  /\ sem["joueurs"] > 0
  /\ ecoute' = [ecoute EXCEPT !.pc = "select"]
  /\ UNCHANGED <<menus, jeux, observeurs, fils, sem, tampons, programme, serveur, historique,
                 compteurs>>

\* A challenge: the menu is cancelled and this thread asks the user.
RecevoirDefi ==
  /\ AuSelect
  /\ Episode
  /\ AnnulerMenu
  /\ ecoute' = [ecoute EXCEPT !.pc = "sollicite"]
  /\ Noter(SansMenu \cup IF menus[fils.menu].pc = "defi" THEN {"orphelin"} ELSE {})
  /\ UNCHANGED <<jeux, observeurs, fils, sem, tampons, programme, serveur>>

Sollicite == EnVie /\ ecoute.pc = "sollicite" /\ ~ecoute.annule

AccepterDefi ==
  /\ Sollicite
  /\ CreerJeu
  /\ \E etat \in {"joue", "clos"} : serveur' = [serveur EXCEPT !.jeux[fils.jeu + 1] = etat]
  /\ ecoute' = [ecoute EXCEPT !.pc = "select"]
  /\ UNCHANGED <<menus, observeurs, sem, tampons, programme, historique, compteurs>>

RefuserDefi ==
  /\ Sollicite
  /\ CreerMenu
  /\ ecoute' = [ecoute EXCEPT !.pc = "select"]
  /\ UNCHANGED <<jeux, observeurs, sem, tampons, programme, serveur, historique, compteurs>>

\* The answers to a challenge of this client.
RecevoirAccord ==
  /\ AuSelect
  /\ serveur.defis > 0
  /\ SemPost("defi")
  /\ AnnulerMenu
  /\ CreerJeu
  /\ \E etat \in {"joue", "clos"} :
       serveur' = [serveur EXCEPT !.defis = @ - 1, !.jeux[fils.jeu + 1] = etat]
  /\ Noter(SansMenu)
  /\ UNCHANGED <<ecoute, observeurs, tampons, programme, compteurs>>

RecevoirRefus ==
  /\ AuSelect
  /\ serveur.defis > 0
  /\ SemPost("defi")
  /\ serveur' = [serveur EXCEPT !.defis = @ - 1]
  /\ UNCHANGED <<threads, tampons, programme, historique, compteurs>>

\* A message of a game: shown to the user, a question, or the end.  A second
\* end is PARTIE/abandon, sent when the opponent leaves while the server is
\* still in end_game.
Suites(etat) ==
  IF etat = "joue" THEN {<<"info", "joue">>, <<"demande_fin", "attend">>, <<"coups", "attend">>,
                         <<"fin", "fini">>}
  ELSE IF etat = "attend" THEN {<<"fin", "fini">>}
  ELSE IF etat = "fini" THEN {<<"fin", "clos">>}
  ELSE {}

\* The user has given up every game that the program plays.
PlusDeJeu == \A j \in Jeux : jeux[j].pc \in {"futur", "finit", "mort"} \/ jeux[j].end

RecevoirPartie ==
  /\ AuSelect
  /\ CompterMessage
  /\ \E j \in Jeux : \E suite \in Suites(serveur.jeux[j]) :
       /\ ecoute' = [ecoute EXCEPT !.pc = "semOKGame", !.m = Message(suite[1], historique.ecrits + 1)]
       /\ serveur' = [serveur EXCEPT !.jeux[j] = suite[2]]
       /\ Noter(IF suite[2] = "clos" \/ (suite[1] = "fin" /\ PlusDeJeu) THEN {"abandonTardif"} ELSE {})
  /\ UNCHANGED <<menus, jeux, observeurs, fils, sem, tampons, programme>>

\* Mutant: the buffer is not waited for.
PrendrePlaceSansAttendre ==
  /\ EnVie
  /\ ecoute.pc = "semOKGame" /\ ~ecoute.annule
  /\ ecoute' = [ecoute EXCEPT !.pc = "copie"]
  /\ UNCHANGED <<menus, jeux, observeurs, fils, sem, tampons, programme, serveur, historique,
                 compteurs>>

PrendrePlace ==
  /\ EnVie
  /\ ecoute.pc = "semOKGame" /\ ~ecoute.annule
  /\ SemWait("okGame")
  /\ ecoute' = [ecoute EXCEPT !.pc = "copie"]
  /\ UNCHANGED <<menus, jeux, observeurs, fils, tampons, programme, serveur, historique, compteurs>>

\* Mutant: the semaphore is posted before the copy.
DeposerSansCopie ==
  /\ EnVie
  /\ ecoute.pc = "copie"
  /\ SemPost("game")
  /\ ecoute' = [ecoute EXCEPT !.pc = "select", !.m = Rien]
  /\ historique' = [historique EXCEPT !.ecrits = @ + 1]
  /\ UNCHANGED <<menus, jeux, observeurs, fils, tampons, programme, serveur, compteurs>>

DeposerMessage ==
  /\ EnVie
  /\ ecoute.pc = "copie"
  /\ bufferJeu' = ecoute.m
  /\ SemPost("game")
  /\ ecoute' = [ecoute EXCEPT !.pc = "select", !.m = Rien]
  /\ historique' = [historique EXCEPT !.ecrits = @ + 1]
  /\ UNCHANGED <<menus, jeux, observeurs, fils, bufferObserveur, programme, serveur, compteurs>>

\* The observers that exist when the end is received.
Avertir(m) ==
  observeurs' = [o \in Observeurs |-> [observeurs[o] EXCEPT
                   !.averti = m = "terminer" /\ observeurs[o].pc \notin {"futur", "mort"}]]

\* A turn, or the end, of the game that is observed.
RecevoirObs(m) ==
  /\ AuSelect
  /\ serveur.observe
  /\ bufferObserveur' = m
  /\ SemPost("observeur")
  /\ IF m = "turn" THEN CompterMessage ELSE UNCHANGED compteurs
  /\ serveur' = [serveur EXCEPT !.observe = m = "turn"]
  /\ Avertir(m)
  /\ UNCHANGED <<ecoute, menus, jeux, fils, bufferJeu, programme, historique>>

RecevoirListe ==
  /\ AuSelect
  /\ serveur.listes > 0
  /\ SemPost("liste")
  /\ serveur' = [serveur EXCEPT !.listes = @ - 1]
  /\ UNCHANGED <<threads, tampons, programme, historique, compteurs>>

\* recv returns 0: the program ends; before the first game *thread_jeu, which
\* is cancelled, was never written.
ServeurDeconnecte ==
  /\ AuSelect
  /\ Finir("fini") \/ (fils.jeu = Aucun /\ Finir("plante"))

\* Cancelled by a menu that quits; it may be in the middle of the copy.
ArreterEcoute ==
  /\ EnVie
  /\ ecoute.annule
  /\ ecoute.pc \notin {"copie", "mort"}
  /\ ecoute' = [ecoute EXCEPT !.pc = "mort"]
  /\ UNCHANGED <<menus, jeux, observeurs, fils, sem, tampons, programme, serveur, historique,
                 compteurs>>

\* app() joins the listening thread, frees the semaphores and returns.
Terminer ==
  /\ EnVie
  /\ ecoute.pc = "mort"
  /\ Finir("fini")

-----------------------------------------------------------------------------
(* The menu. *)

\* Menu m is at pc; with a cancellation pending it goes no further, except in
\* the few places where nothing lies between it and what it does next.
Au(m, pc) == EnVie /\ menus[m].pc = pc

Aller(m, pc) == menus' = [menus EXCEPT ![m].pc = pc]

\* Mutant: the listening thread is left alone.
QuitterSeul(m) ==
  /\ Au(m, "choix") /\ ~menus[m].annule
  /\ Aller(m, "mort")
  /\ UNCHANGED <<ecoute, jeux, observeurs, fils, sem, tampons, programme, serveur, historique,
                 compteurs>>

\* 0: the empty message sends nothing.
Quitter(m) ==
  /\ Au(m, "choix") /\ ~menus[m].annule
  /\ Aller(m, "mort")
  /\ ecoute' = [ecoute EXCEPT !.annule = TRUE]
  /\ UNCHANGED <<jeux, observeurs, fils, sem, tampons, programme, serveur, historique, compteurs>>

\* 1: the list of players, printed under the lock.
ChoisirPartie(m) ==
  /\ Au(m, "choix") /\ ~menus[m].annule
  /\ Aller(m, "joueurs")
  /\ UNCHANGED <<ecoute, jeux, observeurs, fils, sem, tampons, programme, serveur, historique,
                 compteurs>>

VerrouillerListe(m) ==
  /\ Au(m, "joueurs") /\ ~menus[m].annule
  /\ SemWait("joueurs")
  /\ Aller(m, "affiche")
  /\ UNCHANGED <<ecoute, jeux, observeurs, fils, tampons, programme, serveur, historique, compteurs>>

\* Mutant: a menu without a free player keeps the lock.
LibererListeSiChoix(m) ==
  /\ Au(m, "affiche")
  /\ \/ Aller(m, "adversaire") /\ SemPost("joueurs")
     \/ Aller(m, "choix") /\ UNCHANGED sem
  /\ UNCHANGED <<ecoute, jeux, observeurs, fils, tampons, programme, serveur, historique, compteurs>>

\* Somebody is free, or nobody.
LibererListe(m) ==
  /\ Au(m, "affiche")
  /\ SemPost("joueurs")
  /\ Aller(m, "adversaire") \/ Aller(m, "choix")
  /\ UNCHANGED <<ecoute, jeux, observeurs, fils, tampons, programme, serveur, historique, compteurs>>

\* Mutant: the menu does not wait for the answer.
DefierSansAttendre(m) ==
  /\ Au(m, "adversaire") /\ ~menus[m].annule
  /\ Aller(m, "choix")
  /\ \/ Episode /\ serveur' = [serveur EXCEPT !.defis = @ + 1]
     \/ UNCHANGED <<serveur, compteurs>>
  /\ UNCHANGED <<ecoute, jeux, observeurs, fils, sem, tampons, programme, historique>>

\* A challenge is sent, or the number is wrong.
Defier(m) ==
  /\ Au(m, "adversaire") /\ ~menus[m].annule
  /\ \/ /\ Episode
        /\ Aller(m, "defi")
        /\ serveur' = [serveur EXCEPT !.defis = @ + 1]
     \/ Aller(m, "choix") /\ UNCHANGED <<serveur, compteurs>>
  /\ UNCHANGED <<ecoute, jeux, observeurs, fils, sem, tampons, programme, historique>>

\* The answer wakes the menu, before or after it is cancelled.
ReprendreApresDefi(m) ==
  /\ Au(m, "defi")
  /\ SemWait("defi")
  /\ Aller(m, "choix")
  /\ UNCHANGED <<ecoute, jeux, observeurs, fils, tampons, programme, serveur, historique, compteurs>>

\* 3: the list of games.  In a game for the server, this client gets none.
DemanderParties(m) ==
  /\ Au(m, "choix") /\ ~menus[m].annule
  /\ Aller(m, "liste")
  /\ \E n \in {0, 1} :
       /\ n = 0 => \E j \in Jeux : serveur.jeux[j] \in {"joue", "attend", "fini"}
       /\ serveur' = [serveur EXCEPT !.listes = @ + n]
  /\ UNCHANGED <<ecoute, jeux, observeurs, fils, sem, tampons, programme, historique, compteurs>>

LireParties(m) ==
  /\ Au(m, "liste") /\ ~menus[m].annule
  /\ SemWait("liste")
  /\ Aller(m, "numero")
  /\ UNCHANGED <<ecoute, jeux, observeurs, fils, tampons, programme, serveur, historique, compteurs>>

\* One of the games listed, which the server may no longer find, or none.
ChoisirObservation(m) ==
  /\ Au(m, "numero") /\ ~menus[m].annule
  /\ \/ /\ Episode
        /\ Aller(m, "etat3")
        /\ \E trouvee \in BOOLEAN : serveur' = [serveur EXCEPT !.observe = @ \/ trouvee]
     \/ Aller(m, "choix") /\ UNCHANGED <<serveur, compteurs>>
  /\ UNCHANGED <<ecoute, jeux, observeurs, fils, sem, tampons, programme, historique>>

\* Mutant: sem_post without sem_wait.
PasserSansVerrou(m) ==
  /\ Au(m, "etat3") /\ ~menus[m].annule
  /\ SemPost("joueurs")
  /\ Aller(m, "observer")
  /\ UNCHANGED <<ecoute, jeux, observeurs, fils, tampons, programme, serveur, historique, compteurs>>

\* joueurs[0].etat = 3, under the lock.
PasserObservateur(m) ==
  /\ Au(m, "etat3") /\ ~menus[m].annule
  /\ sem["joueurs"] > 0
  /\ Aller(m, "observer")
  /\ UNCHANGED <<ecoute, jeux, observeurs, fils, sem, tampons, programme, serveur, historique,
                 compteurs>>

\* The observer is created and the last menu created is cancelled: this one,
\* unless another has come since.
CreerObserveur(m) ==
  /\ Au(m, "observer")
  /\ fils' = [fils EXCEPT !.observeur = @ + 1]
  /\ observeurs' = [observeurs EXCEPT ![fils.observeur + 1].pc = "debut"]
  /\ menus' = [menus EXCEPT ![m].pc = "choix", ![fils.menu].annule = TRUE]
  /\ UNCHANGED <<ecoute, jeux, sem, tampons, programme, serveur, historique, compteurs>>

\* The cancellation.  What the menu held, or was about to be given, stays.
Mourir(m) ==
  /\ EnVie
  /\ menus[m].annule
  /\ menus[m].pc \notin {"futur", "observer", "mort"}
  /\ Aller(m, "mort")
  /\ Noter(IF menus[m].pc = "affiche" THEN {"verrouPerdu"}
           ELSE IF menus[m].pc = "defi" THEN {"orphelin"} ELSE {})
  /\ UNCHANGED <<ecoute, jeux, observeurs, fils, sem, tampons, programme, serveur, compteurs>>

-----------------------------------------------------------------------------
(* The game. *)

\* The kinds of messages the user must answer.
Questions == {"demande_fin", "coups"}

\* One message is taken.  A question waits for the user; an end for the lock.
PrendreMessage(j) ==
  /\ EnVie
  /\ jeux[j].pc = "attend"
  /\ SemWait("game")
  /\ jeux' = [jeux EXCEPT ![j].pc = IF bufferJeu.genre \in Questions THEN "repond"
                                    ELSE IF bufferJeu.genre = "fin" THEN "joueurs" ELSE "rend",
                          ![j].end = bufferJeu.genre = "fin"]
  /\ historique' = [historique EXCEPT !.lus = bufferJeu.n]
  /\ UNCHANGED <<ecoute, menus, observeurs, fils, tampons, programme, serveur, compteurs>>

\* The answer goes to the mailbox of the last game that the server started.
Jouee(etat, fin) == IF etat # "attend" THEN etat ELSE IF fin THEN "fini" ELSE "joue"

\* "Non": the game goes on.  bufferJeu is written by this thread.
RepondreServeur(j) ==
  /\ EnVie
  /\ jeux[j].pc = "repond"
  /\ jeux' = [jeux EXCEPT ![j].pc = "rend"]
  /\ bufferJeu' = [bufferJeu EXCEPT !.genre = "reponse"]
  /\ serveur' = [serveur EXCEPT !.jeux[fils.jeu] = Jouee(@, FALSE)]
  /\ UNCHANGED <<ecoute, menus, observeurs, fils, sem, bufferObserveur, programme, historique,
                 compteurs>>

\* The user gives up: the lock, then the answer.  The opponent may have left
\* meanwhile, and the abandon that says so finds no game.
Abandonner(j) ==
  /\ EnVie
  /\ jeux[j].pc = "repond" /\ bufferJeu.genre = "demande_fin"
  /\ jeux' = [jeux EXCEPT ![j].pc = "joueurs", ![j].end = TRUE]
  /\ Noter(IF serveur.jeux[fils.jeu] = "attend" THEN {} ELSE {"abandonTardif"})
  /\ UNCHANGED <<ecoute, menus, observeurs, fils, sem, tampons, programme, serveur, compteurs>>

\* joueurs[0].etat = 0, under the lock.
RedevenirLibre(j) ==
  /\ EnVie
  /\ jeux[j].pc = "joueurs"
  /\ sem["joueurs"] > 0
  /\ jeux' = [jeux EXCEPT ![j].pc = "rend"]
  /\ IF bufferJeu.genre = "demande_fin"
     THEN /\ bufferJeu' = [bufferJeu EXCEPT !.genre = "reponse"]
          /\ serveur' = [serveur EXCEPT !.jeux[fils.jeu] = Jouee(@, TRUE)]
     ELSE UNCHANGED <<bufferJeu, serveur>>
  /\ UNCHANGED <<ecoute, menus, observeurs, fils, sem, bufferObserveur, programme, historique,
                 compteurs>>

\* Mutant: a game that ends does not give the buffer back.
RendrePlaceSaufFin(j) ==
  /\ EnVie
  /\ jeux[j].pc = "rend"
  /\ IF jeux[j].end THEN UNCHANGED sem ELSE SemPost("okGame")
  /\ jeux' = [jeux EXCEPT ![j].pc = IF jeux[j].end THEN "finit" ELSE "attend"]
  /\ UNCHANGED <<ecoute, menus, observeurs, fils, tampons, programme, serveur, historique, compteurs>>

RendrePlace(j) ==
  /\ EnVie
  /\ jeux[j].pc = "rend"
  /\ SemPost("okGame")
  /\ jeux' = [jeux EXCEPT ![j].pc = IF jeux[j].end THEN "finit" ELSE "attend"]
  /\ UNCHANGED <<ecoute, menus, observeurs, fils, tampons, programme, serveur, historique, compteurs>>

\* The loop is over: the menu comes back.
FinirJeu(j) ==
  /\ EnVie
  /\ jeux[j].pc = "finit"
  /\ jeux' = [jeux EXCEPT ![j].pc = "mort"]
  /\ CreerMenu
  /\ UNCHANGED <<ecoute, observeurs, sem, tampons, programme, serveur, historique, compteurs>>

-----------------------------------------------------------------------------
(* The observer. *)

\* pthread_join(*thread_menu): the last menu when the observer starts.
Rejoindre(o) ==
  /\ EnVie
  /\ \/ /\ observeurs[o].pc = "debut"
        /\ observeurs' = [observeurs EXCEPT ![o].pc = "join", ![o].cible = fils.menu]
     \/ /\ observeurs[o].pc = "join" /\ menus[observeurs[o].cible].pc = "mort"
        /\ observeurs' = [observeurs EXCEPT ![o].pc = "clavier"]
  /\ UNCHANGED <<ecoute, menus, jeux, fils, sem, tampons, programme, serveur, historique, compteurs>>

\* The keyboard: nothing, /quit, or another line, read into bufferObserveur.
LireClavier(o) ==
  /\ EnVie
  /\ observeurs[o].pc = "clavier"
  /\ \E ligne \in {"rien", "/quit", "autre"} :
       /\ observeurs' = [observeurs EXCEPT ![o].pc = IF ligne = "/quit" THEN "finit" ELSE "attend"]
       /\ bufferObserveur' = IF ligne = "rien" THEN bufferObserveur ELSE ligne
       /\ Noter(IF ligne # "rien" /\ sem["observeur"] > 0 THEN {"messageEcrase"} ELSE {})
  /\ UNCHANGED <<ecoute, menus, jeux, fils, sem, bufferJeu, programme, serveur, compteurs>>

\* Mutant: the end is not told from a turn.
SuivreSansFin(o) ==
  /\ EnVie
  /\ observeurs[o].pc = "attend"
  /\ SemWait("observeur")
  /\ observeurs' = [observeurs EXCEPT ![o].pc = "clavier"]
  /\ UNCHANGED <<ecoute, menus, jeux, fils, tampons, programme, serveur, historique, compteurs>>

SuivrePartie(o) ==
  /\ EnVie
  /\ observeurs[o].pc = "attend"
  /\ SemWait("observeur")
  /\ observeurs' = [observeurs EXCEPT ![o].pc = IF bufferObserveur = "terminer" THEN "finit" ELSE "clavier"]
  /\ UNCHANGED <<ecoute, menus, jeux, fils, tampons, programme, serveur, historique, compteurs>>

\* GET/remove_observer, then the menu again.
CesserObservation(o) ==
  /\ EnVie
  /\ observeurs[o].pc = "finit"
  /\ observeurs' = [observeurs EXCEPT ![o].pc = "mort"]
  /\ serveur' = [serveur EXCEPT !.observe = FALSE]
  /\ CreerMenu
  /\ UNCHANGED <<ecoute, jeux, sem, tampons, programme, historique, compteurs>>

-----------------------------------------------------------------------------

\* Steps that need neither the server nor the user.
Ecoute     == PrendrePlace \/ DeposerMessage \/ ArreterEcoute
Menu(m)    == \/ VerrouillerListe(m) \/ LibererListe(m) \/ ReprendreApresDefi(m) \/ LireParties(m)
              \/ PasserObservateur(m) \/ CreerObserveur(m) \/ Mourir(m)
Jeu(j)     == PrendreMessage(j) \/ RedevenirLibre(j) \/ RendrePlace(j) \/ FinirJeu(j)
Observe(o) == Rejoindre(o) \/ LireClavier(o) \/ SuivrePartie(o) \/ CesserObservation(o)

Utilisateur ==
  \/ AccepterDefi \/ RefuserDefi
  \/ \E m \in Menus : \/ Quitter(m) \/ ChoisirPartie(m) \/ Defier(m) \/ DemanderParties(m)
                      \/ ChoisirObservation(m)
  \/ \E j \in Jeux : RepondreServeur(j) \/ Abandonner(j)

Reseau ==
  \/ RecevoirJoueur \/ RecevoirDefi \/ RecevoirAccord \/ RecevoirRefus \/ RecevoirPartie
  \/ RecevoirObs("turn") \/ RecevoirObs("terminer") \/ RecevoirListe \/ ServeurDeconnecte

Next ==
  \/ Reseau \/ Utilisateur
  \/ Ecoute \/ ModifierListe \/ Terminer
  \/ \E m \in Menus : Menu(m)
  \/ \E j \in Jeux : Jeu(j)
  \/ \E o \in Observeurs : Observe(o)

\* A thread that can run does; nothing is asked of the user nor of the server,
\* and only what the properties need of the threads.  The lock of the list is
\* free whenever a menu waits for its user, so the thread that waits for it
\* gets it in the end (SF).
Fairness ==
  /\ WF_vars(Ecoute \/ Terminer)
  /\ SF_vars(ModifierListe)
  /\ WF_vars(\E m \in Menus : Mourir(m))
  /\ WF_vars(\E m \in Menus : LibererListe(m))
  /\ WF_vars(\E o \in Observeurs : Observe(o))

Spec == Init /\ [][Next]_vars /\ Fairness

-----------------------------------------------------------------------------
(* Properties. *)

Accident(a) == a \in historique.accidents

TypeInvariant ==
  /\ ecoute.pc \in {"select", "joueurs", "sollicite", "semOKGame", "copie", "mort"}
  /\ \A m \in Menus : menus[m].pc \in {"futur", "choix", "joueurs", "affiche", "adversaire", "defi",
                                       "liste", "numero", "etat3", "observer", "mort"}
  /\ \A j \in Jeux : jeux[j].pc \in {"futur", "attend", "repond", "joueurs", "rend", "finit", "mort"}
  /\ \A o \in Observeurs : observeurs[o].pc \in {"futur", "debut", "join", "clavier", "attend",
                                                 "finit", "mort"}
  /\ fils \in [menu : Menus, jeu : Jeux \cup {Aucun}, observeur : Observeurs \cup {Aucun}]
  /\ \A s \in Semaphores : sem[s] \in Nat
  /\ sem["joueurs"] \in 0..1
  /\ historique.accidents \subseteq Accidents

\* The game threads that work on a message.
Tient(j) == jeux[j].pc \in {"repond", "joueurs", "rend"}

\* The buffer of the game has one user at a time, whatever the number of games
\* that overlap: the listening thread between its two semaphores, or a game
\* between its own two, or nobody and one of the semaphores is up.
JetonPartie ==
  LET tenants == {j \in Jeux : Tient(j)} IN
  EnVie => sem["game"] + sem["okGame"] + Cardinality(tenants) + (IF ecoute.pc = "copie" THEN 1 ELSE 0) = 1

\* Every message of a game is handled, once and in order, by a game thread.
Canal == INSTANCE Canal WITH
  place  <- IF ~EnVie THEN "ferme"
            ELSE IF sem["game"] = 1 THEN "plein"
            ELSE IF \E j \in Jeux : Tient(j) THEN "lu" ELSE "vide",
  ecrits <- historique.ecrits,
  lus    <- historique.lus

CanalRespecte == Canal!Spec

\* Who talks to the user: a menu, the listening thread, a game, an observer.
Maitres ==
  {<<"menu", m>> : m \in {m \in Menus : menus[m].pc \notin {"futur", "mort"} /\ ~menus[m].annule}}
  \cup {<<"jeu", j>> : j \in {j \in Jeux : jeux[j].pc \notin {"futur", "mort"}}}
  \cup {<<"obs", o>> : o \in {o \in Observeurs : observeurs[o].pc \notin {"futur", "mort"}}}
  \cup {<<"ecoute", e>> : e \in {e \in {1} : ecoute.pc = "sollicite"}}

\* One thread at a time holds the dialogue with the user ("gerer le fil des
\* threads"), as long as no challenge or answer comes when there is no menu.
UnSeulMaitre == Accident("sansMenu") \/ Cardinality(Maitres) <= 1

\* A menu waits for each challenge that has no answer yet, and each answer
\* wakes one: one challenge at a time.  Not so once a challenge received, or
\* the cancellation that comes with an accept, stopped a menu that waited.
UnDefi ==
  \/ Accident("sansMenu") \/ Accident("orphelin") \/ ~EnVie
  \/ \E m \in Menus : menus[m].pc = "defi" /\ menus[m].annule
  \/ /\ serveur.defis + sem["defi"] = Cardinality({m \in Menus : menus[m].pc = "defi"})
     /\ serveur.defis <= 1

\* When the listening thread waits for the buffer of the game, a game has it or
\* is there to take it, so that the wait ends; unless the server says abandon
\* after the end of a game: then the program never reads again.
DepotAttendu ==
  EnVie /\ ecoute.pc = "semOKGame" /\ sem["okGame"] = 0 =>
    \/ \E j \in Jeux : Tient(j) \/ (jeux[j].pc = "attend" /\ sem["game"] > 0)
    \/ Accident("abandonTardif") \/ Accident("sansMenu")

\* The list of players is not locked for ever, unless the menu that was
\* printing it was cancelled: then the listening thread never moves again.
EcouteAvance == []<>(ecoute.pc # "joueurs" \/ Accident("verrouPerdu") \/ ~EnVie)

\* When a menu quits (it ends without being cancelled) the program ends,
\* whatever its listening thread does.
QuitterTermine == []<>(~EnVie \/ \A m \in Menus : menus[m].pc = "mort" => menus[m].annule)

\* An observer that is sent the end of its game stops, unless a line typed
\* meanwhile took the place of the message, or the user was challenged.
ObservationTermine ==
  []<>(\/ \A o \in Observeurs : observeurs[o].averti => observeurs[o].pc = "mort"
       \/ Accident("messageEcrase") \/ Accident("sansMenu") \/ ~EnVie)

=============================================================================
