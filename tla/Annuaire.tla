------------------------------ MODULE Annuaire ------------------------------
(***************************************************************************)
(* The list of players: the server keeps it in clients[], every client has *)
(* a copy in joueurs[], fed by the broadcasts new_joueur, delete_joueur    *)
(* and update_etat_joueur and, once, by the answer to GET/list_joueur.     *)
(* Connection is in the steps of both sides: accept, the blocking read of  *)
(* the profile, ACK, list.  Games are reduced to their beginning and to    *)
(* the broadcasts of end_game, and observers, whose state is announced     *)
(* like the others, are left out (module Serveur has both); the dialogues  *)
(* of the client are reduced to what blocks its listening thread.          *)
(*                                                                         *)
(* Grain: the main thread and the game threads each make at most one send  *)
(* per action, so what the others do may come between two sends of one     *)
(* broadcast, between a broadcast and the change that it announces, or     *)
(* between the removal from clients[] and that from clientsInGame[].  One  *)
(* memmove is one step.                                                    *)
(***************************************************************************)
EXTENDS Integers, SequencesExt

CONSTANTS
  NbProgrammes,  \* runs of the client program, one connection each
  Choix,         \* [Programmes -> sets of names]: what argv[2] may be
  NbThreads,     \* bound: games started in a behaviour
  Demandeurs,    \* bound: programs whose user challenges
  Partants,      \* bound: programs that may end
  MaxJoints,     \* bound: messages that one recv returns together
  MaxJonctions,  \* bound: recv calls that return several messages
  MaxDemandes,   \* bound: challenges sent in a behaviour
  MaxDeparts     \* bound: programs that end in a behaviour

ASSUME AnnuaireAssumption ==
  /\ DOMAIN Choix = 1..NbProgrammes
  /\ Demandeurs \subseteq 1..NbProgrammes /\ Partants \subseteq 1..NbProgrammes
  /\ MaxJoints \in Nat \ {0}
  /\ {NbProgrammes, NbThreads, MaxJonctions, MaxDemandes, MaxDeparts} \subseteq Nat

\* Numbered in the order in which they connect.
Programmes == 1..NbProgrammes

\* One place for each program: MAX_CLIENTS (100), which connect_client does not
\* check, is out of range.
MaxClients == NbProgrammes
Places  == 1..MaxClients
Threads == 1..NbThreads
Noms    == UNION {Choix[c] : c \in Programmes}

Aucun == 0

VARIABLES
  ecoute,      \* connections the kernel holds until accept
  clients,     \* [Places -> socket and state]; past nbClients memmove leaves
               \* what was there
  nbClients,
  clientsInGame, \* [Places -> the thread of the game, or Aucun]
  principal,   \* where app() of the server stands, and its broadcast
  thread,      \* [Threads -> where game() stands, and its broadcast]
  entree,      \* [Programmes -> messages to the server, not yet read]
  sortie,      \* [Programmes -> messages of the server, not yet received]
  programme,   \* [Programmes -> phase, pseudo, joueurs[], challenger]
  historique,  \* what went wrong so far, which the properties leave out
  compteurs    \* what was done so far of what the bounds limit

varsServeur == <<ecoute, clients, nbClients, clientsInGame, principal, thread>>
vars == <<varsServeur, entree, sortie, programme, historique, compteurs>>

Libre  == [sock |-> Aucun, etat |-> 0]
Rien   == [type |-> "rien"]

\* i is the place that the handler is about, c its socket, m the message being
\* sent to the places from k on; auteur and cible are those of a challenge.
Select == [pc |-> "select", c |-> Aucun, i |-> Aucun, t |-> Aucun, auteur |-> Aucun,
           cible |-> Aucun, etat |-> 0, k |-> 1, m |-> Rien]
Neuf   == [pc |-> "neuf", j1 |-> Aucun, j2 |-> Aucun, annule |-> FALSE, annulable |-> TRUE,
           i |-> 1, sujet |-> Aucun, k |-> 1, n |-> 0]

Init ==
  /\ ecoute = <<>>
  /\ clients = [i \in Places |-> Libre]
  /\ nbClients = 0
  /\ clientsInGame = [i \in Places |-> Aucun]
  /\ principal = Select
  /\ thread = [t \in Threads |-> Neuf]
  /\ entree = [c \in Programmes |-> <<>>]
  /\ sortie = [c \in Programmes |-> <<>>]
  /\ programme = [c \in Programmes |-> [phase |-> "hors", pseudo |-> Aucun, joueurs |-> <<>>, defieur |-> Aucun]]
  /\ historique = [troubles |-> {}, interroges |-> {}, ecrits |-> [c \in Programmes |-> {}], croises |-> {}]
  /\ compteurs = [demandes |-> 0, jonctions |-> 0, departs |-> 0]

Pseudo(c)  == programme[c].pseudo

Connectes == {clients[i].sock : i \in 1..nbClients}

\* equals_joueur compares the pseudos.
PlacesDe(pseudo) == {i \in 1..nbClients : Pseudo(clients[i].sock) = pseudo}

Phase(c)  == programme[c].phase
Vivant(c) == Phase(c) \notin {"hors", "fini"}
EnVie     == principal.pc # "plante"

Info(type, pseudo, etat) == [type |-> type, pseudo |-> pseudo, etat |-> etat]

\* send() to one client; a program that is gone receives nothing.
Poster(file, c, m) ==
  IF Vivant(c) THEN [file EXCEPT ![c] = Append(@, m)] ELSE file

-----------------------------------------------------------------------------
(* The main thread of the server. *)

Servir(i) ==
  /\ principal.pc = "select" /\ ecoute = <<>>
  /\ i \in 1..nbClients /\ entree[clients[i].sock] # <<>>
  /\ \A k \in 1 .. i - 1 : entree[clients[k].sock] = <<>>
  /\ entree' = [entree EXCEPT ![clients[i].sock] = Tail(@)]

Lu(i) == Head(entree[clients[i].sock])

\* select prefers the server socket; then connect_client blocks in recv.
Accepter ==
  /\ principal.pc = "select"
  /\ ecoute # <<>>
  /\ principal' = [Select EXCEPT !.pc = "profil", !.c = Head(ecoute)]
  /\ ecoute' = Tail(ecoute)
  /\ UNCHANGED <<clients, nbClients, clientsInGame, thread, entree, sortie, programme, historique,
                 compteurs>>

\* A program that ended before it sent its profile: recv returns 0, which is
\* not the -1 tested, and to_object_joueur("") reads a null pointer.
ProfilAbsent ==
  /\ principal.pc = "profil"
  /\ entree[principal.c] # <<>> /\ Head(entree[principal.c]).type = "eof"
  /\ principal' = [principal EXCEPT !.pc = "plante"]
  /\ UNCHANGED <<ecoute, clients, nbClients, clientsInGame, thread, entree, sortie, programme,
                 historique, compteurs>>

RecoitProfil(c) ==
  /\ principal.pc = "profil" /\ principal.c = c
  /\ entree[c] # <<>> /\ Head(entree[c]).type = "profil"
  /\ entree' = [entree EXCEPT ![c] = Tail(@)]

\* Mutant: the refused program is told nothing.
RefuserPseudoMuet(c) ==
  /\ RecoitProfil(c)
  /\ PlacesDe(Pseudo(c)) # {}
  /\ principal' = Select
  /\ UNCHANGED <<ecoute, clients, nbClients, clientsInGame, thread, sortie, programme, historique,
                 compteurs>>

\* The pseudo is taken.  The connection is neither registered nor closed.
RefuserPseudo(c) ==
  /\ RecoitProfil(c)
  /\ PlacesDe(Pseudo(c)) # {}
  /\ sortie' = Poster(sortie, c, [type |-> "not_connected"])
  /\ principal' = Select
  /\ UNCHANGED <<ecoute, clients, nbClients, clientsInGame, thread, programme, historique, compteurs>>

\* The new entry; the others are told next, then the new client.
Enregistrer(c) ==
  /\ RecoitProfil(c)
  /\ PlacesDe(Pseudo(c)) = {}
  /\ nbClients' = nbClients + 1
  /\ clients' = [clients EXCEPT ![nbClients'] = [Libre EXCEPT !.sock = c]]
  /\ principal' = [Select EXCEPT !.pc = "nouveau", !.c = c, !.i = nbClients',
                                 !.m = Info("new_joueur", Pseudo(c), 0)]
  /\ UNCHANGED <<ecoute, clientsInGame, thread, sortie, programme, historique, compteurs>>

\* The places still to be written to in the broadcast of the main thread:
\* everybody but the player that it is about.
ResteADire == {k \in principal.k .. nbClients : clients[k].sock # principal.c}

\* One send of send_message_to_all_clients.
Annoncer ==
  /\ principal.pc \in {"nouveau", "annonce", "depart"}
  /\ \E k \in ResteADire :
       /\ \A autre \in ResteADire : k <= autre
       /\ sortie' = Poster(sortie, clients[k].sock, principal.m)
       /\ principal' = [principal EXCEPT !.k = k + 1]
  /\ UNCHANGED <<ecoute, clients, nbClients, clientsInGame, thread, entree, programme, historique,
                 compteurs>>

Annonce(pc) == principal.pc = pc /\ ResteADire = {}

EnvoyerACK ==
  /\ Annonce("nouveau")
  /\ sortie' = Poster(sortie, principal.c, [type |-> "connect"])
  /\ principal' = Select
  /\ UNCHANGED <<ecoute, clients, nbClients, clientsInGame, thread, entree, programme, historique,
                 compteurs>>

\* Mutant: the client itself is in the list it is sent.
ListeAvecSoi(i) == [k \in 1..nbClients |->
                      [pseudo |-> Pseudo(clients[k].sock), etat |-> clients[k].etat]]

\* get_list_joueur: everybody else, in the order of the array.
Autres(i) ==
  [k \in 1 .. nbClients - 1 |->
     LET autre == clients[IF k < i THEN k ELSE k + 1]
     IN  [pseudo |-> Pseudo(autre.sock), etat |-> autre.etat]]

\* The list is written down, then sent.
PreparerListe(i) ==
  /\ Servir(i)
  /\ Lu(i).type = "list_joueur"
  /\ clientsInGame[i] = Aucun
  /\ principal' = [Select EXCEPT !.pc = "liste", !.c = clients[i].sock,
                                 !.m = [type |-> "liste", joueurs |-> Autres(i)]]
  /\ UNCHANGED <<ecoute, clients, nbClients, clientsInGame, thread, sortie, programme, historique,
                 compteurs>>

EnvoyerListe ==
  /\ principal.pc = "liste"
  /\ sortie' = Poster(sortie, principal.c, principal.m)
  /\ principal' = Select
  /\ UNCHANGED <<ecoute, clients, nbClients, clientsInGame, thread, entree, programme, historique,
                 compteurs>>

\* The players whose state a game thread has set and is announcing.
Annonces == {thread[t].sujet : t \in {t \in Threads : thread[t].pc = "diffuse"}}

\* A request about the player named in the message, which is passed on.  The
\* state of that player changes first, then the state of the sender; when the
\* player has left, only the latter.
RelayerDefi(i, type, etat) ==
  LET suite(j, auteur) == [Select EXCEPT !.pc = "change", !.i = j, !.c = clients[j].sock,
                             !.auteur = auteur, !.cible = Lu(i).cible, !.etat = etat]
  IN  /\ Servir(i)
      /\ Lu(i).type = type
      /\ clientsInGame[i] = Aucun
      /\ type = "DEFI/accept" => \E t \in Threads : thread[t].pc = "neuf"
      /\ \/ /\ PlacesDe(Lu(i).cible) = {}
            /\ principal' = suite(i, Aucun)
            /\ UNCHANGED sortie
         \/ \E j \in PlacesDe(Lu(i).cible) :
            /\ sortie' = Poster(sortie, clients[j].sock,
                 [type |-> type, pseudo |-> Lu(i).cible, etat |-> 1, par |-> Pseudo(clients[i].sock)])
            /\ principal' = suite(j, i)
      /\ UNCHANGED <<ecoute, clients, nbClients, clientsInGame, thread, programme, historique,
                     compteurs>>

Relayer(i) ==
  \/ RelayerDefi(i, "DEFI/new", 1)
  \/ RelayerDefi(i, "DEFI/accept", 2)
  \/ RelayerDefi(i, "DEFI/decline", 0)

\* Mutant: the state is set and nobody is told.
ChangerMuet ==
  /\ principal.pc = "change"
  /\ clients' = [clients EXCEPT ![principal.i].etat = principal.etat]
  /\ principal' = [principal EXCEPT !.pc = "annonce", !.k = nbClients + 1]
  /\ historique' = [historique EXCEPT !.croises = @ \cup (Annonces \cap {principal.c})]
  /\ UNCHANGED <<ecoute, nbClients, clientsInGame, thread, entree, sortie, programme, compteurs>>

\* The state of the player is set, maybe while a game thread announces another.
Changer ==
  /\ principal.pc = "change"
  /\ clients' = [clients EXCEPT ![principal.i].etat = principal.etat]
  /\ principal' = [principal EXCEPT !.pc = "compose"]
  /\ historique' = [historique EXCEPT !.croises = @ \cup (Annonces \cap {principal.c})]
  /\ UNCHANGED <<ecoute, nbClients, clientsInGame, thread, entree, sortie, programme, compteurs>>

\* update_etat_joueur writes down the state that the player has by then.
Composer ==
  /\ principal.pc = "compose"
  /\ principal' = [principal EXCEPT !.pc = "annonce",
       !.m = Info("update_etat_joueur", Pseudo(principal.c), clients[principal.i].etat)]
  /\ UNCHANGED <<ecoute, clients, nbClients, clientsInGame, thread, entree, sortie, programme,
                 historique, compteurs>>

\* After the player that was named, the sender.
PasserAuteur ==
  /\ Annonce("annonce") /\ principal.auteur # Aucun
  /\ principal' = [principal EXCEPT !.pc = "change", !.i = principal.auteur, !.auteur = Aucun,
                     !.c = clients[principal.auteur].sock, !.k = 1, !.m = Rien]
  /\ UNCHANGED <<ecoute, clients, nbClients, clientsInGame, thread, entree, sortie, programme,
                 historique, compteurs>>

FinDefi ==
  /\ Annonce("annonce") /\ principal.auteur = Aucun /\ principal.etat # 2
  /\ principal' = Select
  /\ UNCHANGED <<ecoute, clients, nbClients, clientsInGame, thread, entree, sortie, programme,
                 historique, compteurs>>

\* start_game, after the announcements of an accept.  It looks for the players
\* again; with a challenger that has left, the server crashes (see Serveur).
DemarrerPartie ==
  LET cibles == PlacesDe(principal.cible)
      t == CHOOSE t \in Threads : thread[t].pc = "neuf"
  IN  /\ Annonce("annonce") /\ principal.auteur = Aucun /\ principal.etat = 2
      /\ \/ /\ cibles = {}
            /\ principal' = [principal EXCEPT !.pc = "plante"]
            /\ UNCHANGED <<clientsInGame, thread>>
         \/ \E j \in cibles :
            /\ clientsInGame' = [clientsInGame EXCEPT ![principal.i] = t, ![j] = t]
            /\ thread' = [thread EXCEPT ![t] =
                 [Neuf EXCEPT !.pc = "jeu", !.j1 = clients[j].sock, !.j2 = principal.c]]
            /\ principal' = Select
      /\ UNCHANGED <<ecoute, clients, nbClients, entree, sortie, programme, historique, compteurs>>

\* What a client in a game sends goes to the mailbox of its game.
TransmettreAuJeu(i) ==
  /\ Servir(i)
  /\ Lu(i).type # "eof"
  /\ clientsInGame[i] # Aucun
  /\ UNCHANGED <<ecoute, clients, nbClients, clientsInGame, principal, thread, sortie, programme,
                 historique, compteurs>>

\* deconnect_client begins: the others will be told.
Depart(i) ==
  [Select EXCEPT !.pc = "depart", !.i = i, !.c = clients[i].sock,
                 !.m = Info("delete_joueur", Pseudo(clients[i].sock), clients[i].etat)]

Deconnecter(i) ==
  /\ Servir(i)
  /\ Lu(i).type = "eof"
  /\ clientsInGame[i] = Aucun
  /\ principal' = Depart(i)
  /\ UNCHANGED <<ecoute, clients, nbClients, clientsInGame, thread, sortie, programme, historique,
                 compteurs>>

\* The thread of the game is cancelled: in the game it goes to end_game, in
\* an end_game reached by the normal path it stops at its next send or usleep.
DeconnecterEnJeu(i) ==
  LET t == clientsInGame[i] IN
  /\ Servir(i)
  /\ Lu(i).type = "eof"
  /\ t # Aucun
  /\ principal' = [Select EXCEPT !.pc = "join", !.i = i, !.t = t]
  /\ thread' = [thread EXCEPT ![t].pc = IF @ = "jeu" THEN "fin" ELSE @,
                              ![t].annule = thread[t].pc # "jeu" /\ thread[t].annulable,
                              ![t].annulable = FALSE]
  /\ UNCHANGED <<ecoute, clients, nbClients, clientsInGame, sortie, programme, historique, compteurs>>

Joindre ==
  /\ principal.pc = "join"
  /\ thread[principal.t].pc = "mort"
  /\ principal' = Depart(principal.i)
  /\ UNCHANGED <<ecoute, clients, nbClients, clientsInGame, thread, entree, sortie, programme,
                 historique, compteurs>>

Fermer ==
  /\ Annonce("depart")
  /\ principal' = [principal EXCEPT !.pc = "ferme"]
  /\ UNCHANGED <<ecoute, clients, nbClients, clientsInGame, thread, entree, sortie, programme,
                 historique, compteurs>>

\* remove_client: the last place keeps a copy.  The broadcasts of game threads
\* that are under way go on over the shifted array.
Retirer ==
  /\ principal.pc = "ferme"
  /\ clients' = [k \in Places |-> IF k < principal.i \/ k >= nbClients THEN clients[k]
                                  ELSE clients[k + 1]]
  /\ nbClients' = nbClients - 1
  /\ principal' = [Select EXCEPT !.pc = "jeux", !.i = principal.i]
  /\ historique' = [historique EXCEPT !.croises = @ \cup Annonces]
  /\ UNCHANGED <<ecoute, clientsInGame, thread, entree, sortie, programme, compteurs>>

DecalerJeux ==
  /\ principal.pc = "jeux"
  /\ clientsInGame' = [k \in Places |-> IF k < principal.i THEN clientsInGame[k]
                                        ELSE IF k = MaxClients THEN Aucun ELSE clientsInGame[k + 1]]
  /\ principal' = Select
  /\ UNCHANGED <<ecoute, clients, nbClients, thread, entree, sortie, programme, historique, compteurs>>

\* The handler that is under way.
Poursuivre ==
  \/ Annoncer \/ EnvoyerACK \/ EnvoyerListe
  \/ Changer \/ Composer \/ PasserAuteur \/ FinDefi \/ DemarrerPartie
  \/ Joindre \/ Fermer \/ Retirer \/ DecalerJeux

Principal ==
  \/ Accepter
  \/ ProfilAbsent
  \/ \E c \in Programmes : RefuserPseudo(c) \/ Enregistrer(c)
  \/ \E i \in Places : \/ PreparerListe(i)
                       \/ Relayer(i)
                       \/ TransmettreAuJeu(i)
                       \/ Deconnecter(i)
                       \/ DeconnecterEnJeu(i)
  \/ Poursuivre

-----------------------------------------------------------------------------
(* Game threads. *)

\* The game is over: the thread enters end_game.
FinirPartie(t) ==
  /\ EnVie
  /\ thread[t].pc = "jeu"
  /\ thread' = [thread EXCEPT ![t].pc = "fin"]
  /\ UNCHANGED <<ecoute, clients, nbClients, clientsInGame, principal, entree, sortie, programme,
                 historique, compteurs>>

\* The place where the loop of end_game stands holds a player of the game.
Place(t) == clients[thread[t].i].sock
EstJoueur(t) == thread[t].i <= nbClients /\ Place(t) \in {thread[t].j1, thread[t].j2}

Parcourir(t) ==
  /\ EnVie
  /\ thread[t].pc = "fin" /\ thread[t].i <= nbClients /\ ~EstJoueur(t)
  /\ thread' = [thread EXCEPT ![t].i = @ + 1]
  /\ UNCHANGED <<ecoute, clients, nbClients, clientsInGame, principal, entree, sortie, programme,
                 historique, compteurs>>

\* The player whose state the main thread has set and is announcing.
Change == IF principal.pc \in {"compose", "annonce"} THEN {principal.c} ELSE {}

\* The player is free again; update_etat_joueur gets its copy of nbClients.
LibererJoueur(t) ==
  /\ EnVie
  /\ thread[t].pc = "fin" /\ EstJoueur(t)
  /\ clients' = [clients EXCEPT ![thread[t].i].etat = 0]
  /\ clientsInGame' = [clientsInGame EXCEPT ![thread[t].i] = Aucun]
  /\ thread' = [thread EXCEPT ![t].pc = "diffuse", ![t].i = @ + 1, ![t].k = 1,
                              ![t].n = nbClients, ![t].sujet = Place(t)]
  /\ historique' = [historique EXCEPT !.croises = @ \cup (Change \cap {Place(t)})]
  /\ UNCHANGED <<ecoute, nbClients, principal, entree, sortie, programme, compteurs>>

\* Mutant: the loop goes one place too far.
DestinatairesUnDeTrop(t) ==
  {k \in Places : thread[t].k <= k /\ k <= thread[t].n + 1 /\ clients[k].sock # thread[t].sujet}

\* The places still to be written to in the broadcast of a thread.
Destinataires(t) == {k \in thread[t].k .. thread[t].n : clients[k].sock # thread[t].sujet}

\* The sockets that the server has not closed.
Ouvertes == Connectes \ (IF principal.pc = "ferme" THEN {principal.c} ELSE {})

\* One send of the broadcast.  The place may hold another client than when the
\* loop began, a second copy of one, or a socket that was closed: then send
\* fails and the server exits.
EnvoyerMaj(t) ==
  /\ EnVie
  /\ thread[t].pc = "diffuse" /\ ~thread[t].annule
  /\ \E k \in Destinataires(t) :
       LET c == clients[k].sock IN
       /\ \A autre \in Destinataires(t) : k <= autre
       /\ IF c \in Ouvertes
          THEN /\ sortie' = Poster(sortie, c, Info("update_etat_joueur", Pseudo(thread[t].sujet), 0))
               /\ UNCHANGED principal
          ELSE /\ principal' = [principal EXCEPT !.pc = "plante"]
               /\ UNCHANGED sortie
       /\ thread' = [thread EXCEPT ![t].k = k + 1]
  /\ UNCHANGED <<ecoute, clients, nbClients, clientsInGame, entree, programme, historique, compteurs>>

\* The end of the broadcast and of the pause after it.
FinDiffusion(t) ==
  /\ EnVie
  /\ thread[t].pc = "diffuse" /\ ~thread[t].annule /\ Destinataires(t) = {}
  /\ thread' = [thread EXCEPT ![t].pc = "fin", ![t].sujet = Aucun, ![t].k = 1, ![t].n = 0]
  /\ UNCHANGED <<ecoute, clients, nbClients, clientsInGame, principal, entree, sortie, programme,
                 historique, compteurs>>

\* A cancelled thread stops at a send or in the pause: the others are not told.
Mourir(t) ==
  /\ EnVie
  /\ thread[t].pc = "diffuse" /\ thread[t].annule
  /\ thread' = [thread EXCEPT ![t] = [Neuf EXCEPT !.pc = "mort"]]
  /\ historique' = [historique EXCEPT !.croises = @ \cup {thread[t].sujet}]
  /\ UNCHANGED <<ecoute, clients, nbClients, clientsInGame, principal, entree, sortie, programme,
                 compteurs>>

FinThread(t) ==
  /\ EnVie
  /\ thread[t].pc = "fin" /\ thread[t].i > nbClients
  /\ thread' = [thread EXCEPT ![t] = [Neuf EXCEPT !.pc = "mort"]]
  /\ UNCHANGED <<ecoute, clients, nbClients, clientsInGame, principal, entree, sortie, programme,
                 historique, compteurs>>

AvancerThread(t) ==
  \/ Parcourir(t) \/ LibererJoueur(t) \/ EnvoyerMaj(t) \/ FinDiffusion(t) \/ Mourir(t) \/ FinThread(t)

-----------------------------------------------------------------------------
(* The client programs. *)

Ecrire(c, m) == entree' = [entree EXCEPT ![c] = Append(@, m)]

Passer(c, phase) == programme' = [programme EXCEPT ![c].phase = phase]

\* The phase, and joueurs[0].etat: entry 0 is the program itself.
Devenir(c, phase, etat) ==
  programme' = [programme EXCEPT ![c].phase = phase, ![c].defieur = Aucun, ![c].joueurs[1].etat = etat]

\* exit, abort or kill: the kernel closes the connection.
Finir(c) ==
  /\ Ecrire(c, [type |-> "eof"])
  /\ programme' = [programme EXCEPT ![c].phase = "fini", ![c].joueurs = <<>>, ![c].defieur = Aucun]

\* recv: what has arrived so far, up to MaxJoints messages; the others wait.
Lots(c) ==
  {SubSeq(sortie[c], 1, k) : k \in {k \in 1..MaxJoints : k <= Len(sortie[c])}}

Recoit(c, lot) ==
  /\ EnVie
  /\ lot \in Lots(c)
  /\ sortie' = [sortie EXCEPT ![c] = SubSeq(@, Len(lot) + 1, Len(@))]
  /\ \/ Len(lot) = 1 /\ UNCHANGED compteurs
     \/ /\ Len(lot) > 1 /\ compteurs.jonctions < MaxJonctions
        /\ compteurs' = [compteurs EXCEPT !.jonctions = @ + 1]

\* History: this client lost what came after the first message or keyword.
NoterJoints(c, lot) ==
  IF Len(lot) = 1 THEN historique ELSE [historique EXCEPT !.troubles = @ \cup {c}]

\* init_connection: connect succeeds as soon as the kernel queues it.
Lancer(c) ==
  /\ EnVie
  /\ Phase(c) = "hors" /\ \A d \in 1 .. c - 1 : Phase(d) # "hors"
  /\ ecoute' = Append(ecoute, c)
  /\ \E p \in Choix[c] :
       programme' = [programme EXCEPT ![c].phase = "connecte", ![c].pseudo = p]
  /\ UNCHANGED <<clients, nbClients, clientsInGame, principal, thread, entree, sortie, historique,
                 compteurs>>

EnvoyerProfil(c) ==
  /\ EnVie
  /\ Phase(c) = "connecte"
  /\ Ecrire(c, [type |-> "profil"])
  /\ programme' = [programme EXCEPT ![c].phase = "attenteACK",
                      ![c].joueurs = <<[pseudo |-> Pseudo(c), etat |-> 0]>>]
  /\ UNCHANGED <<varsServeur, sortie, historique, compteurs>>

\* "ACK/connect" and nothing else, or the program exits, also when the state of
\* a player reaches it before its ACK or joined to it.
LireACK(c) ==
  /\ Phase(c) = "attenteACK"
  /\ \E lot \in Lots(c) :
       /\ Recoit(c, lot)
       /\ IF lot = <<[type |-> "connect"]>>
          THEN Ecrire(c, [type |-> "list_joueur"]) /\ Passer(c, "attenteListe")
          ELSE Finir(c)
       /\ historique' = IF lot \in {<<[type |-> "connect"]>>, <<[type |-> "not_connected"]>>}
                        THEN historique ELSE [historique EXCEPT !.troubles = @ \cup {c}]
  /\ UNCHANGED varsServeur

\* Mutant: only the pseudo of an entry is read.
EntreesSansEtat(m) ==
  IF m.type = "liste" THEN m.joueurs ELSE <<[pseudo |-> Aucun, etat |-> -1]>>

\* What a message becomes when it is cut at "|" and each piece at ";": the
\* pseudo of one that is no list keeps the keyword and is nobody's.
Entrees(m) ==
  CASE m.type = "liste"    -> m.joueurs
    [] m.type = "DEFI/new" -> <<[pseudo |-> Aucun, etat |-> m.etat], [pseudo |-> m.par, etat |-> m.etat]>>
    [] OTHER               -> <<[pseudo |-> Aucun, etat |-> m.etat]>>

\* init_list_joueur: whatever comes first is read as the list.
LireListe(c) ==
  /\ Phase(c) = "attenteListe"
  /\ \E lot \in Lots(c) :
       /\ Recoit(c, lot)
       /\ programme' = [programme EXCEPT ![c].phase = "menu",
             ![c].joueurs = @ \o FlattenSeq([k \in DOMAIN lot |-> Entrees(lot[k])])]
       /\ historique' = IF Len(lot) = 1 /\ lot[1].type = "liste" THEN historique
                        ELSE [historique EXCEPT !.troubles = @ \cup {c}]
  /\ UNCHANGED <<varsServeur, entree>>

\* The listening thread looks for the keywords in this order in all it read;
\* the player is the one after the first ":" of it.
MotsCles == <<"new_joueur", "delete_joueur", "DEFI/new", "DEFI/accept", "DEFI/decline", "update_etat_joueur">>

Reconnait(lot, mot) ==
  /\ \E k \in DOMAIN lot : lot[k].type = mot
  /\ \A r \in DOMAIN MotsCles, s \in DOMAIN MotsCles :
       MotsCles[s] = mot /\ r < s => \A k \in DOMAIN lot : lot[k].type # MotsCles[r]

PremierJoueur(lot) ==
  LET nommes == {k \in DOMAIN lot : lot[k].type \notin {"liste", "connect"}}
      m == lot[CHOOSE k \in nommes : \A n \in nommes : k <= n]
  IN  [pseudo |-> m.pseudo, etat |-> m.etat]

\* The place of a player in the list of c, 0 when it is not there.
Rang(c, pseudo) ==
  LET rangs == {k \in DOMAIN programme[c].joueurs : programme[c].joueurs[k].pseudo = pseudo}
  IN  IF rangs = {} THEN 0 ELSE CHOOSE k \in rangs : \A r \in rangs : k <= r

\* The thread is at select: not while it asks its user about a challenge.
Entend(c, lot, mot) ==
  /\ Phase(c) \in {"menu", "attend", "jeu"}
  /\ Recoit(c, lot)
  /\ Reconnait(lot, mot)

AjouterJoueur(c, lot) ==
  /\ Entend(c, lot, "new_joueur")
  /\ programme' = [programme EXCEPT ![c].joueurs = Append(@, PremierJoueur(lot))]
  /\ historique' = NoterJoints(c, lot)
  /\ UNCHANGED <<varsServeur, entree>>

\* swap_joueur with the last entry, which is dropped.
Oter(liste, k) == SubSeq([liste EXCEPT ![k] = liste[Len(liste)]], 1, Len(liste) - 1)

\* delete_joueur; a player that is not in the list stops the program (assert).
SupprimerJoueur(c, lot) ==
  LET k == Rang(c, PremierJoueur(lot).pseudo) IN
  /\ Entend(c, lot, "delete_joueur")
  /\ IF k = 0 THEN Finir(c)
     ELSE /\ programme' = [programme EXCEPT ![c].joueurs = Oter(@, k)]
          /\ UNCHANGED entree
  /\ historique' = NoterJoints(c, lot)
  /\ UNCHANGED <<varsServeur>>

MettreAJour(c, lot) ==
  LET j == PremierJoueur(lot)
      k == Rang(c, j.pseudo)
  IN  /\ Entend(c, lot, "update_etat_joueur")
      /\ programme' = IF k = 0 THEN programme
                      ELSE [programme EXCEPT ![c].joueurs[k].etat = j.etat]
      /\ historique' = [NoterJoints(c, lot) EXCEPT !.ecrits[c] = @ \ {j.pseudo}]
      /\ UNCHANGED <<varsServeur, entree>>

\* The listening thread asks its user, and reads nothing meanwhile.
RecevoirDefi(c, lot) ==
  /\ Entend(c, lot, "DEFI/new")
  /\ programme' = [programme EXCEPT ![c].phase = "sollicite",
        ![c].defieur = lot[CHOOSE k \in DOMAIN lot : lot[k].type = "DEFI/new"].par]
  /\ historique' = NoterJoints(c, lot)
  /\ UNCHANGED <<varsServeur, entree>>

RecevoirReponse(c, lot) ==
  /\ \/ Entend(c, lot, "DEFI/accept") /\ Devenir(c, "jeu", 2)
     \/ /\ Entend(c, lot, "DEFI/decline")
        /\ Devenir(c, IF Phase(c) = "attend" THEN "menu" ELSE Phase(c), 0)
  /\ historique' = NoterJoints(c, lot)
  /\ UNCHANGED <<varsServeur, entree>>

\* No keyword: a list that was not read in time.
IgnorerListe(c, lot) ==
  /\ Phase(c) \in {"menu", "attend", "jeu"}
  /\ Recoit(c, lot)
  /\ \A k \in DOMAIN lot : lot[k].type = "liste"
  /\ UNCHANGED <<varsServeur, entree, programme, historique>>

Ecouter(c) ==
  \E lot \in Lots(c) :
    \/ AjouterJoueur(c, lot)
    \/ SupprimerJoueur(c, lot)
    \/ MettreAJour(c, lot)
    \/ RecevoirDefi(c, lot)
    \/ RecevoirReponse(c, lot)
    \/ IgnorerListe(c, lot)

\* Menu, choice 1: a player shown as free; its state is written at once.
Defier(c) ==
  /\ EnVie
  /\ c \in Demandeurs
  /\ Phase(c) = "menu"
  /\ compteurs.demandes < MaxDemandes
  /\ \E k \in 2 .. Len(programme[c].joueurs) :
       LET cible == programme[c].joueurs[k].pseudo IN
       /\ programme[c].joueurs[k].etat = 0
       /\ Ecrire(c, [type |-> "DEFI/new", cible |-> cible])
       /\ programme' = [programme EXCEPT ![c].phase = "attend", ![c].joueurs[k].etat = 1,
                           ![c].joueurs[1].etat = 1]
       /\ historique' = [historique EXCEPT !.ecrits[c] = @ \cup {cible}]
  /\ compteurs' = [compteurs EXCEPT !.demandes = @ + 1]
  /\ UNCHANGED <<varsServeur, sortie>>

Repondre(c) ==
  /\ EnVie
  /\ Phase(c) = "sollicite"
  /\ \/ /\ Ecrire(c, [type |-> "DEFI/accept", cible |-> programme[c].defieur])
        /\ Devenir(c, "jeu", 2)
     \/ /\ Ecrire(c, [type |-> "DEFI/decline", cible |-> programme[c].defieur])
        /\ Devenir(c, "menu", 0)
  /\ historique' = [historique EXCEPT !.interroges = @ \cup ({c} \ historique.troubles)]
  /\ UNCHANGED <<varsServeur, sortie, compteurs>>

\* The game this program plays is over, for the server and then for it.
QuitterJeu(c) ==
  /\ EnVie
  /\ Phase(c) = "jeu"
  /\ entree[c] = <<>>
  /\ \A t \in Threads : thread[t].pc = "jeu" => c \notin {thread[t].j1, thread[t].j2}
  /\ Devenir(c, "menu", 0)
  /\ UNCHANGED <<varsServeur, entree, sortie, historique, compteurs>>

\* The user leaves, or the program is killed, at any time.
Partir(c) ==
  /\ EnVie
  /\ Vivant(c) /\ c \in Partants
  /\ compteurs.departs < MaxDeparts
  /\ Finir(c)
  /\ sortie' = [sortie EXCEPT ![c] = <<>>]
  /\ compteurs' = [compteurs EXCEPT !.departs = @ + 1]
  /\ UNCHANGED <<varsServeur, historique>>

\* The steps of app() of the client before its menu: no user is involved.
SeConnecter(c) == EnvoyerProfil(c) \/ LireACK(c) \/ LireListe(c)

Next ==
  \/ EnVie /\ Principal
  \/ \E t \in Threads : FinirPartie(t) \/ AvancerThread(t)
  \/ \E c \in Programmes :
       \/ Lancer(c)
       \/ SeConnecter(c)
       \/ Ecouter(c)
       \/ Defier(c)
       \/ Repondre(c)
       \/ QuitterJeu(c)
       \/ Partir(c)

\* What runs without a user: the loop of the server, the threads in end_game,
\* the programs that are connecting.  Some of it goes on as long as any can;
\* each has a bounded number of steps to make for one connection, so it is
\* enough to be fair to the whole.
Systeme ==
  \/ EnVie /\ Principal
  \/ \E t \in Threads : AvancerThread(t)
  \/ \E c \in Programmes : SeConnecter(c)

Fairness == WF_vars(Systeme)

Spec == Init /\ [][Next]_vars /\ Fairness

-----------------------------------------------------------------------------
(* Properties. *)

TypeInvariant ==
  /\ nbClients \in 0..MaxClients
  /\ \A i \in Places : clients[i].sock \in Programmes \cup {Aucun} /\ clients[i].etat \in 0..3
                       /\ clientsInGame[i] \in Threads \cup {Aucun}
  /\ principal.pc \in {"select", "profil", "nouveau", "liste", "change", "compose", "annonce",
                       "join", "depart", "ferme", "jeux", "plante"}
  /\ \A t \in Threads : thread[t].pc \in {"neuf", "jeu", "fin", "diffuse", "mort"}
  /\ \A c \in Programmes :
       /\ Phase(c) \in {"hors", "connecte", "attenteACK", "attenteListe", "menu", "attend",
                        "sollicite", "jeu", "fini"}
       /\ \A k \in DOMAIN programme[c].joueurs :
            programme[c].joueurs[k] \in [pseudo : Noms \cup {Aucun}, etat : 0..3]
  /\ compteurs \in [demandes : 0..MaxDemandes, jonctions : 0..MaxJonctions,
                   departs : 0..MaxDeparts]

\* The programs that have their list, and read one message at a time so far.
Suit(c) == /\ EnVie
           /\ Phase(c) \in {"menu", "attend", "sollicite", "jeu"}
           /\ c \notin historique.troubles

\* The last message on its way to c that names the player, among some types.
DerniersMots(c, pseudo, types) ==
  {k \in DOMAIN sortie[c] : sortie[c][k].type \in types /\ sortie[c][k].pseudo = pseudo}

Dernier(c, S) == sortie[c][CHOOSE k \in S : \A s \in S : s <= k]

\* The broadcast of the main thread has reached c.
Dit(c) == \E k \in 1..nbClients : k < principal.k /\ clients[k].sock = c

\* The name is in the server's list as far as c has been told: an arrival or a
\* departure counts from the send to c on.
Annoncee(c, pseudo) ==
  IF principal.pc \in {"nouveau", "depart", "ferme"} /\ Pseudo(principal.c) = pseudo
  THEN principal.pc = "nouveau" <=> Dit(c)
  ELSE PlacesDe(pseudo) # {}

\* The list of a client is the server's, seen late: once the messages on their
\* way are handled it holds the players that are connected, each once, itself
\* first ("Liste des joueurs en lignes", "0 = moi").
VueMembres ==
  \A c \in Programmes : Suit(c) =>
    /\ programme[c].joueurs[1].pseudo = Pseudo(c)
    /\ \A k, r \in DOMAIN programme[c].joueurs :
         programme[c].joueurs[k].pseudo = programme[c].joueurs[r].pseudo => k = r
    /\ \A p \in Noms :
         LET mots == DerniersMots(c, p, {"new_joueur", "delete_joueur"}) IN
         Annoncee(c, p) <=> IF mots = {} THEN Rang(c, p) # 0
                            ELSE Dernier(c, mots).type = "new_joueur"

\* The player that the main thread is announcing, or changing.
Chantier ==
  IF principal.pc \in {"nouveau", "change", "compose", "annonce", "depart", "ferme"}
  THEN {principal.c} ELSE {}

\* The names whose state is being announced, or was announced by one thread
\* while another changed it, or while somebody was removed.  Broadcasts go by
\* name: one may come after its player has left and another program has taken
\* the name.
NomsCroises == {Pseudo(d) : d \in Annonces \cup Chantier \cup historique.croises}

\* So are the states of the others, except that of these names, and one that
\* the client wrote itself when it sent a challenge.
VueEtats ==
  \A c \in Programmes : Suit(c) =>
    \A i \in 1..nbClients :
      LET d == clients[i].sock
          mots == DerniersMots(c, Pseudo(d), {"new_joueur", "update_etat_joueur"})
      IN  d # c /\ Pseudo(d) \notin NomsCroises =>
            IF mots # {} THEN Dernier(c, mots).etat = clients[i].etat
            ELSE Pseudo(d) \in historique.ecrits[c]
                 \/ programme[c].joueurs[Rang(c, Pseudo(d))].etat = clients[i].etat

\* A program that connects gets its list, or is refused, whatever the programs
\* that connect, play and leave at the same time, as long as the server lives:
\* again and again nobody is waiting (a program connects once, so none waits
\* for ever).
ConnexionAboutit ==
  []<>(~EnVie \/ \A c \in Programmes : Phase(c) \notin {"connecte", "attenteACK", "attenteListe"})

\* Nobody has left, and no registered program has stopped because the state of
\* a player came before its ACK or joined to it.
PersonneParti ==
  compteurs.departs = 0 /\ \A c \in historique.troubles : Phase(c) # "fini"

\* The server dies only when a program has left or has stopped so: refusals,
\* challenges and games that overlap do not stop it, "En cas de deconnection
\* brutale" may.  A connection that overlaps the end of a game may too, through
\* the program that it stops.
MortApresDepart == PersonneParti => EnVie

\* "une fois repondu plusieurs actions se produisent a la suite. Cela ne gene
\* en rien le bon fonctionnement de l'application": a program that followed the
\* others until its user answered has the right list again once it has handled
\* what was sent meanwhile and nothing is being announced.
RattrapeSonRetard ==
  \A c \in historique.interroges :
    Phase(c) \in {"menu", "attend", "jeu"} /\ sortie[c] = <<>> /\ principal.pc = "select" =>
      {programme[c].joueurs[k].pseudo : k \in DOMAIN programme[c].joueurs}
        = {Pseudo(d) : d \in Connectes}

=============================================================================
