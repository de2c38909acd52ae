------------------------------ MODULE Serveur ------------------------------
(***************************************************************************)
(* The server: the select loop of app() and the game threads it creates,   *)
(* with the arrays they share without a lock.  A client is known by its    *)
(* place in clients[]; clientsInGame[] and observateurs[][] are indexed by *)
(* that place.  A game thread is an instance of its own: a slot of         *)
(* parties[] may be given to a new thread while the old one still runs     *)
(* end_game.                                                               *)
(*                                                                         *)
(* Grain: the threads switch where they block or call send, usleep,        *)
(* sem_wait, pthread_cancel or pthread_join, and, around the three arrays, *)
(* between two updates too: an iteration of the loop of end_game is up to  *)
(* four steps (send, clear of the observer, clear of the player, pause),   *)
(* a departure three (clients[], clientsInGame, observateurs).  One        *)
(* memmove is one step.  The broadcasts of names and states, which this    *)
(* module leaves out, are in Annuaire.  The board is abstracted: a move    *)
(* ends the game or not (see AwalePartie).                                 *)
(***************************************************************************)
EXTENDS Integers, Sequences, FiniteSets

CONSTANTS
  Clients,       \* the programs that may connect, one pseudo each
  NbParties,     \* NB_PARTIES, 10 in the code
  NbThreads,     \* bound: game threads created in a behaviour
  MaxCoups,      \* bound: moves of a game
  MaxDefis,      \* bound: challenges sent in a behaviour
  MaxListes,     \* bound: requests of the list of games in a behaviour
  MaxDeparts     \* bound: programs that end in a behaviour

ASSUME ServeurAssumption ==
  /\ IsFiniteSet(Clients)
  /\ NbParties \in Nat \ {0}
  /\ NbThreads \in Nat
  /\ MaxCoups \in Nat
  /\ {MaxDefis, MaxListes, MaxDeparts} \subseteq Nat

\* One place for each program: MAX_CLIENTS, which connect_client does not check,
\* is out of range.
MaxClients == Cardinality(Clients)
Places  == 1..MaxClients
Slots   == 1..NbParties
Threads == 1..NbThreads

Aucun == 0     \* clientsInGame[i] = -1; a slot that never had a thread

IterMax == 3   \* game() tells turns 1 and 2 from the later ones

VARIABLES
  clients,          \* clients[0..nbClients-1]: socket and state of the player
  clientsInGame,    \* [Places -> slot or Aucun]
  observateurs,     \* [Slots -> set of the places marked true]
  threadsLibres,    \* the set of slots marked true
  threads_partie,   \* [Slots -> the last thread created in the slot]
  parties,          \* [Slots -> the players and the number of moves]
  messagesParties,  \* [Slots -> the one message of the mailbox]
  semParties,       \* [Slots -> Nat]
  thread,           \* [Threads -> locals of game() and where it stands]
  principal,        \* where app() stands
  entree,           \* [Clients -> bytes sent to the server, not yet read]
  sortie,           \* [Clients -> messages of the server not yet handled]
  programme,        \* [Clients -> what the client program is doing]
  compteurs         \* what was done so far of what the bounds limit

varsTables   == <<clients, clientsInGame, observateurs>>
varsParties  == <<threadsLibres, threads_partie, parties>>
varsMessages == <<messagesParties, semParties>>
varsClients  == <<entree, sortie, programme, compteurs>>
varsServeur  == <<varsTables, varsParties, varsMessages, thread, principal>>
vars == <<varsServeur, varsClients>>

\* A slot that never had a game: the pseudos are null pointers.
PartieVide == [j1 |-> Aucun, j2 |-> Aucun, nbCoups |-> 0]

\* A thread that does not run, and a client program with no dialogue open.
Repos(pc) == [pc |-> pc, slot |-> Aucun, j1 |-> Aucun, j2 |-> Aucun, joueur |-> 1,
              iter |-> 1, i |-> 1, annule |-> FALSE, annulable |-> TRUE]

Programme(mode) == [mode |-> mode, defieur |-> Aucun, retour |-> "menu", partie |-> PartieVide]

\* In the middle of a handler: the place of the client it serves, the thread to
\* join, and, in buffer, the challenger named by an accept.
Select == [pc |-> "select", i |-> Aucun, t |-> Aucun, defieur |-> Aucun]

\* After a crash or an exit of the server nothing moves any more.
EnVie == principal.pc # "plante"

nbClients == Len(clients)

Connectes == {clients[i].sock : i \in 1..nbClients}

\* The place of a connected client.
Place(c) == CHOOSE i \in 1..nbClients : clients[i].sock = c

Message(type) == [type |-> type]

\* send() to a client; a program that is gone receives nothing.
Poster(file, c, m) ==
  IF programme[c].mode = "hors" THEN file
  ELSE [file EXCEPT ![c] = Append(@, m)]

FixerEtat(i, etat) == [clients EXCEPT ![i].etat = etat]

(***************************************************************************)
(* Game threads.                                                           *)
(***************************************************************************)
Actif(t)     == thread[t].pc \in {"tour", "attenteFin", "attenteCoup", "resultat",
                                  "terminer", "finir"}
EnNettoyage(t) == thread[t].pc \in {"nettoyage", "effacer", "detacher", "pause"}
Joueurs(t)   == {thread[t].j1, thread[t].j2}

Mover(t)  == IF thread[t].joueur = 1 THEN thread[t].j1 ELSE thread[t].j2
Oppose(t) == IF thread[t].joueur = 1 THEN thread[t].j2 ELSE thread[t].j1

\* Deferred cancellation: a step that starts at a cancellation point (send,
\* usleep, sem_wait) is not taken by a thread that was cancelled.
PeutAvancer(t) == EnVie /\ ~thread[t].annule

\* Mutant: the semaphore is decremented without waiting for a token.
JetonSansAttente(t) == semParties[thread[t].slot] >= 0

\* read_game: one semaphore token, and the message is taken only when it is
\* in the mailbox with the socket of the mover.
Jeton(t)   == semParties[thread[t].slot] > 0
PourMoi(t) == messagesParties[thread[t].slot].sock = Mover(t)
LuPar(t)   == messagesParties[thread[t].slot].message

Init ==
  /\ clients = <<>>
  /\ clientsInGame = [i \in Places |-> Aucun]
  /\ observateurs = [s \in Slots |-> {}]
  /\ threadsLibres = Slots
  /\ threads_partie = [s \in Slots |-> Aucun]
  /\ parties = [s \in Slots |-> PartieVide]
  /\ messagesParties = [s \in Slots |-> [sock |-> Aucun, message |-> Message("vide")]]
  /\ semParties = [s \in Slots |-> 0]
  /\ thread = [t \in Threads |-> Repos("neuf")]
  /\ principal = Select
  /\ entree = [c \in Clients |-> <<>>]
  /\ sortie = [c \in Clients |-> <<>>]
  /\ programme = [c \in Clients |-> Programme("hors")]
  /\ compteurs = [defis |-> 0, listes |-> 0, departs |-> 0]

\* Top of the loop of game(): the player to move is asked whether it goes on,
\* from the third turn, or for its move at once.
Tour(t) ==
  LET court == thread[t].iter < IterMax IN
  /\ thread[t].pc = "tour"
  /\ PeutAvancer(t)
  /\ sortie' = Poster(sortie, Mover(t), Message(IF court THEN "demande_coup" ELSE "demande_fin"))
  /\ thread' = [thread EXCEPT ![t].pc = IF court THEN "attenteCoup" ELSE "attenteFin"]
  /\ UNCHANGED <<varsTables, varsParties, varsMessages, principal, entree, programme, compteurs>>

\* A token without the mover's message: wait again.
MessageIgnore(t) ==
  /\ thread[t].pc \in {"attenteFin", "attenteCoup"}
  /\ PeutAvancer(t)
  /\ Jeton(t)
  /\ ~PourMoi(t)
  /\ semParties' = [semParties EXCEPT ![thread[t].slot] = @ - 1]
  /\ UNCHANGED <<varsTables, varsParties, messagesParties, thread, principal, varsClients>>

\* Mutant: the answer is read and its token stays.
LireFinSansJeton(t) ==
  LET abandon == LuPar(t) = Message("fin1") IN
  /\ thread[t].pc = "attenteFin"
  /\ PeutAvancer(t)
  /\ Jeton(t)
  /\ PourMoi(t)
  /\ sortie' = IF abandon THEN Poster(sortie, Oppose(t), Message("abandon"))
               ELSE Poster(sortie, Mover(t), Message("demande_coup"))
  /\ thread' = [thread EXCEPT ![t].pc = IF abandon THEN "finir" ELSE "attenteCoup"]
  /\ UNCHANGED <<varsTables, varsParties, varsMessages, principal, entree, programme, compteurs>>

\* "PARTIE/fin:1" gives up; anything else, a stray message included, goes on
\* to the request of a move.
LireFin(t) ==
  LET abandon == LuPar(t) = Message("fin1") IN
  /\ thread[t].pc = "attenteFin"
  /\ PeutAvancer(t)
  /\ Jeton(t)
  /\ PourMoi(t)
  /\ semParties' = [semParties EXCEPT ![thread[t].slot] = @ - 1]
  /\ sortie' = IF abandon THEN Poster(sortie, Oppose(t), Message("abandon"))
               ELSE Poster(sortie, Mover(t), Message("demande_coup"))
  /\ thread' = [thread EXCEPT ![t].pc = IF abandon THEN "finir" ELSE "attenteCoup"]
  /\ UNCHANGED <<varsTables, varsParties, messagesParties, principal, entree, programme, compteurs>>

\* The message is taken for a move, whatever it is ("pas de coup recu" is
\* only printed); the move is recorded and sent to the observers.
LireCoup(t) ==
  /\ thread[t].pc = "attenteCoup"
  /\ PeutAvancer(t)
  /\ Jeton(t)
  /\ PourMoi(t)
  /\ semParties' = [semParties EXCEPT ![thread[t].slot] = @ - 1]
  /\ parties' = [parties EXCEPT ![thread[t].slot].nbCoups = @ + 1]
  /\ thread' = [thread EXCEPT ![t].pc = "resultat"]
  /\ UNCHANGED <<varsTables, threadsLibres, threads_partie, messagesParties, principal, varsClients>>

\* testFinPartie says 0: the other player.
ContinuerPartie(t) ==
  /\ thread[t].pc = "resultat"
  /\ PeutAvancer(t)
  /\ parties[thread[t].slot].nbCoups < MaxCoups
  /\ thread' = [thread EXCEPT ![t].pc = "tour", ![t].joueur = 3 - @,
                              ![t].iter = IF @ < IterMax THEN @ + 1 ELSE @]
  /\ UNCHANGED <<varsTables, varsParties, varsMessages, principal, varsClients>>

\* Mutant: end_game keeps the slot.
DebutNettoyageSansLiberer(t, annulable) ==
  /\ threadsLibres' = threadsLibres
  /\ thread' = [thread EXCEPT ![t].pc = "nettoyage", ![t].i = 1,
                              ![t].annule = FALSE, ![t].annulable = annulable]

\* Start of end_game: the slot is marked free before anything else is done.
\* Run as the cleanup handler of a cancelled thread it is not cancelled again;
\* after pthread_cleanup_pop it may be, as no handler is left.
DebutNettoyage(t, annulable) ==
  /\ threadsLibres' = threadsLibres \cup {thread[t].slot}
  /\ thread' = [thread EXCEPT ![t].pc = "nettoyage", ![t].i = 1,
                              ![t].annule = FALSE, ![t].annulable = annulable]

\* testFinPartie names a winner: the mover is told first.
TerminerPartie(t) ==
  /\ thread[t].pc = "resultat"
  /\ PeutAvancer(t)
  /\ sortie' = Poster(sortie, Mover(t), Message("terminer"))
  /\ thread' = [thread EXCEPT ![t].pc = "terminer"]
  /\ UNCHANGED <<varsTables, varsParties, varsMessages, principal, entree, programme, compteurs>>

\* The other player is told; then, with no cancellation point in between, the
\* cleanup handler is popped and run: a cancellation that comes after this
\* send is found at the first cancellation point of end_game.
AnnoncerVainqueur(t) ==
  /\ thread[t].pc = "terminer"
  /\ PeutAvancer(t)
  /\ sortie' = Poster(sortie, Oppose(t), Message("terminer"))
  /\ DebutNettoyage(t, TRUE)
  /\ UNCHANGED <<varsTables, threads_partie, parties, varsMessages, principal,
                 entree, programme, compteurs>>

\* After the usleep that follows "PARTIE/abandon".
FinirAbandon(t) ==
  /\ thread[t].pc = "finir"
  /\ PeutAvancer(t)
  /\ DebutNettoyage(t, TRUE)
  /\ UNCHANGED <<varsTables, threads_partie, parties, varsMessages, principal, varsClients>>

\* The loop of end_game is at a place of clients[], and what is tested there.
AuTour(t)    == EnVie /\ thread[t].pc = "nettoyage" /\ thread[t].i <= nbClients
Observe(t)   == thread[t].i \in observateurs[thread[t].slot]
EstJoueur(t) == clients[thread[t].i].sock \in Joueurs(t)

\* The send to an observer is a cancellation point, and the sends and the
\* usleep that follow the change of a player; nothing else in end_game is.
PointAnnulation(t) == thread[t].pc = "pause" \/ (AuTour(t) /\ Observe(t))

\* A cancelled thread runs end_game as its cleanup handler; when it was
\* already in end_game the handler had been popped, and end_game stops there.
Annulation(t) ==
  /\ EnVie
  /\ thread[t].annule
  /\ \/ Actif(t) /\ DebutNettoyage(t, FALSE)
     \/ /\ PointAnnulation(t)
        /\ thread' = [thread EXCEPT ![t] = Repos("mort")]
        /\ UNCHANGED threadsLibres
  /\ UNCHANGED <<varsTables, threads_partie, parties, varsMessages, principal, varsClients>>

Etape(t, pc, i) == thread' = [thread EXCEPT ![t].pc = pc, ![t].i = i]

\* The client at the place is neither an observer nor a player.
Parcourir(t) ==
  /\ AuTour(t)
  /\ ~Observe(t) /\ ~EstJoueur(t)
  /\ Etape(t, "nettoyage", thread[t].i + 1)
  /\ UNCHANGED <<varsTables, varsParties, varsMessages, principal, varsClients>>

AnnoncerFin(t) ==
  /\ AuTour(t)
  /\ PeutAvancer(t)
  /\ Observe(t)
  /\ sortie' = Poster(sortie, clients[thread[t].i].sock, Message("obs_terminer"))
  /\ Etape(t, "effacer", thread[t].i)
  /\ UNCHANGED <<varsTables, varsParties, varsMessages, principal, entree, programme, compteurs>>

\* Back from the send: the place is cleared whoever is there by now, then its
\* socket is tested.  Removals during the send may have left the place past the
\* last client; what stays there is the entry of a player, or not.
Effacer(t) ==
  /\ EnVie
  /\ thread[t].pc = "effacer"
  /\ observateurs' = [observateurs EXCEPT ![thread[t].slot] = @ \ {thread[t].i}]
  /\ \/ /\ thread[t].i <= nbClients => EstJoueur(t)
        /\ Etape(t, "detacher", thread[t].i)
     \/ /\ thread[t].i <= nbClients => ~EstJoueur(t)
        /\ Etape(t, "nettoyage", thread[t].i + 1)
  /\ UNCHANGED <<clients, clientsInGame, varsParties, varsMessages, principal, varsClients>>

\* A player that does not watch its own game.
Reconnaitre(t) ==
  /\ AuTour(t)
  /\ ~Observe(t) /\ EstJoueur(t)
  /\ Etape(t, "detacher", thread[t].i)
  /\ UNCHANGED <<varsTables, varsParties, varsMessages, principal, varsClients>>

\* The state and the slot of the client at the place, whoever is there by now.
Detacher(t) ==
  /\ EnVie
  /\ thread[t].pc = "detacher"
  /\ clients' = IF thread[t].i <= nbClients THEN FixerEtat(thread[t].i, 0) ELSE clients
  /\ clientsInGame' = [clientsInGame EXCEPT ![thread[t].i] = Aucun]
  /\ Etape(t, "pause", thread[t].i)
  /\ UNCHANGED <<observateurs, varsParties, varsMessages, principal, varsClients>>

\* After the broadcast of the state and the usleep.
Reprendre(t) ==
  /\ thread[t].pc = "pause"
  /\ PeutAvancer(t)
  /\ Etape(t, "nettoyage", thread[t].i + 1)
  /\ UNCHANGED <<varsTables, varsParties, varsMessages, principal, varsClients>>

FinThread(t) ==
  /\ EnVie
  /\ thread[t].pc = "nettoyage" /\ thread[t].i > nbClients
  /\ thread' = [thread EXCEPT ![t] = Repos("mort")]
  /\ UNCHANGED <<varsTables, varsParties, varsMessages, principal, varsClients>>

AvancerThread(t) ==
  \/ Tour(t)
  \/ MessageIgnore(t)
  \/ LireFin(t)
  \/ LireCoup(t)
  \/ ContinuerPartie(t)
  \/ TerminerPartie(t)
  \/ AnnoncerVainqueur(t)
  \/ FinirAbandon(t)
  \/ Annulation(t)
  \/ Parcourir(t)
  \/ AnnoncerFin(t)
  \/ Effacer(t)
  \/ Reconnaitre(t)
  \/ Detacher(t)
  \/ Reprendre(t)
  \/ FinThread(t)

(***************************************************************************)
(* The main thread: one message of one ready client per turn of the loop.  *)
(* app() serves the lowest place that is ready; which clients are ready    *)
(* when select returns depends on the network, so any of them may be.      *)
(***************************************************************************)
Pret(i) == principal.pc = "select" /\ i \in 1..nbClients /\ entree[clients[i].sock] # <<>>

Lu(i) == Head(entree[clients[i].sock])

Lire(i) == entree' = [entree EXCEPT ![clients[i].sock] = Tail(@)]

\* The message of a client that is not in a game goes to its handler.
Recu(i, type) == Pret(i) /\ clientsInGame[i] = Aucun /\ Lu(i).type = type

\* accept, profile, then the new entry at the end of the array.
Connecter(c) ==
  /\ principal.pc = "select"
  /\ programme[c].mode = "hors"
  /\ c \notin Connectes
  /\ clients' = Append(clients, [sock |-> c, etat |-> 0])
  /\ programme' = [programme EXCEPT ![c] = Programme("menu")]
  /\ UNCHANGED <<clientsInGame, observateurs, varsParties, varsMessages, thread, principal,
                 entree, sortie, compteurs>>

\* remove_client; the two other arrays are shifted afterwards.
Retirer(i) ==
  /\ clients' = SubSeq(clients, 1, i - 1) \o SubSeq(clients, i + 1, nbClients)
  /\ principal' = [Select EXCEPT !.pc = "jeux", !.i = i]

\* Mutant: the entry is cleared and the next ones stay where they are.
DecalerJeuxSans(i) == [clientsInGame EXCEPT ![i] = Aucun]

JeuxDecales(i) ==
  [k \in Places |-> IF k < i THEN clientsInGame[k]
                    ELSE IF k < MaxClients THEN clientsInGame[k + 1]
                    ELSE Aucun]

\* The memmove of clientsInGame, by the place that clients[] has lost already.
DecalerJeux ==
  /\ principal.pc = "jeux"
  /\ clientsInGame' = JeuxDecales(principal.i)
  /\ principal' = [principal EXCEPT !.pc = "vues"]
  /\ UNCHANGED <<clients, observateurs, varsParties, varsMessages, thread, varsClients>>

\* Mutant: the entry is cleared and the next ones stay where they are.
DecalerSans(S, i) == S \ {i}

Decaler(S, i) == {k \in S : k < i} \cup {k - 1 : k \in {k \in S : k > i}}

\* The rows of observateurs, then back to select.
DecalerVues ==
  /\ principal.pc = "vues"
  /\ observateurs' = [s \in Slots |-> Decaler(observateurs[s], principal.i)]
  /\ principal' = Select
  /\ UNCHANGED <<clients, clientsInGame, varsParties, varsMessages, thread, varsClients>>

\* recv returns 0 for a client that is not in a game.
QuitterHorsJeu(i) ==
  /\ Recu(i, "eof")
  /\ Lire(i)
  /\ Retirer(i)
  /\ UNCHANGED <<clientsInGame, observateurs, varsParties, varsMessages, thread, sortie,
                 programme, compteurs>>

\* recv returns 0 for a client in a game: its adversary, the first other
\* client with the same slot, is told.
QuitterEnJeu(i) ==
  LET s == clientsInGame[i]
      autres == {j \in Places \ {i} : clientsInGame[j] = s}
  IN  /\ Pret(i)
      /\ Lu(i).type = "eof"
      /\ s # Aucun
      /\ Lire(i)
      /\ \/ autres = {} /\ UNCHANGED sortie
         \/ \E j \in autres : /\ \A k \in autres : j <= k
                              /\ sortie' = Poster(sortie, clients[j].sock, Message("abandon"))
      /\ principal' = [Select EXCEPT !.pc = "annuler", !.i = i, !.t = threads_partie[s]]
      /\ UNCHANGED <<varsTables, varsParties, varsMessages, thread, programme, compteurs>>

\* Mutant: the thread is joined and nobody cancels it.
AnnulerSans ==
  /\ principal.pc = "annuler"
  /\ principal' = [principal EXCEPT !.pc = "join"]
  /\ UNCHANGED <<varsTables, varsParties, varsMessages, thread, varsClients>>

\* The thread of the slot is cancelled, the game going on or not.  Cancelling
\* and joining a thread that is over does nothing (glibc: ESRCH).
Annuler ==
  LET t == principal.t IN
  /\ principal.pc = "annuler"
  /\ thread' = [thread EXCEPT ![t].annule = thread[t].annulable /\ thread[t].pc # "mort"]
  /\ principal' = [principal EXCEPT !.pc = "join"]
  /\ UNCHANGED <<varsTables, varsParties, varsMessages, varsClients>>

\* pthread_join returns once the thread is over; then the client is removed.
Joindre ==
  /\ principal.pc = "join"
  /\ thread[principal.t].pc = "mort"
  /\ Retirer(principal.i)
  /\ UNCHANGED <<clientsInGame, observateurs, varsParties, varsMessages, thread, varsClients>>

\* Whatever a client in a game sends overwrites the mailbox of its slot.
TransmettreAuJeu(i) ==
  LET s == clientsInGame[i] IN
  /\ Pret(i)
  /\ Lu(i).type # "eof"
  /\ s # Aucun
  /\ Lire(i)
  /\ messagesParties' = [messagesParties EXCEPT ![s] =
                           [sock |-> clients[i].sock, message |-> Lu(i)]]
  /\ semParties' = [semParties EXCEPT ![s] = @ + 1]
  /\ UNCHANGED <<varsTables, varsParties, thread, principal, sortie, programme, compteurs>>

\* What transmettre_defi, accept_defi and decline_defi share: the message
\* goes to the client named first, when it is connected, and its state is
\* set; the sender's state is set in any case.  No decision of this module
\* but what a user is shown depends on the states; Annuaire has them step by
\* step.
Transmettre(i, type, etat) ==
  LET c == clients[i].sock
      cible == Lu(i).cible
      m == [type |-> type, cible |-> c]
  IN  /\ Recu(i, type)
      /\ Lire(i)
      /\ IF cible \in Connectes
         THEN /\ sortie' = Poster(sortie, cible, m)
              /\ clients' = [FixerEtat(i, etat) EXCEPT ![Place(cible)].etat = etat]
         ELSE /\ clients' = FixerEtat(i, etat)
              /\ UNCHANGED sortie

TransmettreDefi(i) ==
  /\ Transmettre(i, "defi", 1)
  /\ UNCHANGED <<clientsInGame, observateurs, varsParties, varsMessages, thread, principal,
                 programme, compteurs>>

RefuserDefi(i) ==
  /\ Transmettre(i, "refus", 0)
  /\ UNCHANGED <<clientsInGame, observateurs, varsParties, varsMessages, thread, principal,
                 programme, compteurs>>

\* accept_defi, and the pauses of its caller.
AccepterDefi(i) ==
  /\ Transmettre(i, "accord", 2)
  /\ principal' = [Select EXCEPT !.pc = "demarrer", !.i = i, !.defieur = Lu(i).cible]
  /\ UNCHANGED <<clientsInGame, observateurs, varsParties, varsMessages, thread, programme, compteurs>>

(***************************************************************************)
(* start_game: the challenger plays first, in the first free slot.  With   *)
(* no free slot nothing happens.  A challenger that has left is not found: *)
(* its place is an uninitialised local and its socket an uninitialised     *)
(* word of malloc.  That word is zero, a list link or text, never the      *)
(* descriptor of a client, and the first message of the new thread goes to *)
(* it: write_client fails and exits.  Whatever the place was, the server   *)
(* is gone.                                                                *)
(***************************************************************************)
DemarrerPartie ==
  LET i  == principal.i
      j1 == principal.defieur
      j2 == clients[i].sock
  IN  /\ principal.pc = "demarrer"
      /\ IF threadsLibres # {} /\ j1 \notin Connectes
         THEN /\ principal' = [principal EXCEPT !.pc = "plante"]
              /\ UNCHANGED <<clientsInGame, varsParties, thread>>
         ELSE /\ principal' = Select
              /\ \/ threadsLibres = {} /\ UNCHANGED <<clientsInGame, varsParties, thread>>
                 \/ \E s \in threadsLibres, t \in Threads :
                      /\ \A libre \in threadsLibres : s <= libre
                      /\ thread[t].pc = "neuf" /\ \A u \in 1 .. t - 1 : thread[u].pc # "neuf"
                      /\ clientsInGame' = [clientsInGame EXCEPT ![Place(j1)] = s, ![i] = s]
                      /\ parties' = [parties EXCEPT ![s] = [j1 |-> j1, j2 |-> j2, nbCoups |-> 0]]
                      /\ thread' = [thread EXCEPT ![t] =
                                      [Repos("tour") EXCEPT !.slot = s, !.j1 = j1, !.j2 = j2]]
                      /\ threads_partie' = [threads_partie EXCEPT ![s] = t]
                      /\ threadsLibres' = threadsLibres \ {s}
      /\ UNCHANGED <<clients, observateurs, varsMessages, varsClients>>

\* get_list_parties: the games of the slots that are not free.
EnvoyerListe(i) ==
  /\ Recu(i, "get_parties")
  /\ Lire(i)
  /\ sortie' = Poster(sortie, clients[i].sock,
                      [type |-> "liste", parties |-> {parties[s] : s \in Slots \ threadsLibres}])
  /\ UNCHANGED <<varsTables, varsParties, varsMessages, thread, principal, programme, compteurs>>

(***************************************************************************)
(* add_observer: the text of the listing, moves included, is compared with *)
(* that of every slot, free ones too, up to the first that is equal.  A    *)
(* slot that never had a game has no pseudo: printing it reads a null      *)
(* pointer.                                                                *)
(***************************************************************************)
AjouterObservateur(i) ==
  LET p == Lu(i).partie
      egales == {s \in Slots : parties[s] = p}
      lues   == {s \in Slots : \A e \in egales : s <= e}
  IN  /\ Recu(i, "add_observer")
      /\ Lire(i)
      /\ clients' = FixerEtat(i, 3)
      /\ IF \E s \in lues : parties[s] = PartieVide
         THEN /\ principal' = [principal EXCEPT !.pc = "plante"]
              /\ UNCHANGED observateurs
         ELSE /\ observateurs' = [s \in Slots |->
                   IF s \in lues \cap egales THEN observateurs[s] \cup {i} ELSE observateurs[s]]
              /\ UNCHANGED principal
      /\ UNCHANGED <<clientsInGame, varsParties, varsMessages, thread, sortie, programme, compteurs>>

\* remove_observer: the first slot that is not free with the same players.
RetirerObservateur(i) ==
  LET p == Lu(i).partie
      memes == {s \in Slots \ threadsLibres : parties[s].j1 = p.j1 /\ parties[s].j2 = p.j2}
      premier == {s \in memes : \A m \in memes : s <= m}
  IN  /\ Recu(i, "remove_observer")
      /\ Lire(i)
      /\ clients' = FixerEtat(i, 0)
      /\ observateurs' = [s \in Slots |->
            IF s \in premier THEN observateurs[s] \ {i} ELSE observateurs[s]]
      /\ UNCHANGED <<clientsInGame, varsParties, varsMessages, thread, principal, sortie,
                     programme, compteurs>>

\* An answer to a game that is over matches no keyword: it is read and dropped.
IgnorerReponse(i) ==
  /\ \E type \in {"fin0", "fin1", "coup"} : Recu(i, type)
  /\ Lire(i)
  /\ UNCHANGED <<varsTables, varsParties, varsMessages, thread, principal, sortie,
                 programme, compteurs>>

Servir(i) ==
  \/ IgnorerReponse(i)
  \/ QuitterHorsJeu(i)
  \/ QuitterEnJeu(i)
  \/ TransmettreAuJeu(i)
  \/ TransmettreDefi(i)
  \/ AccepterDefi(i)
  \/ RefuserDefi(i)
  \/ EnvoyerListe(i)
  \/ AjouterObservateur(i)
  \/ RetirerObservateur(i)

\* The main thread in the middle of a handler.
Poursuivre ==
  \/ DecalerJeux
  \/ DecalerVues
  \/ Annuler
  \/ Joindre
  \/ DemarrerPartie

(***************************************************************************)
(* The client programs, as the server sees them: what each may send given  *)
(* what it has received.  A program that asks its user handles no message  *)
(* until the answer.  A challenge may go to a player shown as free; the    *)
(* list it shows is as old as the last message it received, which the      *)
(* delay of entree accounts for.                                           *)
(***************************************************************************)
Mode(c) == programme[c].mode

Est(c, mode) == EnVie /\ Mode(c) = mode

Passer(c, mode) == programme' = [programme EXCEPT ![c].mode = mode]

Envoyer(c, m) == entree' = [entree EXCEPT ![c] = Append(@, m)]

EtatDe(c) == clients[Place(c)].etat

\* menu, choice 1: the program waits for the answer to its challenge.
Defier(c, d) ==
  /\ Est(c, "menu")
  /\ compteurs.defis < MaxDefis
  /\ d \in Connectes \ {c}
  /\ EtatDe(d) = 0
  /\ Envoyer(c, [type |-> "defi", cible |-> d])
  /\ Passer(c, "attend")
  /\ compteurs' = [compteurs EXCEPT !.defis = @ + 1]
  /\ UNCHANGED <<varsServeur, sortie>>

\* menu, choice 3.
DemanderParties(c) ==
  /\ Est(c, "menu")
  /\ compteurs.listes < MaxListes
  /\ Envoyer(c, Message("get_parties"))
  /\ Passer(c, "liste")
  /\ compteurs' = [compteurs EXCEPT !.listes = @ + 1]
  /\ UNCHANGED <<varsServeur, sortie>>

\* The next message of the server, unless the user is being asked something.
Recoit(c, type) ==
  /\ EnVie
  /\ Mode(c) \notin {"hors", "sollicite", "q_fin", "q_coup"}
  /\ sortie[c] # <<>> /\ Head(sortie[c]).type = type
  /\ sortie' = [sortie EXCEPT ![c] = Tail(@)]

\* The user is asked whether to accept, whatever the program was doing.
RecoitDefi(c) ==
  /\ Recoit(c, "defi")
  /\ programme' = [programme EXCEPT
        ![c].mode = "sollicite", ![c].defieur = Head(sortie[c]).cible,
        ![c].retour = IF Mode(c) = "jeu" THEN "jeu" ELSE "menu"]
  /\ UNCHANGED <<varsServeur, entree, compteurs>>

\* The end of the dialogue; a program that watches a game goes on watching.
Repondre(c, mode) ==
  programme' = [programme EXCEPT ![c] = [Programme(mode) EXCEPT !.partie = programme[c].partie]]

Accepter(c) ==
  /\ Est(c, "sollicite")
  /\ Envoyer(c, [type |-> "accord", cible |-> programme[c].defieur])
  /\ Repondre(c, "jeu")
  /\ UNCHANGED <<varsServeur, sortie, compteurs>>

Refuser(c) ==
  /\ Est(c, "sollicite")
  /\ Envoyer(c, [type |-> "refus", cible |-> programme[c].defieur])
  /\ Repondre(c, programme[c].retour)
  /\ UNCHANGED <<varsServeur, sortie, compteurs>>

RecoitAccord(c) ==
  /\ Recoit(c, "accord")
  /\ Passer(c, "jeu")
  /\ UNCHANGED <<varsServeur, entree, compteurs>>

RecoitRefus(c) ==
  /\ Recoit(c, "refus")
  /\ Passer(c, IF Mode(c) = "attend" THEN "menu" ELSE Mode(c))
  /\ UNCHANGED <<varsServeur, entree, compteurs>>

\* The requests of the game thread, answered by the jeu thread of the client.
RecoitQuestion(c) ==
  /\ \/ Recoit(c, "demande_fin") /\ Passer(c, IF Mode(c) = "jeu" THEN "q_fin" ELSE Mode(c))
     \/ Recoit(c, "demande_coup") /\ Passer(c, IF Mode(c) = "jeu" THEN "q_coup" ELSE Mode(c))
  /\ UNCHANGED <<varsServeur, entree, compteurs>>

RepondreFin(c) ==
  /\ Est(c, "q_fin")
  /\ \/ Envoyer(c, Message("fin0")) /\ Passer(c, "jeu")
     \/ Envoyer(c, Message("fin1")) /\ Passer(c, "menu")
  /\ UNCHANGED <<varsServeur, sortie, compteurs>>

RepondreCoup(c) ==
  /\ Est(c, "q_coup")
  /\ Envoyer(c, Message("coup"))
  /\ Passer(c, "jeu")
  /\ UNCHANGED <<varsServeur, sortie, compteurs>>

RecoitFinDePartie(c) ==
  /\ Recoit(c, "abandon") \/ Recoit(c, "terminer")
  /\ Passer(c, IF Mode(c) = "jeu" THEN "menu" ELSE Mode(c))
  /\ UNCHANGED <<varsServeur, entree, compteurs>>

\* The user picks a game to watch, or goes back to the menu.
RecoitListe(c) ==
  /\ Recoit(c, "liste")
  /\ \/ /\ Mode(c) = "liste"
        /\ \E p \in Head(sortie[c]).parties :
             /\ Envoyer(c, [type |-> "add_observer", partie |-> p])
             /\ programme' = [programme EXCEPT ![c].mode = "observe", ![c].partie = p]
     \/ /\ Passer(c, IF Mode(c) = "liste" THEN "menu" ELSE Mode(c))
        /\ UNCHANGED entree
  /\ UNCHANGED <<varsServeur, compteurs>>

\* End of the thread observeur, which a challenge accepted does not stop.
FinObservation(c) ==
  /\ Envoyer(c, [type |-> "remove_observer", partie |-> programme[c].partie])
  /\ programme' = [programme EXCEPT
        ![c].mode = IF @ = "observe" THEN "menu" ELSE @, ![c].partie = PartieVide]

RecoitFinObservation(c) ==
  /\ Recoit(c, "obs_terminer")
  /\ IF programme[c].partie # PartieVide THEN FinObservation(c)
     ELSE UNCHANGED <<entree, programme>>
  /\ UNCHANGED <<varsServeur, compteurs>>

\* "/quit", noticed at the next "OBS/turn", which is not modelled.
QuitterObservation(c) ==
  /\ Est(c, "observe")
  /\ FinObservation(c)
  /\ UNCHANGED <<varsServeur, sortie, compteurs>>

\* The program ends or is killed, at any time.
Fermer(c) ==
  /\ EnVie /\ Mode(c) # "hors"
  /\ compteurs.departs < MaxDeparts
  /\ compteurs' = [compteurs EXCEPT !.departs = @ + 1]
  /\ Envoyer(c, Message("eof"))
  /\ programme' = [programme EXCEPT ![c] = Programme("hors")]
  /\ sortie' = [sortie EXCEPT ![c] = <<>>]
  /\ UNCHANGED varsServeur

AvancerClient(c) ==
  \/ \E d \in Clients : Defier(c, d)
  \/ DemanderParties(c)
  \/ RecoitDefi(c)
  \/ Accepter(c)
  \/ Refuser(c)
  \/ RecoitAccord(c)
  \/ RecoitRefus(c)
  \/ RecoitQuestion(c)
  \/ RepondreFin(c)
  \/ RepondreCoup(c)
  \/ RecoitFinDePartie(c)
  \/ RecoitListe(c)
  \/ RecoitFinObservation(c)
  \/ QuitterObservation(c)
  \/ Fermer(c)

Next ==
  \/ \E t \in Threads : AvancerThread(t)
  \/ \E i \in Places : Servir(i)
  \/ Poursuivre
  \/ \E c \in Clients : Connecter(c) \/ AvancerClient(c)

\* The system runs every thread that can run, the main thread in the middle of
\* a handler included; users are free to answer or not.
Fairness ==
  /\ \A t \in Threads : WF_vars(AvancerThread(t))
  /\ WF_vars(Poursuivre)

Spec == Init /\ [][Next]_vars /\ Fairness

(***************************************************************************)
(* Properties.                                                             *)
(***************************************************************************)
EtatsPrincipal == {"select", "demarrer", "annuler", "join", "jeux", "vues", "plante"}

EtatsThread == {"neuf", "tour", "attenteFin", "attenteCoup", "resultat", "terminer",
                "finir", "nettoyage", "effacer", "detacher", "pause", "mort"}

TypeInvariant ==
  /\ clients \in Seq([sock : Clients, etat : 0..3]) /\ nbClients <= MaxClients
  /\ clientsInGame \in [Places -> Slots \cup {Aucun}]
  /\ observateurs \in [Slots -> SUBSET Places]
  /\ threadsLibres \subseteq Slots
  /\ threads_partie \in [Slots -> Threads \cup {Aucun}]
  /\ \A s \in Slots : parties[s] = PartieVide
                      \/ parties[s] \in [j1 : Clients, j2 : Clients, nbCoups : Nat]
  /\ semParties \in [Slots -> Nat]
  /\ thread \in [Threads -> [pc : EtatsThread, slot : Slots \cup {Aucun},
                             j1 : Clients \cup {Aucun}, j2 : Clients \cup {Aucun},
                             joueur : 1..2, iter : 1..IterMax, i : Nat \ {0},
                             annule : BOOLEAN, annulable : BOOLEAN]]
  /\ principal.pc \in EtatsPrincipal
  /\ compteurs \in [defis : 0..MaxDefis, listes : 0..MaxListes, departs : 0..MaxDeparts]

\* A slot is taken exactly while one game is being played in it, by the last
\* thread created there: start_game never gives a slot to two games, and no
\* path out of a game (end, giving up, cancellation) keeps the slot.
UnePartieParSlot ==
  /\ \A t \in Threads : Actif(t) =>
       thread[t].slot \notin threadsLibres /\ threads_partie[thread[t].slot] = t
  /\ \A s \in Slots \ threadsLibres : threads_partie[s] # Aucun /\ Actif(threads_partie[s])

\* When a client may connect, the arrays hold nothing past the last one: it
\* inherits neither the game nor the observation of one that left, whatever
\* end_game wrote, by a place it read earlier, while clients[], clientsInGame
\* and the rows of observateurs were shifted one after the other.
PlacesLibresVierges ==
  principal.pc \notin {"jeux", "vues"} =>
    \A i \in Places : i > nbClients =>
      clientsInGame[i] = Aucun /\ \A s \in Slots : i \notin observateurs[s]

\* The main thread never waits for ever in pthread_join: a cancelled thread
\* reaches the end of end_game, wherever the cancellation found it.
JoinTermine == []<>(principal.pc # "join")

\* What it rests on, with two departures: the thread that is joined is over, in
\* the cleanup, or cancelled; never one that waits for a mailbox that only the
\* main thread fills, though the pthread_t of a slot outlives its thread and
\* the slot may have been given to another game.
JoinReveille ==
  principal.pc = "join" =>
    thread[principal.t].annule \/ EnNettoyage(principal.t) \/ thread[principal.t].pc = "mort"

\* The answers of a game: what read_game takes from the mailbox answers the
\* question that game() asked last, and no token is left over.  Not so when a
\* player in a game accepts another challenge, when it gave up and its menu
\* sends a request before the answer is read (the resignation is then
\* overwritten and the game goes on without it), or when a challenger left and
\* came back: the accept starts a game that it does not know of.
DialogueIntact ==
  compteurs.defis <= 1 /\ compteurs.departs = 0 =>
    \A t \in Threads : Actif(t) /\ (\A c \in Joueurs(t) : Mode(c) \in {"jeu", "q_fin", "q_coup"}) =>
      LET s == thread[t].slot IN
      /\ semParties[s] <= 1
      /\ semParties[s] = 1 =>
           /\ PourMoi(t)
           /\ LuPar(t).type \in (CASE thread[t].pc = "attenteFin"  -> {"fin0", "fin1"}
                                   [] thread[t].pc = "attenteCoup" -> {"coup"}
                                   [] OTHER -> {})

(***************************************************************************)
(* What the repository says of the server, and the code does not do: each  *)
(* is violated by a run of its own.                                        *)
(***************************************************************************)

\* "Defier un joueur disponible (= qui n'est pas en train de faire une partie
\* ou d'en regarder une)": no player is in two games at once.
UneSeulePartie ==
  \A t, u \in Threads : Actif(t) /\ Actif(u) /\ t # u => Joueurs(t) \cap Joueurs(u) = {}

\* "clientsInGame = id du thread dans lequel le serveur deroule la partie du
\* joueur i ou -1 si ne joue pas": when the main thread is about to route what
\* a client sends, that thread is not over, so that somebody reads it.
JeuVivant ==
  principal.pc = "select" =>
    \A i \in 1..nbClients :
      clientsInGame[i] # Aucun => thread[threads_partie[clientsInGame[i]]].pc # "mort"

\* "En cas de deconnection brutale d'un des 2 joueurs, l'autre sera averti
\* comme si vous veniez d'abandonner": the game that the departure of a client
\* cancels is a game it plays.
AnnulationJuste ==
  [][\A t \in Threads : thread'[t].annule /\ ~thread[t].annule
       => clients[principal'.i].sock \in Joueurs(t)]_vars

=============================================================================
