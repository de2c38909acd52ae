--------------------------- MODULE Serveur_proofs ---------------------------
(***************************************************************************)
(* Proofs about Serveur, for any number of clients, slots, threads, moves, *)
(* challenges and departures.                                              *)
(***************************************************************************)
EXTENDS Serveur, FiniteSetTheorems, SequenceTheorems, TLAPS

-----------------------------------------------------------------------------
(* The inductive invariant. *)

EntreesClients == [sock : Clients, etat : 0..3]
Games          == [j1 : Clients, j2 : Clients, nbCoups : Nat]

EstPrincipal(p) ==
  p \in [pc : EtatsPrincipal, i : Places \cup {Aucun}, t : Threads \cup {Aucun}, defieur : {p.defieur}]

\* What TypeInvariant does not say and the steps need.
Types ==
  /\ TypeInvariant
  /\ parties \in [Slots -> {PartieVide} \cup Games]
  /\ EstPrincipal(principal)

\* No client has two places.
SocketsDistincts ==
  \A i, j \in 1..nbClients : clients[i].sock = clients[j].sock => i = j

\* A client is routed to a slot that a thread was created in.
Routage ==
  \A i \in Places : clientsInGame[i] # Aucun => threads_partie[clientsInGame[i]] \in Threads

\* What a running thread holds: its slot, and in that slot a game.
ThreadsEnRoute ==
  \A t \in Threads :
    /\ Actif(t) \/ EnNettoyage(t) => thread[t].slot \in Slots
    /\ Actif(t) => parties[thread[t].slot] \in Games

\* The thread that a slot names was started there.
SlotsEnRoute ==
  \A s \in Slots : threads_partie[s] # Aucun =>
    /\ thread[threads_partie[s]].pc # "neuf"
    /\ Actif(threads_partie[s]) => thread[threads_partie[s]].slot = s

\* Only a thread in end_game, run as a cleanup handler, cannot be cancelled.
AnnulableHorsNettoyage ==
  \A t \in Threads : ~thread[t].annulable => EnNettoyage(t)

\* What the main thread works on in the middle of a handler.
PrincipalPlace ==
  /\ principal.pc = "demarrer" => principal.i \in 1..nbClients
  /\ principal.pc \in {"annuler", "join"} =>
       /\ principal.i \in 1..nbClients /\ principal.t \in Threads
       /\ thread[principal.t].pc # "neuf"
  /\ principal.pc \in {"jeux", "vues"} =>
       principal.i \in 1 .. nbClients + 1 /\ nbClients + 1 <= MaxClients

\* The number of entries in use of an array that remove_client does not shift:
\* one more than clients[], until it is shifted in its turn.
Remplis(pcs) == IF principal.pc \in pcs THEN nbClients + 1 ELSE nbClients

PlacesVierges ==
  \A i \in Places :
    /\ i > Remplis({"jeux"}) => clientsInGame[i] = Aucun
    /\ i > Remplis({"jeux", "vues"}) => \A s \in Slots : i \notin observateurs[s]

IInv ==
  /\ Types
  /\ SocketsDistincts
  /\ Routage
  /\ ThreadsEnRoute
  /\ SlotsEnRoute
  /\ AnnulableHorsNettoyage
  /\ PrincipalPlace
  /\ UnePartieParSlot
  /\ PlacesVierges
  /\ JoinReveille

-----------------------------------------------------------------------------
(* The arrays of the clients. *)

\* The number of entries of clients[].
LEMMA MaxClientsType == MaxClients \in Nat
BY ServeurAssumption, FS_CardinalityType DEF MaxClients

\* clients[] as a sequence and as a function of the places in use.
LEMMA ClientsType ==
  ASSUME Types
  PROVE  /\ clients \in Seq(EntreesClients)
         /\ nbClients \in Nat /\ nbClients <= MaxClients
         /\ clients \in [1..nbClients -> EntreesClients]
         /\ DOMAIN clients = 1..nbClients
         /\ 1..nbClients \subseteq Places
<1>1. clients \in Seq(EntreesClients) /\ nbClients <= MaxClients
  BY DEF Types, TypeInvariant, EntreesClients
<1>2. /\ nbClients \in Nat
      /\ clients \in [1..nbClients -> EntreesClients]
      /\ DOMAIN clients = 1..nbClients
  BY <1>1, LenProperties DEF nbClients
<1> QED BY <1>1, <1>2, MaxClientsType DEF Places

\* Place finds a client that is connected.
LEMMA PlaceType ==
  ASSUME NEW c \in Connectes
  PROVE  Place(c) \in 1..nbClients /\ clients[Place(c)].sock = c
BY DEF Connectes, Place

\* Clients without a place of their own fit in the array: connect_client
\* never exceeds it when each program has one connection.
LEMMA PlaceLibre ==
  ASSUME Types, SocketsDistincts, NEW c \in Clients, c \notin Connectes
  PROVE  nbClients + 1 <= MaxClients
<1> DEFINE f == [i \in 1 .. nbClients + 1 |-> IF i <= nbClients THEN clients[i].sock ELSE c]
<1>1. nbClients \in Nat /\ MaxClients \in Nat
  BY ClientsType, MaxClientsType
<1>2. \A i \in 1..nbClients : clients[i].sock \in Clients
  BY ClientsType DEF EntreesClients
<1>3. f \in [1 .. nbClients + 1 -> Clients]
  BY <1>1, <1>2
<1>4. ASSUME NEW i \in 1 .. nbClients + 1, NEW j \in 1 .. nbClients + 1, f[i] = f[j]
      PROVE  i = j
  BY <1>1, <1>4 DEF SocketsDistincts, Connectes
<1>5. f \in Injection(1 .. nbClients + 1, Clients)
  BY <1>3, <1>4 DEF Injection, IsInjective
<1>6. Cardinality(1 .. nbClients + 1) <= Cardinality(Clients)
  BY <1>5, ServeurAssumption, FS_Injection
<1>7. Cardinality(1 .. nbClients + 1) = nbClients + 1
  BY <1>1, FS_Interval
<1> QED BY <1>6, <1>7 DEF MaxClients

\* The array without place i.
Sans(i) == SubSeq(clients, 1, i - 1) \o SubSeq(clients, i + 1, nbClients)

\* What deconnect_client leaves: the places after i move down by one.
LEMMA SansType ==
  ASSUME Types, NEW i \in 1..nbClients
  PROVE  /\ Sans(i) \in Seq(EntreesClients)
         /\ Len(Sans(i)) = nbClients - 1
         /\ \A k \in 1 .. nbClients - 1 :
              Sans(i)[k] = IF k < i THEN clients[k] ELSE clients[k + 1]
<1> DEFINE a == SubSeq(clients, 1, i - 1)
           b == SubSeq(clients, i + 1, nbClients)
<1>1. clients \in Seq(EntreesClients) /\ nbClients \in Nat /\ i \in Nat
  BY ClientsType
<1>2. /\ a \in Seq(EntreesClients) /\ Len(a) = i - 1
      /\ \A k \in 1 .. i - 1 : a[k] = clients[k]
  BY <1>1, SubSeqProperties DEF nbClients
<1>3. /\ b \in Seq(EntreesClients) /\ Len(b) = nbClients - i
      /\ \A k \in 1 .. nbClients - i : b[k] = clients[i + k]
  BY <1>1, SubSeqProperties DEF nbClients
<1> HIDE DEF a, b
<1>4. /\ a \o b \in Seq(EntreesClients)
      /\ Len(a \o b) = Len(a) + Len(b)
      /\ \A k \in 1 .. Len(a) + Len(b) : (a \o b)[k] = IF k <= Len(a) THEN a[k] ELSE b[k - Len(a)]
  BY <1>2, <1>3, ConcatProperties
<1>6. Len(a) + Len(b) = nbClients - 1
  BY <1>1, <1>2, <1>3
<1>5. ASSUME NEW k \in 1 .. nbClients - 1
      PROVE  (a \o b)[k] = IF k < i THEN clients[k] ELSE clients[k + 1]
  BY <1>1, <1>2, <1>3, <1>4, <1>6
<1> QED BY <1>4, <1>5, <1>6 DEF a, b, Sans

\* The state of a player is set: the sockets stay where they are.
LEMMA FixerEtatType ==
  ASSUME Types, NEW i \in 1..nbClients, NEW e \in 0..3
  PROVE  /\ FixerEtat(i, e) \in Seq(EntreesClients)
         /\ Len(FixerEtat(i, e)) = nbClients
         /\ \A k \in 1..nbClients : FixerEtat(i, e)[k].sock = clients[k].sock
<1>1. clients \in Seq(EntreesClients) /\ clients \in [1..nbClients -> EntreesClients]
  BY ClientsType
<1>2. [clients[i] EXCEPT !.etat = e] \in EntreesClients
      /\ [clients[i] EXCEPT !.etat = e].sock = clients[i].sock
  BY <1>1 DEF EntreesClients
<1>3. FixerEtat(i, e) = [clients EXCEPT ![i] = [clients[i] EXCEPT !.etat = e]]
  BY <1>1 DEF FixerEtat
<1> QED BY <1>1, <1>2, <1>3, ExceptSeq DEF nbClients

MemesSockets ==
  /\ clients' \in Seq(EntreesClients)
  /\ Len(clients') = nbClients
  /\ \A k \in 1..nbClients : clients'[k].sock = clients[k].sock

\* Then nobody comes, goes or changes place.
LEMMA MemesSocketsPas ==
  ASSUME SocketsDistincts, MemesSockets
  PROVE  nbClients' = nbClients /\ Connectes' = Connectes /\ SocketsDistincts'
BY DEF SocketsDistincts, MemesSockets, nbClients, Connectes

\* In particular when the array is left alone.
LEMMA MemesSocketsSiInchange ==
  ASSUME Types, UNCHANGED clients
  PROVE  MemesSockets
BY ClientsType DEF MemesSockets, nbClients

-----------------------------------------------------------------------------
(* The steps. *)

\* A client program, or a message that changes nothing of the server.
LEMMA StablePas ==
  ASSUME IInv,
         UNCHANGED <<varsTables, varsParties, semParties, thread, principal>>,
         compteurs' \in [defis : 0..MaxDefis, listes : 0..MaxListes, departs : 0..MaxDeparts]
  PROVE  IInv'
<1>1. nbClients' = nbClients
  BY DEF varsTables, nbClients
<1> USE <1>1 DEF varsTables, varsParties
<1>2. Types'
  BY DEF IInv, Types, TypeInvariant
<1>3. SocketsDistincts' /\ Routage' /\ PrincipalPlace' /\ PlacesVierges'
  BY DEF IInv, SocketsDistincts, Routage, PrincipalPlace, PlacesVierges, Remplis
<1>4. ThreadsEnRoute' /\ SlotsEnRoute' /\ AnnulableHorsNettoyage' /\ UnePartieParSlot' /\ JoinReveille'
  BY DEF IInv, ThreadsEnRoute, SlotsEnRoute, AnnulableHorsNettoyage, UnePartieParSlot, JoinReveille,
         Actif, EnNettoyage
<1> QED BY <1>2, <1>3, <1>4 DEF IInv

\* Every step of a client program (AvancerClient).
LEMMA ClientPas ==
  ASSUME IInv, NEW c \in Clients, AvancerClient(c)
  PROVE  IInv'
<1>1. UNCHANGED varsServeur
  BY DEF AvancerClient, Defier, DemanderParties, RecoitDefi, Accepter, Refuser, RecoitAccord,
         RecoitRefus, RecoitQuestion, RepondreFin, RepondreCoup, RecoitFinDePartie, RecoitListe,
         RecoitFinObservation, QuitterObservation, Fermer
<1>2. compteurs \in [defis : 0..MaxDefis, listes : 0..MaxListes, departs : 0..MaxDeparts]
  BY DEF IInv, Types, TypeInvariant
<1>4. \/ UNCHANGED compteurs
      \/ compteurs.defis < MaxDefis /\ compteurs' = [compteurs EXCEPT !.defis = @ + 1]
      \/ compteurs.listes < MaxListes /\ compteurs' = [compteurs EXCEPT !.listes = @ + 1]
      \/ compteurs.departs < MaxDeparts /\ compteurs' = [compteurs EXCEPT !.departs = @ + 1]
  BY DEF AvancerClient, Defier, DemanderParties, RecoitDefi, Accepter, Refuser, RecoitAccord,
         RecoitRefus, RecoitQuestion, RepondreFin, RepondreCoup, RecoitFinDePartie, RecoitListe,
         RecoitFinObservation, QuitterObservation, Fermer
<1>3. compteurs' \in [defis : 0..MaxDefis, listes : 0..MaxListes, departs : 0..MaxDeparts]
  BY <1>2, <1>4, ServeurAssumption
<1> QED BY <1>1, <1>3, StablePas DEF varsServeur, varsMessages

ThreadType == [pc : EtatsThread, slot : Slots \cup {Aucun},
               j1 : Clients \cup {Aucun}, j2 : Clients \cup {Aucun},
               joueur : 1..2, iter : 1..IterMax, i : Nat \ {0},
               annule : BOOLEAN, annulable : BOOLEAN]

\* A thread that goes on with its game.
LEMMA JeuPas ==
  ASSUME IInv, NEW t \in Threads,
         Actif(t), ~thread[t].annule,
         thread' = [thread EXCEPT ![t] = thread'[t]], thread'[t] \in ThreadType,
         Actif(t)', thread'[t].slot = thread[t].slot,
         ~thread'[t].annule, thread'[t].annulable = thread[t].annulable,
         UNCHANGED <<varsTables, threadsLibres, threads_partie, principal, compteurs>>,
         semParties' \in [Slots -> Nat],
         parties' \in [Slots -> {PartieVide} \cup Games],
         \A s \in Slots : parties[s] \in Games => parties'[s] \in Games
  PROVE  IInv'
<1>1. nbClients' = nbClients
  BY DEF varsTables, nbClients
<1>2. thread \in [Threads -> ThreadType]
  BY DEF IInv, Types, TypeInvariant, ThreadType
<1>3. thread' \in [Threads -> ThreadType]
  BY <1>2
<1>4. \A u \in Threads : u # t => thread'[u] = thread[u]
  BY <1>2
<1>5. \A u \in Threads : Actif(u)' <=> Actif(u)
  BY <1>4 DEF Actif
<1>6. \A u \in Threads : EnNettoyage(u)' <=> EnNettoyage(u)
  BY <1>4 DEF Actif, EnNettoyage
<1>7. \A u \in Threads : thread'[u].slot = thread[u].slot
  BY <1>4
<1> USE DEF varsTables
<1>8. Types'
  <2>1. clients' \in Seq(EntreesClients) /\ nbClients' <= MaxClients
    BY <1>1, ClientsType DEF IInv
  <2>2. /\ clientsInGame' \in [Places -> Slots \cup {Aucun}]
        /\ observateurs' \in [Slots -> SUBSET Places]
        /\ threadsLibres' \subseteq Slots
        /\ threads_partie' \in [Slots -> Threads \cup {Aucun}]
        /\ EstPrincipal(principal')
        /\ principal'.pc \in EtatsPrincipal
        /\ compteurs' \in [defis : 0..MaxDefis, listes : 0..MaxListes, departs : 0..MaxDeparts]
    BY DEF IInv, Types, TypeInvariant
  <2>3. \A s \in Slots : parties'[s] = PartieVide \/ parties'[s] \in Games
    OBVIOUS
  <2> QED BY <1>3, <2>1, <2>2, <2>3 DEF Types, TypeInvariant, ThreadType, EntreesClients, Games
<1>9. SocketsDistincts' /\ Routage' /\ PrincipalPlace' /\ PlacesVierges'
  <2>1. thread'[t].pc # "neuf"
    BY DEF Actif
  <2> QED BY <1>1, <1>4, <2>1
          DEF IInv, SocketsDistincts, Routage, PrincipalPlace, PlacesVierges, Remplis
<1>10. ThreadsEnRoute' /\ SlotsEnRoute'
  <2>1. \A s \in Slots : threads_partie[s] # Aucun => threads_partie[s] \in Threads
    BY DEF IInv, Types, TypeInvariant
  <2>2. Actif(t)' => thread'[t].pc # "neuf"
    BY DEF Actif
  <2> QED BY <1>4, <1>5, <1>6, <1>7, <2>1, <2>2 DEF IInv, ThreadsEnRoute, SlotsEnRoute
<1>11. AnnulableHorsNettoyage'
  BY <1>4 DEF IInv, AnnulableHorsNettoyage, Actif, EnNettoyage
<1>12. UnePartieParSlot'
  <2>1. \A s \in Slots \ threadsLibres : threads_partie[s] \in Threads
    BY DEF IInv, UnePartieParSlot, Types, TypeInvariant
  <2> QED BY <1>5, <1>7, <2>1 DEF IInv, UnePartieParSlot
<1>13. JoinReveille'
  <2>1. principal.pc = "join" => principal.t # t
    BY DEF IInv, JoinReveille, Actif, EnNettoyage
  <2> QED BY <1>4, <1>6, <2>1 DEF IInv, JoinReveille, PrincipalPlace
<1> QED BY <1>8, <1>9, <1>10, <1>11, <1>12, <1>13 DEF IInv

\* The turns of game(): its questions and the reading of the answers.
LEMMA JeuEtapes ==
  ASSUME IInv, NEW t \in Threads,
         \/ Tour(t) \/ MessageIgnore(t) \/ LireFin(t) \/ LireCoup(t) \/ ContinuerPartie(t)
         \/ TerminerPartie(t)
  PROVE  IInv'
<1>1. thread \in [Threads -> ThreadType] /\ thread[t] \in ThreadType
  BY DEF IInv, Types, TypeInvariant, ThreadType
<1>2. Actif(t) /\ ~thread[t].annule
  BY DEF Tour, MessageIgnore, LireFin, LireCoup, ContinuerPartie, TerminerPartie, PeutAvancer,
         Actif
<1>3. /\ thread' = [thread EXCEPT ![t] = thread'[t]]
      /\ thread'[t] \in ThreadType
      /\ Actif(t)' /\ thread'[t].slot = thread[t].slot
      /\ ~thread'[t].annule /\ thread'[t].annulable = thread[t].annulable
  <2>1. CASE Tour(t)
    BY <1>1, <1>2, <2>1 DEF Tour, Actif, ThreadType, EtatsThread
  <2>2. CASE MessageIgnore(t)
    BY <1>1, <1>2, <2>2 DEF MessageIgnore, Actif
  <2>3. CASE LireFin(t)
    BY <1>1, <1>2, <2>3 DEF LireFin, Actif, ThreadType, EtatsThread
  <2>4. CASE LireCoup(t)
    BY <1>1, <1>2, <2>4 DEF LireCoup, Actif, ThreadType, EtatsThread
  <2>5. CASE ContinuerPartie(t)
    BY <1>1, <1>2, <2>5 DEF ContinuerPartie, Actif, ThreadType, EtatsThread, IterMax
  <2>6. CASE TerminerPartie(t)
    BY <1>1, <1>2, <2>6 DEF TerminerPartie, Actif, ThreadType, EtatsThread
  <2> QED BY <2>1, <2>2, <2>3, <2>4, <2>5, <2>6
<1>4. UNCHANGED <<varsTables, threadsLibres, threads_partie, principal, compteurs>>
  BY DEF Tour, MessageIgnore, LireFin, LireCoup, ContinuerPartie, TerminerPartie, varsParties,
         varsClients
<1>5. thread[t].slot \in Slots /\ parties[thread[t].slot] \in Games
  BY <1>2 DEF IInv, ThreadsEnRoute
<1>6. semParties' \in [Slots -> Nat]
  <2>1. semParties \in [Slots -> Nat]
    BY DEF IInv, Types, TypeInvariant
  <2>2. CASE Tour(t) \/ ContinuerPartie(t) \/ TerminerPartie(t)
    BY <2>1, <2>2 DEF Tour, ContinuerPartie, TerminerPartie, varsMessages
  <2>3. CASE MessageIgnore(t) \/ LireFin(t) \/ LireCoup(t)
    BY <1>5, <2>1, <2>3 DEF MessageIgnore, LireFin, LireCoup, Jeton
  <2> QED BY <2>2, <2>3
<1>7. /\ parties' \in [Slots -> {PartieVide} \cup Games]
      /\ \A s \in Slots : parties[s] \in Games => parties'[s] \in Games
  <2>1. parties \in [Slots -> {PartieVide} \cup Games]
    BY DEF IInv, Types
  <2>2. CASE LireCoup(t)
    <3>1. [parties[thread[t].slot] EXCEPT !.nbCoups = @ + 1] \in Games
      BY <1>5 DEF Games
    <3>2. parties' = [parties EXCEPT ![thread[t].slot] =
                        [parties[thread[t].slot] EXCEPT !.nbCoups = @ + 1]]
      BY <2>1, <2>2, <1>5 DEF LireCoup
    <3> QED BY <1>5, <2>1, <3>1, <3>2
  <2>3. CASE ~LireCoup(t)
    BY <2>1, <2>3 DEF Tour, MessageIgnore, LireFin, ContinuerPartie, TerminerPartie, varsParties
  <2> QED BY <2>2, <2>3
<1> QED BY <1>2, <1>3, <1>4, <1>6, <1>7, JeuPas

\* A thread enters end_game and gives its slot back.
LEMMA NettoyagePas ==
  ASSUME IInv, NEW t \in Threads, NEW annulable \in BOOLEAN,
         Actif(t), DebutNettoyage(t, annulable),
         UNCHANGED <<varsTables, threads_partie, parties, semParties, principal, compteurs>>
  PROVE  IInv'
<1>1. nbClients' = nbClients
  BY DEF varsTables, nbClients
<1>2. thread \in [Threads -> ThreadType] /\ thread[t] \in ThreadType
  BY DEF IInv, Types, TypeInvariant, ThreadType
<1>3. thread[t].slot \in Slots
  BY DEF IInv, ThreadsEnRoute
<1>4. /\ thread' \in [Threads -> ThreadType]
      /\ thread'[t].pc = "nettoyage" /\ thread'[t].slot = thread[t].slot
  <2> DEFINE r == [thread[t] EXCEPT !.pc = "nettoyage", !.i = 1, !.annule = FALSE,
                                    !.annulable = annulable]
  <2>1. thread' = [thread EXCEPT ![t] = r]
    BY <1>2 DEF DebutNettoyage
  <2>2. r \in ThreadType /\ r.pc = "nettoyage" /\ r.slot = thread[t].slot
    <3>1. 1 \in Nat \ {0} /\ "nettoyage" \in EtatsThread
      BY DEF EtatsThread
    <3>2. thread[t] \in ThreadType
      BY <1>2
    <3> QED BY <3>1, <3>2 DEF ThreadType
  <2> QED BY <1>2, <2>1, <2>2
<1>5. \A u \in Threads : u # t => thread'[u] = thread[u]
  BY <1>2 DEF DebutNettoyage
<1>6. \A u \in Threads : Actif(u)' => u # t /\ Actif(u)
  BY <1>4, <1>5 DEF Actif
<1>7. \A u \in Threads : thread'[u].slot = thread[u].slot
  BY <1>4, <1>5
<1>8. threadsLibres' = threadsLibres \cup {thread[t].slot}
  BY DEF DebutNettoyage
<1> USE DEF varsTables
<1>9. Types'
  <2>1. clients' \in Seq(EntreesClients) /\ nbClients' <= MaxClients
    BY <1>1, ClientsType DEF IInv
  <2>2. /\ clientsInGame' \in [Places -> Slots \cup {Aucun}]
        /\ observateurs' \in [Slots -> SUBSET Places]
        /\ threadsLibres' \subseteq Slots
        /\ threads_partie' \in [Slots -> Threads \cup {Aucun}]
        /\ semParties' \in [Slots -> Nat]
        /\ parties' \in [Slots -> {PartieVide} \cup Games]
        /\ EstPrincipal(principal')
        /\ principal'.pc \in EtatsPrincipal
        /\ compteurs' \in [defis : 0..MaxDefis, listes : 0..MaxListes, departs : 0..MaxDeparts]
    BY <1>3, <1>8 DEF IInv, Types, TypeInvariant
  <2>3. \A s \in Slots : parties'[s] = PartieVide \/ parties'[s] \in Games
    BY <2>2
  <2> QED BY <1>4, <2>1, <2>2, <2>3 DEF Types, TypeInvariant, ThreadType, EntreesClients, Games
<1>10. SocketsDistincts' /\ Routage' /\ PrincipalPlace' /\ PlacesVierges'
  BY <1>1, <1>4, <1>5
  DEF IInv, SocketsDistincts, Routage, PrincipalPlace, PlacesVierges, Remplis
<1>11. ThreadsEnRoute' /\ SlotsEnRoute'
  <2>1. \A s \in Slots : threads_partie[s] # Aucun => threads_partie[s] \in Threads
    BY DEF IInv, Types, TypeInvariant
  <2> QED BY <1>3, <1>4, <1>5, <1>6, <1>7, <2>1 DEF IInv, ThreadsEnRoute, SlotsEnRoute, EnNettoyage
<1>12. AnnulableHorsNettoyage'
  BY <1>4, <1>5 DEF IInv, AnnulableHorsNettoyage, EnNettoyage
<1>13. UnePartieParSlot'
  <2>1. ASSUME NEW u \in Threads, Actif(u)'
        PROVE  thread'[u].slot \notin threadsLibres' /\ threads_partie'[thread'[u].slot] = u
    <3>1. Actif(u) /\ u # t
      BY <1>6, <2>1
    <3>2. thread[u].slot # thread[t].slot
      BY <3>1 DEF IInv, UnePartieParSlot
    <3> QED BY <1>7, <1>8, <3>1, <3>2 DEF IInv, UnePartieParSlot
  <2>2. ASSUME NEW s \in Slots \ threadsLibres'
        PROVE  threads_partie'[s] # Aucun /\ Actif(threads_partie[s])'
    <3>1. s \in Slots \ threadsLibres /\ s # thread[t].slot
      BY <1>8
    <3>2. threads_partie[s] \in Threads /\ Actif(threads_partie[s])
      BY <3>1 DEF IInv, UnePartieParSlot, Types, TypeInvariant
    <3>3. threads_partie[s] # t
      BY <3>1, <3>2 DEF IInv, UnePartieParSlot, SlotsEnRoute
    <3> QED BY <1>5, <3>1, <3>2, <3>3 DEF IInv, UnePartieParSlot, Actif
  <2> QED BY <2>1, <2>2 DEF UnePartieParSlot
<1>14. JoinReveille'
  BY <1>4, <1>5 DEF IInv, JoinReveille, PrincipalPlace, EnNettoyage
<1> QED BY <1>9, <1>10, <1>11, <1>12, <1>13, <1>14 DEF IInv

\* A thread is over.
LEMMA MortPas ==
  ASSUME IInv, NEW t \in Threads,
         ~Actif(t),
         thread' = [thread EXCEPT ![t] = Repos("mort")],
         UNCHANGED <<varsTables, varsParties, semParties, principal, compteurs>>
  PROVE  IInv'
<1>1. nbClients' = nbClients
  BY DEF varsTables, nbClients
<1>2. thread \in [Threads -> ThreadType]
  BY DEF IInv, Types, TypeInvariant, ThreadType
<1>3. Repos("mort") \in ThreadType /\ Repos("mort").pc = "mort" /\ Repos("mort").annulable
  BY DEF Repos, ThreadType, EtatsThread, IterMax
<1>4. thread' \in [Threads -> ThreadType] /\ thread'[t] = Repos("mort")
  BY <1>2, <1>3
<1>5. \A u \in Threads : u # t => thread'[u] = thread[u]
  BY <1>2
<1>6. \A u \in Threads : Actif(u)' <=> Actif(u)
  BY <1>3, <1>4, <1>5 DEF Actif
<1>7. \A u \in Threads : Actif(u)' => thread'[u] = thread[u]
  BY <1>5, <1>6
<1>8. \A u \in Threads : EnNettoyage(u)' => thread'[u] = thread[u] /\ EnNettoyage(u)
  BY <1>3, <1>4, <1>5 DEF EnNettoyage
<1>9. \A s \in Slots : threads_partie[s] # Aucun => threads_partie[s] \in Threads
  BY DEF IInv, Types, TypeInvariant
<1> USE DEF varsTables, varsParties
<1>10. Types'
  <2>1. clients' \in Seq(EntreesClients) /\ nbClients' <= MaxClients
    BY <1>1, ClientsType DEF IInv
  <2>2. /\ clientsInGame' \in [Places -> Slots \cup {Aucun}]
        /\ observateurs' \in [Slots -> SUBSET Places]
        /\ threadsLibres' \subseteq Slots
        /\ threads_partie' \in [Slots -> Threads \cup {Aucun}]
        /\ semParties' \in [Slots -> Nat]
        /\ parties' \in [Slots -> {PartieVide} \cup Games]
        /\ EstPrincipal(principal')
        /\ principal'.pc \in EtatsPrincipal
        /\ compteurs' \in [defis : 0..MaxDefis, listes : 0..MaxListes, departs : 0..MaxDeparts]
    BY DEF IInv, Types, TypeInvariant
  <2>3. \A s \in Slots : parties'[s] = PartieVide \/ parties'[s] \in Games
    BY <2>2
  <2> QED BY <1>4, <2>1, <2>2, <2>3 DEF Types, TypeInvariant, ThreadType, EntreesClients, Games
<1>11. SocketsDistincts' /\ Routage' /\ PrincipalPlace' /\ PlacesVierges'
  BY <1>1, <1>3, <1>4, <1>5
  DEF IInv, SocketsDistincts, Routage, PrincipalPlace, PlacesVierges, Remplis
<1>12. ThreadsEnRoute' /\ SlotsEnRoute'
  BY <1>3, <1>4, <1>5, <1>6, <1>7, <1>8, <1>9 DEF IInv, ThreadsEnRoute, SlotsEnRoute
<1>13. AnnulableHorsNettoyage'
  BY <1>3, <1>4, <1>5 DEF IInv, AnnulableHorsNettoyage, EnNettoyage
<1>14. UnePartieParSlot'
  <2>1. \A u \in Threads : Actif(u)' => thread'[u].slot = thread[u].slot
    BY <1>7
  <2>2. \A s \in Slots \ threadsLibres : threads_partie[s] \in Threads
    BY <1>9 DEF IInv, UnePartieParSlot
  <2> QED BY <1>6, <2>1, <2>2 DEF IInv, UnePartieParSlot
<1>15. JoinReveille'
  BY <1>3, <1>4, <1>5 DEF IInv, JoinReveille, PrincipalPlace, EnNettoyage
<1> QED BY <1>10, <1>11, <1>12, <1>13, <1>14, <1>15 DEF IInv

\* The arrays may change while the sockets, the games and the threads stay; a
\* thread may go from one step of end_game to another.
LEMMA TablesPas ==
  ASSUME IInv, MemesSockets,
         UNCHANGED <<varsParties, compteurs>>,
         thread' \in [Threads -> ThreadType],
         \A t \in Threads : /\ \/ thread'[t].pc = thread[t].pc
                               \/ EnNettoyage(t) /\ EnNettoyage(t)'
                            /\ thread'[t].slot = thread[t].slot
                            /\ thread'[t].annule = thread[t].annule
                            /\ thread'[t].annulable = thread[t].annulable,
         semParties' \in [Slots -> Nat],
         clientsInGame' \in [Places -> Slots \cup {Aucun}],
         \A i \in Places : clientsInGame'[i] \in {clientsInGame[i], Aucun},
         observateurs' \in [Slots -> SUBSET Places],
         \A s \in Slots, i \in Places :
           i \in observateurs'[s] => i \in observateurs[s] \/ i <= nbClients,
         \/ UNCHANGED principal
         \/ /\ principal.pc \in {"select", "demarrer"} /\ EstPrincipal(principal')
            /\ principal'.pc \in {"select", "demarrer", "plante"}
            /\ principal'.pc = "demarrer" => principal'.i \in 1..nbClients
  PROVE  IInv'
<1>1. nbClients' = nbClients /\ SocketsDistincts'
  BY MemesSocketsPas DEF IInv
<1>2. \A t \in Threads : (Actif(t)' <=> Actif(t)) /\ (EnNettoyage(t)' <=> EnNettoyage(t))
  BY DEF Actif, EnNettoyage
<1>13. \A t \in Threads : (thread'[t].pc = "neuf" <=> thread[t].pc = "neuf")
                          /\ (thread'[t].pc = "mort" <=> thread[t].pc = "mort")
  BY DEF EnNettoyage
<1>3. \A s \in Slots : threads_partie[s] # Aucun => threads_partie[s] \in Threads
  BY DEF IInv, Types, TypeInvariant
<1>4. EstPrincipal(principal')
  BY DEF IInv, Types
<1> USE DEF varsParties
<1>5. Types'
  <2>1. clients' \in Seq(EntreesClients) /\ nbClients' <= MaxClients
    BY <1>1, ClientsType DEF IInv, MemesSockets
  <2>2. /\ threadsLibres' \subseteq Slots
        /\ threads_partie' \in [Slots -> Threads \cup {Aucun}]
        /\ parties' \in [Slots -> {PartieVide} \cup Games]
        /\ compteurs' \in [defis : 0..MaxDefis, listes : 0..MaxListes, departs : 0..MaxDeparts]
    BY DEF IInv, Types, TypeInvariant
  <2>3. \A s \in Slots : parties'[s] = PartieVide \/ parties'[s] \in Games
    BY <2>2
  <2>4. principal'.pc \in EtatsPrincipal
    BY <1>4 DEF EstPrincipal
  <2> QED BY <1>4, <2>1, <2>2, <2>3, <2>4
          DEF Types, TypeInvariant, ThreadType, EntreesClients, Games
<1>6. Routage'
  BY DEF IInv, Routage
<1>7. ThreadsEnRoute'
  BY <1>2 DEF IInv, ThreadsEnRoute
<1>8. SlotsEnRoute'
  BY <1>2, <1>3, <1>13 DEF IInv, SlotsEnRoute
<1>9. AnnulableHorsNettoyage'
  BY <1>2 DEF IInv, AnnulableHorsNettoyage
<1>10. PrincipalPlace' /\ JoinReveille'
  BY <1>1, <1>2, <1>13 DEF IInv, PrincipalPlace, JoinReveille
<1>11. UnePartieParSlot'
  <2>1. \A s \in Slots \ threadsLibres : threads_partie[s] \in Threads
    BY <1>3 DEF IInv, UnePartieParSlot
  <2> QED BY <1>2, <2>1 DEF IInv, UnePartieParSlot
<1>12. PlacesVierges'
  <2>1. /\ Remplis({"jeux"})' = Remplis({"jeux"}) /\ Remplis({"jeux"}) \in Nat
        /\ Remplis({"jeux", "vues"})' = Remplis({"jeux", "vues"})
        /\ nbClients <= Remplis({"jeux", "vues"}) /\ Remplis({"jeux", "vues"}) \in Nat
    BY <1>1, ClientsType DEF IInv, Remplis
  <2> HIDE DEF Remplis
  <2> QED BY <1>1, <2>1, ClientsType DEF IInv, PlacesVierges, Places
<1> QED BY <1>1, <1>5, <1>6, <1>7, <1>8, <1>9, <1>10, <1>11, <1>12 DEF IInv

\* end_game sets the state of the players and nothing else of clients[].
LEMMA DetacherSockets ==
  ASSUME IInv, NEW t \in Threads, Detacher(t)
  PROVE  MemesSockets
<1>1. thread[t].i \in Nat \ {0} /\ nbClients \in Nat
  BY ClientsType DEF IInv, Types, TypeInvariant
<1>2. CASE thread[t].i <= nbClients
  <2>1. thread[t].i \in 1..nbClients /\ clients' = FixerEtat(thread[t].i, 0)
    BY <1>1, <1>2 DEF Detacher
  <2> QED BY <2>1, FixerEtatType DEF IInv, MemesSockets
<1>3. CASE ~(thread[t].i <= nbClients)
  BY <1>3, MemesSocketsSiInchange DEF IInv, Detacher
<1> QED BY <1>2, <1>3

\* The steps of an iteration of the loop of end_game.
EtapesNettoyage(t) ==
  \/ Parcourir(t) \/ AnnoncerFin(t) \/ Effacer(t) \/ Reconnaitre(t) \/ Detacher(t) \/ Reprendre(t)

\* They keep the invariant.
LEMMA NettoyerPas ==
  ASSUME IInv, NEW t \in Threads, EtapesNettoyage(t)
  PROVE  IInv'
<1> USE DEF EtapesNettoyage
<1>1. /\ thread \in [Threads -> ThreadType] /\ thread[t] \in ThreadType
      /\ observateurs \in [Slots -> SUBSET Places]
      /\ clientsInGame \in [Places -> Slots \cup {Aucun}]
      /\ semParties \in [Slots -> Nat]
  BY DEF IInv, Types, TypeInvariant, ThreadType
<1>2. EnNettoyage(t)
  BY DEF EnNettoyage, Parcourir, AnnoncerFin, Effacer, Reconnaitre, Detacher, Reprendre, AuTour
<1>3. thread[t].slot \in Slots
  BY <1>2 DEF IInv, ThreadsEnRoute
<1>4. \E pc \in {"nettoyage", "effacer", "detacher", "pause"} :
        Etape(t, pc, thread[t].i) \/ Etape(t, pc, thread[t].i + 1)
  BY DEF Parcourir, AnnoncerFin, Effacer, Reconnaitre, Detacher, Reprendre
<1>5. PICK pc \in {"nettoyage", "effacer", "detacher", "pause"},
           i \in {thread[t].i, thread[t].i + 1} : Etape(t, pc, i)
  BY <1>4
<1>6. /\ thread' \in [Threads -> ThreadType]
      /\ \A u \in Threads : /\ \/ thread'[u].pc = thread[u].pc
                               \/ EnNettoyage(u) /\ EnNettoyage(u)'
                            /\ thread'[u].slot = thread[u].slot
                            /\ thread'[u].annule = thread[u].annule
                            /\ thread'[u].annulable = thread[u].annulable
  <2> DEFINE r == [thread[t] EXCEPT !.pc = pc, !.i = i]
  <2>1. thread' = [thread EXCEPT ![t] = r]
    BY <1>1, <1>5 DEF Etape
  <2>2. i \in Nat \ {0} /\ pc \in EtatsThread
    BY <1>1 DEF ThreadType, EtatsThread
  <2>3. /\ r \in ThreadType /\ r.pc = pc /\ r.slot = thread[t].slot
        /\ r.annule = thread[t].annule /\ r.annulable = thread[t].annulable
    BY <1>1, <2>2 DEF ThreadType
  <2> HIDE DEF r
  <2>4. thread'[t] = r /\ \A u \in Threads : u # t => thread'[u] = thread[u]
    BY <1>1, <2>1
  <2>5. thread' \in [Threads -> ThreadType]
    BY <1>1, <2>1, <2>3
  <2>6. EnNettoyage(t)'
    BY <2>3, <2>4 DEF EnNettoyage
  <2> QED BY <1>2, <2>3, <2>4, <2>5, <2>6
<1>7. MemesSockets
  <2>1. CASE Detacher(t)
    BY <2>1, DetacherSockets
  <2>2. CASE ~Detacher(t)
    BY <2>2, MemesSocketsSiInchange
    DEF IInv, Parcourir, AnnoncerFin, Effacer, Reconnaitre, Reprendre, varsTables
  <2> QED BY <2>1, <2>2
<1>8. /\ observateurs' \in [Slots -> SUBSET Places]
      /\ \A s \in Slots, k \in Places : k \in observateurs'[s] => k \in observateurs[s]
  <2>1. CASE Effacer(t)
    BY <1>1, <1>3, <2>1 DEF Effacer
  <2>2. CASE ~Effacer(t)
    BY <1>1, <2>2 DEF Parcourir, AnnoncerFin, Detacher, Reconnaitre, Reprendre, varsTables
  <2> QED BY <2>1, <2>2
<1>9. /\ clientsInGame' \in [Places -> Slots \cup {Aucun}]
      /\ \A k \in Places : clientsInGame'[k] \in {clientsInGame[k], Aucun}
  <2>1. CASE Detacher(t)
    BY <1>1, <2>1 DEF Detacher
  <2>2. CASE ~Detacher(t)
    BY <1>1, <2>2 DEF Parcourir, AnnoncerFin, Effacer, Reconnaitre, Reprendre, varsTables
  <2> QED BY <2>1, <2>2
<1>10. UNCHANGED <<varsParties, compteurs, semParties, principal>>
  BY DEF Parcourir, AnnoncerFin, Effacer, Reconnaitre, Detacher, Reprendre, varsMessages, varsClients
<1> QED BY <1>1, <1>6, <1>7, <1>8, <1>9, <1>10, TablesPas

\* Every step of a game thread.
LEMMA ThreadPas ==
  ASSUME IInv, NEW t \in Threads, AvancerThread(t)
  PROVE  IInv'
<1>1. CASE \/ Tour(t) \/ MessageIgnore(t) \/ LireFin(t) \/ LireCoup(t) \/ ContinuerPartie(t)
           \/ TerminerPartie(t)
  BY <1>1, JeuEtapes
<1>2. CASE AnnoncerVainqueur(t)
  <2>1. Actif(t) /\ DebutNettoyage(t, TRUE)
        /\ UNCHANGED <<varsTables, threads_partie, parties, semParties, principal, compteurs>>
    BY <1>2 DEF AnnoncerVainqueur, Actif, varsMessages
  <2> QED BY <2>1, NettoyagePas
<1>3. CASE FinirAbandon(t)
  <2>1. Actif(t) /\ DebutNettoyage(t, TRUE)
        /\ UNCHANGED <<varsTables, threads_partie, parties, semParties, principal, compteurs>>
    BY <1>3 DEF FinirAbandon, Actif, varsMessages, varsClients
  <2> QED BY <2>1, NettoyagePas
<1>4. CASE Annulation(t)
  <2>1. UNCHANGED <<varsTables, threads_partie, parties, semParties, principal, compteurs>>
    BY <1>4 DEF Annulation, varsMessages, varsClients
  <2>2. CASE Actif(t) /\ DebutNettoyage(t, FALSE)
    BY <2>1, <2>2, NettoyagePas
  <2>3. CASE /\ PointAnnulation(t) /\ thread' = [thread EXCEPT ![t] = Repos("mort")]
             /\ UNCHANGED threadsLibres
    <3>1. ~Actif(t)
      BY <2>3 DEF PointAnnulation, AuTour, Actif
    <3> QED BY <2>1, <2>3, <3>1, MortPas DEF varsParties
  <2> QED BY <1>4, <2>2, <2>3 DEF Annulation
<1>5. CASE FinThread(t)
  <2>1. ~Actif(t) /\ thread' = [thread EXCEPT ![t] = Repos("mort")]
        /\ UNCHANGED <<varsTables, varsParties, semParties, principal, compteurs>>
    BY <1>5 DEF FinThread, Actif, varsMessages, varsClients
  <2> QED BY <2>1, MortPas
<1>6. CASE EtapesNettoyage(t)
  BY <1>6, NettoyerPas
<1> QED BY <1>1, <1>2, <1>3, <1>4, <1>5, <1>6 DEF AvancerThread, EtapesNettoyage

\* A client that connects: a new entry after the others.
LEMMA ConnecterPas ==
  ASSUME IInv, NEW c \in Clients, Connecter(c)
  PROVE  IInv'
<1> DEFINE e == [sock |-> c, etat |-> 0]
<1>1. clients \in Seq(EntreesClients) /\ nbClients \in Nat /\ e \in EntreesClients
  BY ClientsType DEF IInv, EntreesClients
<1>2. clients' = Append(clients, e)
      /\ UNCHANGED <<clientsInGame, observateurs, varsParties, semParties, thread, principal, compteurs>>
  BY DEF Connecter, varsMessages
<1>3. /\ clients' \in Seq(EntreesClients)
      /\ nbClients' = nbClients + 1
      /\ \A k \in 1..nbClients : clients'[k] = clients[k]
      /\ clients'[nbClients + 1] = e
  BY <1>1, <1>2, AppendProperties DEF nbClients
<1>4. nbClients + 1 <= MaxClients
  BY PlaceLibre DEF IInv, Connecter
<1>5. Types'
  <2>1. clients' \in Seq(EntreesClients) /\ nbClients' <= MaxClients
    BY <1>3, <1>4
  <2>2. UNCHANGED <<clientsInGame, observateurs, threadsLibres, threads_partie, parties,
                    semParties, thread, principal, compteurs>>
    BY <1>2 DEF varsParties
  <2> QED BY <2>1, <2>2 DEF IInv, Types, TypeInvariant, EntreesClients
<1>6. SocketsDistincts'
  <2>1. \A k \in 1..nbClients : clients[k].sock # c
    BY DEF Connecter, Connectes
  <2> QED BY <1>1, <1>3, <2>1 DEF IInv, SocketsDistincts
<1>7. Routage' /\ ThreadsEnRoute' /\ SlotsEnRoute' /\ AnnulableHorsNettoyage' /\ UnePartieParSlot'
  BY <1>2 DEF IInv, Routage, ThreadsEnRoute, SlotsEnRoute, AnnulableHorsNettoyage, UnePartieParSlot,
              Actif, EnNettoyage, varsParties
<1>8. PrincipalPlace' /\ JoinReveille'
  BY <1>2 DEF Connecter, PrincipalPlace, JoinReveille
<1>9. PlacesVierges'
  BY <1>1, <1>2, <1>3, MaxClientsType DEF IInv, Connecter, PlacesVierges, Remplis, Places
<1> QED BY <1>5, <1>6, <1>7, <1>8, <1>9 DEF IInv

\* The threads and the games stay as they are.
Inchanges == UNCHANGED <<varsParties, semParties, thread, compteurs>>

\* What is said of them holds on.
LEMMA InchangesPas ==
  ASSUME IInv, Inchanges
  PROVE  /\ ThreadsEnRoute' /\ SlotsEnRoute' /\ AnnulableHorsNettoyage' /\ UnePartieParSlot'
         /\ threads_partie' = threads_partie
BY DEF IInv, Inchanges, ThreadsEnRoute, SlotsEnRoute, AnnulableHorsNettoyage, UnePartieParSlot,
       Actif, EnNettoyage, varsParties

\* The types, from those of the three arrays.
LEMMA InchangesTypes ==
  ASSUME IInv, Inchanges,
         clients' \in Seq(EntreesClients), nbClients' <= MaxClients,
         clientsInGame' \in [Places -> Slots \cup {Aucun}],
         observateurs' \in [Slots -> SUBSET Places],
         EstPrincipal(principal')
  PROVE  Types'
<1>1. UNCHANGED <<threadsLibres, threads_partie, parties, semParties, thread, compteurs>>
  BY DEF Inchanges, varsParties
<1>2. principal'.pc \in EtatsPrincipal
  BY DEF EstPrincipal
<1> QED BY <1>1, <1>2 DEF IInv, Types, TypeInvariant, EntreesClients

\* The types of the arrays of the places.
LEMMA TablesType ==
  ASSUME IInv
  PROVE  /\ clientsInGame \in [Places -> Slots \cup {Aucun}]
         /\ observateurs \in [Slots -> SUBSET Places]
         /\ nbClients \in Nat /\ nbClients <= MaxClients /\ MaxClients \in Nat
         /\ 1..nbClients \subseteq Places /\ Places = 1..MaxClients
         /\ clients \in Seq(EntreesClients)
         /\ EstPrincipal(principal)
BY ClientsType, MaxClientsType DEF IInv, Types, TypeInvariant, Places

\* remove_client: those after place i move down one place in clients[] only.
LEMMA RetirerPas ==
  ASSUME IInv, NEW i \in 1..nbClients, Retirer(i), Inchanges,
         UNCHANGED <<clientsInGame, observateurs>>,
         principal.pc \notin {"jeux", "vues"}
  PROVE  IInv'
<1>1. /\ nbClients \in Nat /\ nbClients <= MaxClients /\ 1..nbClients \subseteq Places
      /\ MaxClients \in Nat /\ Places = 1..MaxClients
  BY TablesType
<1>2. /\ clients' \in Seq(EntreesClients)
      /\ nbClients' = nbClients - 1
      /\ \A k \in 1 .. nbClients - 1 :
           clients'[k] = IF k < i THEN clients[k] ELSE clients[k + 1]
  BY SansType DEF IInv, Retirer, Sans, nbClients
<1>3. principal' = [Select EXCEPT !.pc = "jeux", !.i = i]
  BY DEF Retirer
<1>4. EstPrincipal(principal')
  BY <1>1, <1>3 DEF EstPrincipal, EtatsPrincipal, Select
<1>5. Types'
  BY <1>1, <1>2, <1>4, TablesType, InchangesTypes
<1>6. SocketsDistincts'
  <2> SUFFICES ASSUME NEW j \in 1 .. nbClients - 1, NEW k \in 1 .. nbClients - 1,
                      clients'[j].sock = clients'[k].sock
               PROVE  j = k
    BY <1>2 DEF SocketsDistincts
  <2> DEFINE av(x) == IF x < i THEN x ELSE x + 1
  <2>1. av(j) \in 1..nbClients /\ av(k) \in 1..nbClients
    BY <1>1
  <2>2. clients[av(j)].sock = clients[av(k)].sock
    BY <1>2
  <2>3. av(j) = av(k)
    BY <2>1, <2>2 DEF IInv, SocketsDistincts
  <2> QED BY <2>3
<1>7. Routage'
  BY InchangesPas DEF IInv, Routage
<1>8. PrincipalPlace' /\ JoinReveille'
  BY <1>1, <1>2, <1>3 DEF PrincipalPlace, JoinReveille
<1>9. PlacesVierges'
  <2>1. /\ Remplis({"jeux"}) = nbClients /\ Remplis({"jeux", "vues"}) = nbClients
        /\ Remplis({"jeux"})' = nbClients /\ Remplis({"jeux", "vues"})' = nbClients
    BY <1>1, <1>2, <1>3 DEF Remplis
  <2> QED BY <2>1 DEF IInv, PlacesVierges
<1> QED BY <1>5, <1>6, <1>7, <1>8, <1>9, InchangesPas DEF IInv

\* clientsInGame is shifted.
LEMMA DecalerJeuxPas ==
  ASSUME IInv, DecalerJeux
  PROVE  IInv'
<1> DEFINE i == principal.i
<1>1. /\ nbClients \in Nat /\ MaxClients \in Nat /\ Places = 1..MaxClients
      /\ clientsInGame \in [Places -> Slots \cup {Aucun}]
  BY TablesType
<1>2. i \in 1 .. nbClients + 1 /\ nbClients + 1 <= MaxClients
  BY DEF IInv, PrincipalPlace, DecalerJeux
<1>3. /\ principal.pc = "jeux" /\ principal' = [principal EXCEPT !.pc = "vues"]
      /\ Inchanges /\ UNCHANGED <<clients, observateurs>>
      /\ clientsInGame' = JeuxDecales(i)
  BY DEF DecalerJeux, Inchanges, varsMessages, varsClients
<1>4. EstPrincipal(principal') /\ principal'.pc = "vues" /\ principal'.i = i
  BY <1>3, TablesType DEF EstPrincipal, EtatsPrincipal
<1> HIDE DEF i
<1>5. /\ clientsInGame' \in [Places -> Slots \cup {Aucun}]
      /\ \A k \in Places :
           clientsInGame'[k] = IF k < i THEN clientsInGame[k]
                               ELSE IF k < MaxClients THEN clientsInGame[k + 1]
                               ELSE Aucun
  BY <1>1, <1>2, <1>3 DEF JeuxDecales
<1>6. nbClients' = nbClients
  BY <1>3 DEF nbClients
<1>7. Types'
  BY <1>3, <1>4, <1>5, <1>6, TablesType, InchangesTypes
<1>8. SocketsDistincts'
  BY <1>3, <1>6 DEF IInv, SocketsDistincts
<1>9. Routage'
  <2>1. ASSUME NEW k \in Places, clientsInGame'[k] # Aucun
        PROVE  \E j \in Places : clientsInGame'[k] = clientsInGame[j]
    BY <1>1, <1>5, <2>1
  <2> QED BY <1>3, <2>1, InchangesPas DEF IInv, Routage
<1>10. PrincipalPlace' /\ JoinReveille'
  BY <1>2, <1>4, <1>6 DEF PrincipalPlace, JoinReveille
<1>11. PlacesVierges'
  <2>1. /\ Remplis({"jeux"}) = nbClients + 1 /\ Remplis({"jeux", "vues"}) = nbClients + 1
        /\ Remplis({"jeux"})' = nbClients /\ Remplis({"jeux", "vues"})' = nbClients + 1
    BY <1>3, <1>4, <1>6 DEF Remplis
  <2>2. ASSUME NEW k \in Places, k > nbClients
        PROVE  clientsInGame'[k] = Aucun
    BY <1>1, <1>2, <1>5, <2>1, <2>2 DEF IInv, PlacesVierges
  <2> QED BY <1>3, <2>1, <2>2 DEF IInv, PlacesVierges
<1> QED BY <1>3, <1>7, <1>8, <1>9, <1>10, <1>11, InchangesPas DEF IInv

\* The rows of observateurs are shifted.
LEMMA DecalerVuesPas ==
  ASSUME IInv, DecalerVues
  PROVE  IInv'
<1> DEFINE i == principal.i
<1>1. /\ nbClients \in Nat /\ MaxClients \in Nat /\ Places = 1..MaxClients
      /\ observateurs \in [Slots -> SUBSET Places]
  BY TablesType
<1>2. i \in 1 .. nbClients + 1 /\ nbClients + 1 <= MaxClients
  BY DEF IInv, PrincipalPlace, DecalerVues
<1>3. /\ principal.pc = "vues" /\ principal' = Select
      /\ Inchanges /\ UNCHANGED <<clients, clientsInGame>>
      /\ observateurs' = [s \in Slots |-> Decaler(observateurs[s], i)]
  BY DEF DecalerVues, Inchanges, varsMessages, varsClients
<1>4. EstPrincipal(principal') /\ principal'.pc = "select"
  BY <1>3 DEF EstPrincipal, EtatsPrincipal, Select
<1> HIDE DEF i
<1>5. observateurs' \in [Slots -> SUBSET Places]
      /\ \A s \in Slots, k \in Places :
           k \in observateurs'[s] <=> \/ k < i /\ k \in observateurs[s]
                                      \/ k >= i /\ k + 1 \in observateurs[s]
  BY <1>1, <1>2, <1>3 DEF Decaler
<1>6. nbClients' = nbClients
  BY <1>3 DEF nbClients
<1>7. Types'
  BY <1>3, <1>4, <1>5, <1>6, TablesType, InchangesTypes
<1>8. SocketsDistincts' /\ Routage'
  BY <1>3, <1>6, InchangesPas DEF IInv, SocketsDistincts, Routage
<1>9. PrincipalPlace' /\ JoinReveille'
  BY <1>4 DEF PrincipalPlace, JoinReveille
<1>10. PlacesVierges'
  <2>1. /\ Remplis({"jeux"}) = nbClients /\ Remplis({"jeux", "vues"}) = nbClients + 1
        /\ Remplis({"jeux"})' = nbClients /\ Remplis({"jeux", "vues"})' = nbClients
    BY <1>3, <1>4, <1>6 DEF Remplis
  <2>2. ASSUME NEW k \in Places, k > nbClients, NEW s \in Slots
        PROVE  k \notin observateurs'[s]
    <3>1. ASSUME NEW j \in Places, j > nbClients + 1
          PROVE  j \notin observateurs[s]
      BY <2>1, <3>1 DEF IInv, PlacesVierges
    <3>2. k + 1 \notin observateurs[s]
      BY <1>1, <2>2, <3>1
    <3>3. k >= i
      BY <1>1, <1>2, <2>2
    <3> QED BY <1>1, <1>2, <1>5, <3>2, <3>3
  <2> QED BY <1>3, <2>1, <2>2 DEF IInv, PlacesVierges
<1> QED BY <1>3, <1>7, <1>8, <1>9, <1>10, InchangesPas DEF IInv

\* The departure of a client in a game: its adversary is told.
LEMMA QuitterEnJeuPas ==
  ASSUME IInv, NEW i \in Places, QuitterEnJeu(i)
  PROVE  IInv'
<1> DEFINE t == threads_partie[clientsInGame[i]]
<1>1. i \in 1..nbClients /\ clientsInGame[i] # Aucun /\ principal.pc = "select"
  BY DEF QuitterEnJeu, Pret
<1>2. t \in Threads /\ thread[t].pc # "neuf"
  <2>1. clientsInGame[i] \in Slots
    BY <1>1, TablesType
  <2> QED BY <1>1, <2>1, ServeurAssumption DEF IInv, Routage, SlotsEnRoute, Threads, Aucun
<1>3. Inchanges /\ UNCHANGED varsTables /\ principal' = [Select EXCEPT !.pc = "annuler", !.i = i, !.t = t]
  BY DEF QuitterEnJeu, Inchanges, varsMessages
<1> HIDE DEF t
<1>4. EstPrincipal(principal') /\ principal'.pc = "annuler" /\ principal'.i = i
      /\ principal'.t = t /\ thread' = thread
  BY <1>1, <1>2, <1>3, TablesType DEF EstPrincipal, EtatsPrincipal, Select, Inchanges
<1>5. nbClients' = nbClients
  BY <1>3 DEF varsTables, nbClients
<1>6. Types'
  BY <1>3, <1>4, <1>5, TablesType, InchangesTypes DEF varsTables
<1>7. SocketsDistincts' /\ Routage'
  BY <1>3, <1>5, InchangesPas DEF IInv, SocketsDistincts, Routage, varsTables
<1>8. PrincipalPlace' /\ JoinReveille'
  BY <1>1, <1>2, <1>4, <1>5 DEF PrincipalPlace, JoinReveille
<1>9. PlacesVierges'
  BY <1>1, <1>3, <1>4, <1>5 DEF IInv, PlacesVierges, Remplis, varsTables
<1> QED BY <1>3, <1>6, <1>7, <1>8, <1>9, InchangesPas DEF IInv

\* Its thread is cancelled, and joined from then on.
LEMMA AnnulerPas ==
  ASSUME IInv, Annuler
  PROVE  IInv'
<1> DEFINE t == principal.t
           r == [thread[t] EXCEPT !.annule = thread[t].annulable /\ thread[t].pc # "mort"]
<1>1. principal.pc = "annuler" /\ principal.i \in 1..nbClients
      /\ t \in Threads /\ thread[t].pc # "neuf"
  BY DEF IInv, PrincipalPlace, Annuler
<1>3. UNCHANGED <<varsTables, varsParties, semParties, compteurs>>
  BY DEF Annuler, varsMessages, varsClients
<1>4. nbClients' = nbClients
  BY <1>3 DEF varsTables, nbClients
<1>5. thread \in [Threads -> ThreadType]
  BY DEF IInv, Types, TypeInvariant, ThreadType
<1>6. /\ thread' = [thread EXCEPT ![t] = r]
      /\ EstPrincipal(principal') /\ principal'.pc = "join"
      /\ principal'.i = principal.i /\ principal'.t = t
  BY <1>1, <1>5, TablesType DEF Annuler, EstPrincipal, EtatsPrincipal
<1>7. /\ r \in ThreadType /\ r.pc = thread[t].pc /\ r.slot = thread[t].slot
      /\ r.annulable = thread[t].annulable
      /\ r.annule \/ r.pc = "mort" \/ ~r.annulable
  <2> DEFINE b == thread[t].annulable /\ thread[t].pc # "mort"
             q == [thread[t] EXCEPT !.annule = b]
  <2>1. b \in BOOLEAN
    OBVIOUS
  <2>2. thread[t] \in ThreadType
    BY <1>1, <1>5
  <2>3. r = q
    OBVIOUS
  <2>4. b \/ thread[t].pc = "mort" \/ ~thread[t].annulable
    OBVIOUS
  <2> HIDE DEF b
  <2>5. /\ q \in ThreadType /\ q.pc = thread[t].pc /\ q.slot = thread[t].slot
        /\ q.annulable = thread[t].annulable /\ q.annule = b
    BY <2>1, <2>2 DEF ThreadType
  <2> HIDE DEF q, r
  <2> QED BY <2>3, <2>4, <2>5
<1> HIDE DEF r, t
<1>8. thread' \in [Threads -> ThreadType]
  BY <1>1, <1>5, <1>6, <1>7
<1>9. \A u \in Threads : /\ thread'[u].pc = thread[u].pc
                         /\ thread'[u].slot = thread[u].slot
                         /\ thread'[u].annulable = thread[u].annulable
  BY <1>1, <1>5, <1>6, <1>7
<1>10. \A u \in Threads : (Actif(u)' <=> Actif(u)) /\ (EnNettoyage(u)' <=> EnNettoyage(u))
  BY <1>9 DEF Actif, EnNettoyage
<1>11. \A s \in Slots : threads_partie[s] # Aucun => threads_partie[s] \in Threads
  BY DEF IInv, Types, TypeInvariant
<1> USE <1>3 DEF varsTables, varsParties
<1>12. Types'
  <2>1. clients' \in Seq(EntreesClients) /\ nbClients' <= MaxClients
    BY <1>4, TablesType
  <2>2. /\ clientsInGame' \in [Places -> Slots \cup {Aucun}]
        /\ observateurs' \in [Slots -> SUBSET Places]
        /\ threadsLibres' \subseteq Slots
        /\ threads_partie' \in [Slots -> Threads \cup {Aucun}]
        /\ semParties' \in [Slots -> Nat]
        /\ parties' \in [Slots -> {PartieVide} \cup Games]
        /\ compteurs' \in [defis : 0..MaxDefis, listes : 0..MaxListes, departs : 0..MaxDeparts]
    BY DEF IInv, Types, TypeInvariant
  <2>3. \A s \in Slots : parties'[s] = PartieVide \/ parties'[s] \in Games
    BY <2>2
  <2>4. principal'.pc \in EtatsPrincipal
    BY <1>6 DEF EtatsPrincipal
  <2> QED BY <1>6, <1>8, <2>1, <2>2, <2>3, <2>4
          DEF Types, TypeInvariant, ThreadType, EntreesClients, Games
<1>13. SocketsDistincts' /\ Routage'
  BY <1>4 DEF IInv, SocketsDistincts, Routage
<1>18. PlacesVierges'
  BY <1>1, <1>4, <1>6 DEF IInv, PlacesVierges, Remplis
<1>14. PrincipalPlace'
  BY <1>1, <1>4, <1>6, <1>9 DEF PrincipalPlace
<1>15. ThreadsEnRoute' /\ SlotsEnRoute' /\ AnnulableHorsNettoyage'
  BY <1>9, <1>10, <1>11 DEF IInv, ThreadsEnRoute, SlotsEnRoute, AnnulableHorsNettoyage
<1>16. UnePartieParSlot'
  <2>1. \A s \in Slots \ threadsLibres : threads_partie[s] \in Threads
    BY <1>11 DEF IInv, UnePartieParSlot
  <2> QED BY <1>9, <1>10, <2>1 DEF IInv, UnePartieParSlot
<1>17. JoinReveille'
  <2>1. thread'[t] = r
    BY <1>1, <1>5, <1>6
  <2>2. ~r.annulable => EnNettoyage(t)
    BY <1>1, <1>7 DEF IInv, AnnulableHorsNettoyage
  <2>3. principal'.t = t /\ thread'[t].pc = thread[t].pc
    BY <1>1, <1>6, <1>9
  <2> QED BY <1>6, <1>7, <2>1, <2>2, <2>3 DEF JoinReveille, EnNettoyage
<1> QED BY <1>12, <1>13, <1>14, <1>15, <1>16, <1>17, <1>18 DEF IInv

\* A message passed on to another client changes states, not places.
LEMMA TransmettreType ==
  ASSUME IInv, NEW i \in Places, NEW type, NEW etat \in 0..3, Transmettre(i, type, etat)
  PROVE  i \in 1..nbClients /\ MemesSockets
<1> DEFINE f == FixerEtat(i, etat)
           cible == Lu(i).cible
           p == Place(cible)
<1>1. i \in 1..nbClients
  BY DEF Transmettre, Recu, Pret
<1>2. /\ f \in Seq(EntreesClients) /\ Len(f) = nbClients
      /\ \A k \in 1..nbClients : f[k].sock = clients[k].sock
  BY <1>1, FixerEtatType DEF IInv
<1>3. CASE cible \notin Connectes
  BY <1>1, <1>2, <1>3 DEF Transmettre, MemesSockets
<1>4. CASE cible \in Connectes
  <2>1. p \in 1..nbClients
    BY <1>4, PlaceType
  <2>2. clients' = [f EXCEPT ![p].etat = etat]
    BY <1>4 DEF Transmettre
  <2> HIDE DEF f, cible, p
  <2>3. f \in [1..nbClients -> EntreesClients]
    BY <1>2, LenProperties
  <2>4. [f[p] EXCEPT !.etat = etat] \in EntreesClients
        /\ [f[p] EXCEPT !.etat = etat].sock = f[p].sock
    BY <2>1, <2>3 DEF EntreesClients
  <2>5. clients' = [f EXCEPT ![p] = [f[p] EXCEPT !.etat = etat]]
    BY <2>1, <2>2, <2>3
  <2> QED BY <1>1, <1>2, <2>1, <2>3, <2>4, <2>5, ExceptSeq DEF MemesSockets
<1> QED BY <1>3, <1>4

\* A new game in slot s, played by thread t, for the clients at places k and i.
NouvellePartie(i, k, s, t, j1, j2) ==
  /\ principal' = Select
  /\ principal.pc = "demarrer"
  /\ thread[t].pc = "neuf"
  /\ clientsInGame' = [clientsInGame EXCEPT ![k] = s, ![i] = s]
  /\ parties' = [parties EXCEPT ![s] = [j1 |-> j1, j2 |-> j2, nbCoups |-> 0]]
  /\ thread' = [thread EXCEPT ![t] =
                   [Repos("tour") EXCEPT !.slot = s, !.j1 = j1, !.j2 = j2]]
  /\ threads_partie' = [threads_partie EXCEPT ![s] = t]
  /\ threadsLibres' = threadsLibres \ {s}
  /\ UNCHANGED <<observateurs, semParties, compteurs>>

\* It keeps the invariant.
LEMMA NouvellePartiePas ==
  ASSUME IInv, MemesSockets,
         NEW i \in 1..nbClients, NEW k \in 1..nbClients,
         NEW s \in threadsLibres, NEW t \in Threads,
         NEW j1 \in Clients, NEW j2 \in Clients,
         NouvellePartie(i, k, s, t, j1, j2)
  PROVE  IInv'
<1> USE DEF NouvellePartie
<1> DEFINE r == [Repos("tour") EXCEPT !.slot = s, !.j1 = j1, !.j2 = j2]
           g == [j1 |-> j1, j2 |-> j2, nbCoups |-> 0]
<1>1. nbClients' = nbClients /\ SocketsDistincts'
  BY MemesSocketsPas DEF IInv
<1>2. /\ thread \in [Threads -> ThreadType] /\ s \in Slots
      /\ threadsLibres \subseteq Slots
      /\ clientsInGame \in [Places -> Slots \cup {Aucun}]
      /\ threads_partie \in [Slots -> Threads \cup {Aucun}]
      /\ parties \in [Slots -> {PartieVide} \cup Games]
  BY DEF IInv, Types, TypeInvariant, ThreadType
<1>3. Aucun \notin Slots /\ Aucun \notin Threads /\ i \in Places /\ k \in Places
  BY ServeurAssumption, ClientsType DEF IInv, Aucun, Slots, Threads
<1>4. /\ r \in ThreadType /\ r.pc = "tour" /\ r.slot = s /\ ~r.annule /\ r.annulable
  <2> DEFINE z == Repos("tour")
  <2>1. z \in ThreadType /\ z.pc = "tour" /\ ~z.annule /\ z.annulable
    BY DEF Repos, ThreadType, EtatsThread, IterMax
  <2>2. r = [z EXCEPT !.slot = s, !.j1 = j1, !.j2 = j2]
    OBVIOUS
  <2> HIDE DEF r, z
  <2> QED BY <1>2, <2>1, <2>2 DEF ThreadType
<1>5. thread' = [thread EXCEPT ![t] = r] /\ parties' = [parties EXCEPT ![s] = g]
  OBVIOUS
<1>6. g \in Games
  BY DEF Games
<1> HIDE DEF r, g
<1>7. thread' \in [Threads -> ThreadType] /\ thread'[t] = r
      /\ \A u \in Threads : u # t => thread'[u] = thread[u]
  BY <1>2, <1>4, <1>5
<1>8. parties' \in [Slots -> {PartieVide} \cup Games] /\ parties'[s] \in Games
      /\ \A x \in Slots : parties[x] \in Games => parties'[x] \in Games
  BY <1>2, <1>5, <1>6
<1>9. threads_partie' \in [Slots -> Threads \cup {Aucun}] /\ threads_partie'[s] = t
      /\ \A x \in Slots : x # s => threads_partie'[x] = threads_partie[x]
  BY <1>2
<1>10. Actif(t)' /\ ~Actif(t) /\ ~EnNettoyage(t)' /\ ~EnNettoyage(t)
  BY <1>4, <1>7 DEF Actif, EnNettoyage
<1>11. \A u \in Threads : u # t => (Actif(u)' <=> Actif(u)) /\ (EnNettoyage(u)' <=> EnNettoyage(u))
  BY <1>7 DEF Actif, EnNettoyage
<1>12. \A x \in Slots : threads_partie[x] # t
  BY <1>3 DEF IInv, SlotsEnRoute
<1>13. Types'
  <2>1. clients' \in Seq(EntreesClients) /\ nbClients' <= MaxClients
    BY <1>1, ClientsType DEF IInv, MemesSockets
  <2>2. /\ observateurs' \in [Slots -> SUBSET Places]
        /\ threadsLibres' \subseteq Slots
        /\ semParties' \in [Slots -> Nat]
        /\ EstPrincipal(principal')
        /\ principal'.pc \in EtatsPrincipal
        /\ compteurs' \in [defis : 0..MaxDefis, listes : 0..MaxListes, departs : 0..MaxDeparts]
    BY DEF IInv, Types, TypeInvariant, EstPrincipal, EtatsPrincipal, Select
  <2>3. \A x \in Slots : parties'[x] = PartieVide \/ parties'[x] \in Games
    BY <1>8
  <2>4. clientsInGame' \in [Places -> Slots \cup {Aucun}]
    BY <1>2
  <2> QED BY <1>7, <1>8, <1>9, <2>1, <2>2, <2>3, <2>4
          DEF Types, TypeInvariant, ThreadType, EntreesClients, Games
<1>14. Routage'
  <2> SUFFICES ASSUME NEW x \in Places, clientsInGame'[x] # Aucun
               PROVE  threads_partie'[clientsInGame'[x]] \in Threads
    BY DEF Routage
  <2>1. clientsInGame'[x] = s \/ clientsInGame'[x] = clientsInGame[x]
    BY <1>2
  <2> QED BY <1>2, <1>9, <2>1 DEF IInv, Routage
<1>15. ThreadsEnRoute'
  <2> SUFFICES ASSUME NEW u \in Threads
               PROVE  /\ Actif(u)' \/ EnNettoyage(u)' => thread'[u].slot \in Slots
                      /\ Actif(u)' => parties'[thread'[u].slot] \in Games
    BY DEF ThreadsEnRoute
  <2>1. CASE u = t
    BY <1>2, <1>4, <1>7, <1>8, <2>1
  <2>2. CASE u # t
    BY <1>7, <1>8, <1>11, <2>2 DEF IInv, ThreadsEnRoute
  <2> QED BY <2>1, <2>2
<1>16. SlotsEnRoute'
  <2> SUFFICES ASSUME NEW x \in Slots, threads_partie'[x] # Aucun
               PROVE  /\ thread'[threads_partie'[x]].pc # "neuf"
                      /\ Actif(threads_partie[x])' => thread'[threads_partie'[x]].slot = x
    BY DEF SlotsEnRoute
  <2>1. CASE x = s
    BY <1>4, <1>7, <1>9, <2>1
  <2>2. CASE x # s
    <3>1. threads_partie'[x] = threads_partie[x] /\ threads_partie[x] \in Threads
          /\ threads_partie[x] # t
      BY <1>2, <1>9, <1>12, <2>2
    <3> QED BY <1>7, <1>11, <3>1 DEF IInv, SlotsEnRoute
  <2> QED BY <2>1, <2>2
<1>17. AnnulableHorsNettoyage'
  BY <1>4, <1>7, <1>11 DEF IInv, AnnulableHorsNettoyage
<1>18. PrincipalPlace' /\ JoinReveille'
  BY DEF PrincipalPlace, JoinReveille, Select
<1>19. UnePartieParSlot'
  <2>1. ASSUME NEW u \in Threads, Actif(u)'
        PROVE  thread'[u].slot \notin threadsLibres' /\ threads_partie'[thread'[u].slot] = u
    <3>1. CASE u = t
      BY <1>4, <1>7, <1>9, <3>1
    <3>2. CASE u # t
      <4>1. Actif(u) /\ thread'[u] = thread[u]
        BY <1>7, <1>11, <2>1, <3>2
      <4>2. thread[u].slot \in Slots /\ thread[u].slot # s
        BY <4>1 DEF IInv, UnePartieParSlot, ThreadsEnRoute
      <4> QED BY <1>9, <4>1, <4>2 DEF IInv, UnePartieParSlot
    <3> QED BY <3>1, <3>2
  <2>2. ASSUME NEW x \in Slots \ threadsLibres'
        PROVE  threads_partie'[x] # Aucun /\ Actif(threads_partie[x])'
    <3>1. CASE x = s
      BY <1>3, <1>9, <1>10, <3>1
    <3>2. CASE x # s
      <4>1. threads_partie[x] \in Threads /\ Actif(threads_partie[x]) /\ threads_partie[x] # t
        BY <1>2, <1>12, <2>2, <3>2 DEF IInv, UnePartieParSlot
      <4> QED BY <1>3, <1>9, <1>11, <3>2, <4>1
    <3> QED BY <3>1, <3>2
  <2> QED BY <2>1, <2>2 DEF UnePartieParSlot
<1>20. PlacesVierges'
  <2>1. \A x \in Places : x > nbClients => clientsInGame'[x] = clientsInGame[x]
    BY <1>2, ClientsType DEF IInv
  <2> QED BY <1>1, <2>1 DEF IInv, PlacesVierges, Remplis, Select
<1> QED BY <1>1, <1>13, <1>14, <1>15, <1>16, <1>17, <1>18, <1>19, <1>20 DEF IInv

\* An observer is added or removed: its state is set.
LEMMA ObservateursSockets ==
  ASSUME IInv, NEW i \in Places, AjouterObservateur(i) \/ RetirerObservateur(i)
  PROVE  i \in 1..nbClients /\ MemesSockets
<1>1. i \in 1..nbClients
  BY DEF AjouterObservateur, RetirerObservateur, Recu, Pret
<1>2. clients' = FixerEtat(i, 3) \/ clients' = FixerEtat(i, 0)
  BY DEF AjouterObservateur, RetirerObservateur
<1> QED BY <1>1, <1>2, FixerEtatType DEF IInv, MemesSockets

\* An observer is added or removed: its state, and one set of observers.
LEMMA ObservateursPas ==
  ASSUME IInv, NEW i \in Places, AjouterObservateur(i) \/ RetirerObservateur(i)
  PROVE  IInv'
<1>1. i \in 1..nbClients
  BY ObservateursSockets
<1>2. /\ thread \in [Threads -> ThreadType]
      /\ observateurs \in [Slots -> SUBSET Places]
      /\ clientsInGame \in [Places -> Slots \cup {Aucun}]
      /\ semParties \in [Slots -> Nat]
      /\ nbClients \in Nat
  BY ClientsType DEF IInv, Types, TypeInvariant, ThreadType
<1>3. UNCHANGED <<clientsInGame, varsParties, semParties, thread, compteurs>>
  BY DEF AjouterObservateur, RetirerObservateur, varsMessages
<1>4. MemesSockets
  BY ObservateursSockets
<1>5. \/ UNCHANGED principal
      \/ /\ principal.pc = "select" /\ EstPrincipal(principal') /\ principal'.pc = "plante"
  BY TablesType DEF AjouterObservateur, RetirerObservateur, Recu, Pret, EstPrincipal, EtatsPrincipal
<1>6. \/ UNCHANGED observateurs
      \/ \E S : observateurs' = [s \in Slots |->
                  IF s \in S THEN observateurs[s] \cup {i} ELSE observateurs[s]]
      \/ \E S : observateurs' = [s \in Slots |->
                  IF s \in S THEN observateurs[s] \ {i} ELSE observateurs[s]]
  BY DEF AjouterObservateur, RetirerObservateur
<1> DEFINE G == /\ observateurs' \in [Slots -> SUBSET Places]
                /\ \A s \in Slots, k \in Places :
                     k \in observateurs'[s] => k \in observateurs[s] \/ k <= nbClients
<1>7. G
  <2>1. i <= nbClients
    BY <1>1, <1>2
  <2>2. CASE UNCHANGED observateurs
    BY <1>2, <2>2
  <2>3. ASSUME NEW S, observateurs' = [s \in Slots |->
                        IF s \in S THEN observateurs[s] \cup {i} ELSE observateurs[s]]
        PROVE  G
    BY <1>2, <2>1, <2>3
  <2>4. ASSUME NEW S, observateurs' = [s \in Slots |->
                        IF s \in S THEN observateurs[s] \ {i} ELSE observateurs[s]]
        PROVE  G
    BY <1>2, <2>4
  <2> QED BY <1>6, <2>2, <2>3, <2>4
<1> QED BY <1>2, <1>3, <1>4, <1>5, <1>7, TablesPas

\* A challenge is accepted: the challenger is told.
LEMMA AccepterDefiPas ==
  ASSUME IInv, NEW i \in Places, AccepterDefi(i)
  PROVE  IInv'
<1>1. /\ Transmettre(i, "accord", 2)
      /\ UNCHANGED <<clientsInGame, observateurs, varsParties, semParties, thread, compteurs>>
      /\ principal' = [Select EXCEPT !.pc = "demarrer", !.i = i, !.defieur = Lu(i).cible]
  BY Zenon DEF AccepterDefi, varsMessages
<1>2. i \in 1..nbClients /\ MemesSockets /\ principal.pc = "select"
  <2>1. 2 \in 0..3
    OBVIOUS
  <2>2. i \in 1..nbClients /\ MemesSockets
    BY <1>1, <2>1, TransmettreType
  <2>3. Recu(i, "accord")
    BY <1>1, Zenon DEF Transmettre
  <2> QED BY <2>2, <2>3 DEF Recu, Pret
<1>3. /\ thread \in [Threads -> ThreadType]
      /\ observateurs \in [Slots -> SUBSET Places]
      /\ clientsInGame \in [Places -> Slots \cup {Aucun}]
      /\ semParties \in [Slots -> Nat]
  BY DEF IInv, Types, TypeInvariant, ThreadType
<1>4. EstPrincipal(principal') /\ principal'.pc = "demarrer" /\ principal'.i = i
  BY <1>1 DEF EstPrincipal, EtatsPrincipal, Select
<1> QED BY <1>1, <1>2, <1>3, <1>4, TablesPas

\* start_game: a game, nothing for want of a slot, or the end of the server
\* when the challenger has left.
LEMMA DemarrerPartiePas ==
  ASSUME IInv, DemarrerPartie
  PROVE  IInv'
<1> DEFINE i == principal.i
           j1 == principal.defieur
           j2 == clients[i].sock
<1>1. /\ principal.pc = "demarrer"
      /\ UNCHANGED <<clients, observateurs, semParties, compteurs>>
  BY Zenon DEF DemarrerPartie, varsMessages, varsClients
<1>2. i \in 1..nbClients /\ MemesSockets
  BY <1>1, MemesSocketsSiInchange DEF IInv, PrincipalPlace
<1>3. /\ thread \in [Threads -> ThreadType]
      /\ observateurs \in [Slots -> SUBSET Places]
      /\ clientsInGame \in [Places -> Slots \cup {Aucun}]
      /\ semParties \in [Slots -> Nat]
  BY DEF IInv, Types, TypeInvariant, ThreadType
<1>4. CASE /\ UNCHANGED <<clientsInGame, varsParties, thread>>
           /\ principal' = Select \/ principal' = [principal EXCEPT !.pc = "plante"]
  <2>1. EstPrincipal(principal') /\ principal'.pc \in {"select", "plante"}
    BY <1>4, TablesType DEF EstPrincipal, EtatsPrincipal, Select
  <2> QED BY <1>1, <1>2, <1>3, <1>4, <2>1, TablesPas
<1>5. CASE threadsLibres # {} /\ j1 \in Connectes
  <2>1. PICK s \in threadsLibres, t \in Threads :
          /\ thread[t].pc = "neuf"
          /\ clientsInGame' = [clientsInGame EXCEPT ![Place(j1)] = s, ![i] = s]
          /\ parties' = [parties EXCEPT ![s] = [j1 |-> j1, j2 |-> j2, nbCoups |-> 0]]
          /\ thread' = [thread EXCEPT ![t] =
                          [Repos("tour") EXCEPT !.slot = s, !.j1 = j1, !.j2 = j2]]
          /\ threads_partie' = [threads_partie EXCEPT ![s] = t]
          /\ threadsLibres' = threadsLibres \ {s}
    BY <1>5, Zenon DEF DemarrerPartie
  <2>2. Place(j1) \in 1..nbClients /\ clients[Place(j1)].sock = j1
    BY <1>5, PlaceType
  <2>3. j1 \in Clients /\ j2 \in Clients
    BY <1>2, <2>2, ClientsType DEF IInv, EntreesClients
  <2>5. principal' = Select
    BY <1>5, Zenon DEF DemarrerPartie
  <2>4. NouvellePartie(i, Place(j1), s, t, j1, j2)
    BY <1>1, <2>1, <2>5, Zenon DEF NouvellePartie
  <2> HIDE DEF i, j1, j2
  <2> QED BY <1>2, <2>2, <2>3, <2>4, NouvellePartiePas
<1>6. \/ /\ UNCHANGED <<clientsInGame, varsParties, thread>>
         /\ principal' = Select \/ principal' = [principal EXCEPT !.pc = "plante"]
      \/ threadsLibres # {} /\ j1 \in Connectes
  BY Zenon DEF DemarrerPartie
<1> QED BY <1>4, <1>5, <1>6

\* What is left of a handler once it has waited or sent.
LEMMA PoursuivrePas ==
  ASSUME IInv, Poursuivre
  PROVE  IInv'
<1>1. CASE Joindre
  <2>1. /\ principal.i \in 1..nbClients /\ Retirer(principal.i) /\ principal.pc = "join"
        /\ Inchanges /\ UNCHANGED <<clientsInGame, observateurs>>
    BY <1>1 DEF IInv, PrincipalPlace, Joindre, Inchanges, varsMessages, varsClients
  <2> QED BY <2>1, RetirerPas
<1> QED BY <1>1, DecalerJeuxPas, DecalerVuesPas, AnnulerPas, DemarrerPartiePas DEF Poursuivre

\* Every handler of the select loop.
LEMMA ServirPas ==
  ASSUME IInv, NEW i \in Places, Servir(i)
  PROVE  IInv'
<1>1. compteurs \in [defis : 0..MaxDefis, listes : 0..MaxListes, departs : 0..MaxDeparts]
      /\ thread \in [Threads -> ThreadType]
      /\ observateurs \in [Slots -> SUBSET Places]
      /\ clientsInGame \in [Places -> Slots \cup {Aucun}]
      /\ semParties \in [Slots -> Nat]
  BY DEF IInv, Types, TypeInvariant, ThreadType
<1>2. CASE IgnorerReponse(i) \/ EnvoyerListe(i)
  <2>1. UNCHANGED <<varsTables, varsParties, semParties, thread, principal, compteurs>>
    BY <1>2 DEF IgnorerReponse, EnvoyerListe, varsMessages
  <2> QED BY <1>1, <2>1, StablePas
<1>3. CASE QuitterHorsJeu(i)
  <2>1. /\ i \in 1..nbClients /\ Retirer(i) /\ principal.pc = "select"
        /\ Inchanges /\ UNCHANGED <<clientsInGame, observateurs>>
    BY <1>3 DEF QuitterHorsJeu, Recu, Pret, Inchanges, varsMessages
  <2> QED BY <2>1, RetirerPas
<1>4. CASE QuitterEnJeu(i)
  BY <1>4, QuitterEnJeuPas
<1>5. CASE TransmettreAuJeu(i)
  <2>1. clientsInGame[i] \in Slots
    BY <1>1, <1>5 DEF TransmettreAuJeu
  <2>2. semParties' \in [Slots -> Nat]
    BY <1>1, <1>5, <2>1 DEF TransmettreAuJeu
  <2>3. UNCHANGED <<varsTables, varsParties, thread, principal, compteurs>>
    BY <1>5 DEF TransmettreAuJeu
  <2>4. MemesSockets /\ UNCHANGED <<clientsInGame, observateurs>>
    BY <2>3, MemesSocketsSiInchange DEF IInv, varsTables
  <2> QED BY <1>1, <2>2, <2>3, <2>4, TablesPas
<1>6. CASE TransmettreDefi(i) \/ RefuserDefi(i)
  <2>1. /\ Transmettre(i, "defi", 1) \/ Transmettre(i, "refus", 0)
        /\ UNCHANGED <<clientsInGame, observateurs, varsParties, semParties, thread, principal,
                       compteurs>>
    BY <1>6 DEF TransmettreDefi, RefuserDefi, varsMessages
  <2>2. MemesSockets
    BY <2>1, TransmettreType
  <2> QED BY <1>1, <2>1, <2>2, TablesPas
<1>7. CASE AccepterDefi(i)
  BY <1>7, AccepterDefiPas
<1>8. CASE AjouterObservateur(i) \/ RetirerObservateur(i)
  BY <1>8, ObservateursPas
<1> QED BY <1>2, <1>3, <1>4, <1>5, <1>6, <1>7, <1>8 DEF Servir

-----------------------------------------------------------------------------
(* The invariant, and what it gives. *)

\* The empty server.
LEMMA InitInvariant ==
  ASSUME Init
  PROVE  IInv
<1>1. nbClients = 0 /\ clients \in Seq(EntreesClients)
  BY DEF Init, nbClients
<1>2. MaxClients \in Nat /\ Aucun \notin Slots
  BY MaxClientsType, ServeurAssumption DEF Slots, Aucun
<1>3. Types
  <2>1. /\ clients \in Seq(EntreesClients) /\ nbClients <= MaxClients
        /\ clientsInGame \in [Places -> Slots \cup {Aucun}]
        /\ observateurs \in [Slots -> SUBSET Places]
        /\ threadsLibres \subseteq Slots
        /\ threads_partie \in [Slots -> Threads \cup {Aucun}]
        /\ semParties \in [Slots -> Nat]
        /\ parties \in [Slots -> {PartieVide} \cup Games]
        /\ \A s \in Slots : parties[s] = PartieVide \/ parties[s] \in Games
    BY <1>1, <1>2 DEF Init
  <2>2. thread \in [Threads -> ThreadType]
    <3>1. Repos("neuf") \in ThreadType
      BY DEF Repos, ThreadType, EtatsThread, IterMax
    <3> QED BY <3>1 DEF Init
  <2>3. EstPrincipal(principal)
        /\ principal.pc \in EtatsPrincipal
    BY DEF Init, Select, EstPrincipal, EtatsPrincipal
  <2>4. compteurs \in [defis : 0..MaxDefis, listes : 0..MaxListes, departs : 0..MaxDeparts]
    BY ServeurAssumption DEF Init
  <2> QED BY <2>1, <2>2, <2>3, <2>4 DEF Types, TypeInvariant, ThreadType, EntreesClients, Games
<1>4. \A t \in Threads : ~Actif(t) /\ ~EnNettoyage(t) /\ thread[t].annulable
  BY DEF Init, Actif, EnNettoyage, Repos
<1>5. SocketsDistincts
  BY <1>1 DEF SocketsDistincts
<1>6. Routage /\ SlotsEnRoute /\ PlacesVierges
  BY DEF Init, Routage, SlotsEnRoute, PlacesVierges
<1>7. ThreadsEnRoute /\ AnnulableHorsNettoyage /\ UnePartieParSlot
  BY <1>4 DEF Init, ThreadsEnRoute, AnnulableHorsNettoyage, UnePartieParSlot
<1>8. PrincipalPlace /\ JoinReveille
  BY DEF Init, Select, PrincipalPlace, JoinReveille
<1> QED BY <1>3, <1>5, <1>6, <1>7, <1>8 DEF IInv

\* Every step of the server, of its threads and of the clients.
LEMMA NextInvariant ==
  ASSUME IInv, [Next]_vars
  PROVE  IInv'
<1>1. CASE UNCHANGED vars
  <2>1. UNCHANGED <<varsTables, varsParties, semParties, thread, principal, compteurs>>
    BY <1>1 DEF vars, varsServeur, varsMessages, varsClients
  <2>2. compteurs \in [defis : 0..MaxDefis, listes : 0..MaxListes, departs : 0..MaxDeparts]
    BY DEF IInv, Types, TypeInvariant
  <2> QED BY <2>1, <2>2, StablePas
<1>2. ASSUME NEW t \in Threads, AvancerThread(t)
      PROVE  IInv'
  BY <1>2, ThreadPas
<1>3. ASSUME NEW i \in Places, Servir(i)
      PROVE  IInv'
  BY <1>3, ServirPas
<1>4. CASE Poursuivre
  BY <1>4, PoursuivrePas
<1>5. ASSUME NEW c \in Clients, Connecter(c)
      PROVE  IInv'
  BY <1>5, ConnecterPas
<1>6. ASSUME NEW c \in Clients, AvancerClient(c)
      PROVE  IInv'
  BY <1>6, ClientPas
<1> QED BY <1>1, <1>2, <1>3, <1>4, <1>5, <1>6 DEF Next

\* The conjunction is an invariant of the server.
THEOREM InvariantServeur == Spec => []IInv
<1>1. Init => IInv
  BY InitInvariant
<1>2. IInv /\ [Next]_vars => IInv'
  BY NextInvariant
<1> QED BY <1>1, <1>2, PTL DEF Spec

\* The arrays, the threads and the mailboxes of the server keep their types.
\* clients[] has one place for each program here; MAX_CLIENTS is not modelled.
THEOREM TypeServeur == Spec => []TypeInvariant
<1>1. IInv => TypeInvariant
  BY DEF IInv, Types
<1> QED BY <1>1, InvariantServeur, PTL

\* A slot is taken exactly while one game is played in it.
THEOREM SlotsServeur == Spec => []UnePartieParSlot
<1>1. IInv => UnePartieParSlot
  BY DEF IInv
<1> QED BY <1>1, InvariantServeur, PTL

\* A client that connects inherits nothing from one that left.
THEOREM PlacesServeur == Spec => []PlacesLibresVierges
<1>1. IInv => PlacesLibresVierges
  BY DEF IInv, PlacesVierges, Remplis, PlacesLibresVierges
<1> QED BY <1>1, InvariantServeur, PTL

\* pthread_join never waits for a thread that only the main thread could wake.
THEOREM JoinServeur == Spec => []JoinReveille
<1>1. IInv => JoinReveille
  BY DEF IInv
<1> QED BY <1>1, InvariantServeur, PTL

=============================================================================
