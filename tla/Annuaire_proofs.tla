-------------------------- MODULE Annuaire_proofs --------------------------
(***************************************************************************)
(* Proofs about Annuaire, for any number of programs, names, games,        *)
(* challenges, departures and joined messages.                             *)
(***************************************************************************)
EXTENDS Annuaire, FiniteSetTheorems, SequenceTheorems, WellFoundedInduction, TLAPS

-----------------------------------------------------------------------------
(* The inductive invariant. *)

Pseudos == Noms \cup {Aucun}
Fiches  == [pseudo : Pseudos, etat : 0..3]
Defis   == {"DEFI/new", "DEFI/accept", "DEFI/decline"}
Avis    == {"new_joueur", "delete_joueur", "update_etat_joueur"}
Accuses == {"connect", "not_connected"}

Requetes == [type : {"profil", "eof", "list_joueur"}] \cup [type : Defis, cible : Pseudos]

Infos  == [type : Avis, pseudo : Pseudos, etat : 0..3]
Listes == [type : {"liste"}, joueurs : Seq(Fiches)]

Messages ==
  [type : Accuses] \cup Listes \cup Infos
  \cup [type : Defis, pseudo : Pseudos, etat : {1}, par : Pseudos]

Inscriptions == [sock : Programmes \cup {Aucun}, etat : 0..3]

Etapes == {"select", "profil", "nouveau", "liste", "change", "compose", "annonce",
           "join", "depart", "ferme", "jeux", "plante"}

\* The stages of a handler that is about the player at place i.
EtapesJoueur == {"nouveau", "change", "compose", "annonce", "depart", "ferme"}

\* Those of a challenge, an accept or a decline.
EtapesDefi == {"change", "compose", "annonce"}

\* Those of a departure.
EtapesDepart == {"join", "depart", "ferme"}

Positions == [pc : Etapes, c : Programmes \cup {Aucun}, i : 0..MaxClients, t : Threads \cup {Aucun},
              auteur : 0..MaxClients, cible : Pseudos, etat : 0..3, k : Nat \ {0},
              m : Messages \cup {Rien}]

Taches == [pc : {"neuf", "jeu", "fin", "diffuse", "mort"}, j1 : Programmes \cup {Aucun},
           j2 : Programmes \cup {Aucun}, annule : BOOLEAN, annulable : BOOLEAN, i : Nat \ {0},
           sujet : Programmes \cup {Aucun}, k : Nat \ {0}, n : Nat]

Phases == {"hors", "connecte", "attenteACK", "attenteListe", "menu", "attend", "sollicite",
           "jeu", "fini"}

Profils == [phase : Phases, pseudo : Pseudos, joueurs : Seq(Fiches), defieur : Pseudos]

TypesClients ==
  /\ ecoute \in Seq(Programmes)
  /\ clients \in [Places -> Inscriptions]
  /\ nbClients \in 0..MaxClients
  /\ \A i \in 1..nbClients : clients[i].sock \in Programmes
  /\ clientsInGame \in [Places -> Threads \cup {Aucun}]

TypesThreads ==
  /\ thread \in [Threads -> Taches]
  /\ \A t \in Threads :
       thread[t].pc = "diffuse" => thread[t].sujet \in Programmes /\ thread[t].n <= MaxClients

TypesServeur ==
  /\ TypesClients
  /\ principal \in Positions
  /\ TypesThreads

TypeHistorique ==
  historique \in [troubles : SUBSET Programmes, interroges : SUBSET Programmes,
                  ecrits : [Programmes -> SUBSET Pseudos], croises : SUBSET Programmes]

TypeCompteurs ==
  compteurs \in [demandes : 0..MaxDemandes, jonctions : 0..MaxJonctions, departs : 0..MaxDeparts]

Types ==
  /\ TypesServeur
  /\ entree \in [Programmes -> Seq(Requetes)]
  /\ sortie \in [Programmes -> Seq(Messages)]
  /\ programme \in [Programmes -> Profils]
  /\ TypeHistorique
  /\ TypeCompteurs

\* There is a thread for a game that begins.
ThreadNeuf == \E t \in Threads : thread[t].pc = "neuf"

\* What the main thread keeps from one step of a handler to the next: nobody
\* else moves the players, so the places that it found stay right.
Poste ==
  /\ principal.pc = "profil" => principal.c \in Programmes
  /\ principal.pc \in EtapesJoueur =>
       principal.i \in 1..nbClients /\ principal.c = clients[principal.i].sock
  /\ principal.pc = "join" => principal.i \in 1..nbClients /\ principal.t \in Threads
  /\ principal.pc = "jeux" => principal.i \in Places
  /\ principal.pc \in EtapesDefi =>
       principal.auteur \in 0..nbClients /\ (principal.etat = 2 => ThreadNeuf)
  /\ principal.pc \in {"nouveau", "annonce"} =>
       principal.m \in Infos /\ principal.m.type # "delete_joueur"
  /\ principal.pc = "depart" => principal.m \in Infos
  /\ principal.pc = "liste" => principal.m \in Listes /\ principal.c \in Connectes

\* No program has two places.
SocketsDistincts ==
  \A i, j \in 1..nbClients : clients[i].sock = clients[j].sock => i = j

\* The programs that the server has not registered yet: in the kernel, or the
\* one whose profile it waits for.
EnFile(c)    == \E k \in 1 .. Len(ecoute) : ecoute[k] = c
EnProfil(c)  == principal.pc = "profil" /\ principal.c = c
EnAttente(c) == EnFile(c) \/ EnProfil(c)

\* The one that is registered and has not been answered yet.
Accueil(c) == principal.pc = "nouveau" /\ principal.c = c

FileDistincte ==
  /\ \A k, r \in 1 .. Len(ecoute) : ecoute[k] = ecoute[r] => k = r
  /\ \A c \in Programmes : ~(EnFile(c) /\ EnProfil(c))

\* Where a connection stands, on its two sides.
Connexion ==
  \A c \in Programmes :
    /\ Phase(c) = "hors" =>
         ~EnAttente(c) /\ c \notin Connectes /\ entree[c] = <<>> /\ sortie[c] = <<>>
    /\ Phase(c) = "connecte" => entree[c] = <<>>
    /\ EnAttente(c) =>
         c \notin Connectes /\ sortie[c] = <<>> /\ Phase(c) \in {"connecte", "attenteACK", "fini"}
    /\ Accueil(c) => Phase(c) \in {"attenteACK", "fini"}

\* A profile has one answer, which finds the program waiting for it; a refused
\* program has no place.
AccuseSeul ==
  \A c \in Programmes : \A k \in 1 .. Len(sortie[c]) :
    sortie[c][k].type \in Accuses =>
      /\ Phase(c) \in {"attenteACK", "fini"} /\ ~Accueil(c)
      /\ \A r \in 1 .. Len(sortie[c]) : sortie[c][r].type \in Accuses => r = k
      /\ sortie[c][k].type = "not_connected" => c \notin Connectes

\* The server learns of an end from a program that has ended, and removes no
\* other.
FinAnnoncee ==
  /\ \A c \in Programmes : \A k \in 1 .. Len(entree[c]) :
       entree[c][k].type = "eof" => Phase(c) = "fini"
  /\ principal.pc \in EtapesDepart => Phase(clients[principal.i].sock) = "fini"

\* The names that a challenge can be answered to.
Inscrits == {Pseudo(c) : c \in Connectes}

\* As long as nobody has left: only refused programs have ended, whoever
\* challenges is in the list of the server, and no broadcast is longer than it.
Calme ==
  /\ principal.pc \notin EtapesDepart \cup {"jeux", "plante"}
  /\ principal.pc \in EtapesDefi /\ principal.etat = 2 => principal.cible \in Inscrits
  /\ \A c \in Programmes : Phase(c) = "fini" => ~EnAttente(c) /\ c \notin Connectes
  /\ \A c \in Programmes : \A k \in 1 .. Len(sortie[c]) :
       /\ sortie[c][k].type # "delete_joueur"
       /\ sortie[c][k].type = "DEFI/new" => sortie[c][k].par \in Inscrits
  /\ \A c \in Programmes : Phase(c) = "sollicite" => programme[c].defieur \in Inscrits
  /\ \A c \in Programmes : \A k \in 1 .. Len(entree[c]) :
       entree[c][k].type = "DEFI/accept" => entree[c][k].cible \in Inscrits
  /\ \A t \in Threads : thread[t].pc = "diffuse" => thread[t].n <= nbClients

IInv ==
  /\ Types
  /\ Poste
  /\ SocketsDistincts
  /\ FileDistincte
  /\ Connexion
  /\ AccuseSeul
  /\ FinAnnoncee
  /\ PersonneParti => Calme

-----------------------------------------------------------------------------
(* Sequences. *)

\* The order of the naturals, as a set of pairs.
Precede == {p \in Nat \X Nat : p[1] < p[2]}

\* Every set of naturals has a least element: this is how the proofs below do
\* induction.
LEMMA PlusPetit ==
  ASSUME NEW T, T \subseteq Nat, T # {}
  PROVE  \E x \in T : \A y \in T : x <= y
<1>1. IsWellFoundedOn(Precede, Nat)
  BY NatLessThanWellFounded DEF OpToRel, Precede
<1>2. PICK x \in T : \A y \in T : ~(<<y, x>> \in Precede)
  BY <1>1, WFMin
<1>3. \A y \in T : ~(y < x)
  BY <1>2 DEF Precede
<1> QED BY <1>3

\* f[i] is the concatenation of the first i sequences, as FlattenSeq has it.
Concatene(f, n, seqs) == f = [i \in 1..n |-> IF i = 1 THEN seqs[i] ELSE f[i-1] \o seqs[i]]

\* Partial concatenations have the type of the whole.
LEMMA EtapesType ==
  ASSUME NEW S, NEW seqs \in Seq(Seq(S)), NEW f, Concatene(f, Len(seqs), seqs)
  PROVE  f \in [1 .. Len(seqs) -> Seq(S)]
<1> DEFINE n == Len(seqs)
           faux == {i \in 1..n : f[i] \notin Seq(S)}
<1>1. n \in Nat /\ \A i \in 1..n : seqs[i] \in Seq(S)
  OBVIOUS
<1>f. DOMAIN f = 1..n /\ \A i \in 1..n : f[i] = IF i = 1 THEN seqs[i] ELSE f[i-1] \o seqs[i]
  BY DEF Concatene
<1>2. SUFFICES ASSUME faux # {} PROVE FALSE
  BY <1>f DEF Concatene
<1>s. faux \subseteq Nat
  BY <1>1
<1>3. PICK x \in faux : \A y \in faux : x <= y
  <2> HIDE DEF faux
  <2> QED BY <1>s, <1>2, PlusPetit
<1>x. x \in 1..n /\ f[x] \notin Seq(S)
  OBVIOUS
<1>4. x # 1
  BY <1>1, <1>f, <1>3
<1>5. f[x - 1] \in Seq(S)
  <2>1. x - 1 \in 1..n /\ x - 1 < x
    BY <1>1, <1>x, <1>4
  <2>2. x - 1 \notin faux
    BY <1>3, <1>x, <2>1, <1>1
  <2> QED BY <2>1, <2>2
<1>6. f[x] \in Seq(S)
  <2>1. f[x] = f[x - 1] \o seqs[x]
    BY <1>x, <1>4, <1>f
  <2>2. seqs[x] \in Seq(S)
    BY <1>x, <1>1
  <2> QED BY <1>5, <2>1, <2>2, ConcatProperties
<1> QED BY <1>3, <1>6

\* The recursive definition in FlattenSeq defines a function.
LEMMA EtapesExistent ==
  ASSUME NEW S, NEW seqs \in Seq(Seq(S))
  PROVE  \E f : Concatene(f, Len(seqs), seqs)
<1> DEFINE faux == {n \in 0 .. Len(seqs) : ~\E f : Concatene(f, n, seqs)}
<1>1. SUFFICES ASSUME faux # {} PROVE FALSE
  BY LenProperties
<1>s. faux \subseteq Nat
  BY LenProperties
<1>2. PICK n \in faux : \A y \in faux : n <= y
  <2> HIDE DEF faux
  <2> QED BY <1>1, <1>s, PlusPetit
<1>3. n # 0
  <2>1. Concatene([i \in 1..0 |-> 0], 0, seqs)
    BY DEF Concatene
  <2> QED BY <2>1, <1>2
<1>4. PICK f : Concatene(f, n - 1, seqs)
  <2>1. n - 1 \in 0 .. Len(seqs) /\ n - 1 < n
    BY <1>3, LenProperties
  <2>2. n - 1 \notin faux
    <3> HIDE DEF faux
    <3> QED BY <1>s, <1>2, <2>1
  <2> QED BY <2>1, <2>2
<1> DEFINE g == [i \in 1..n |-> IF i = n THEN IF n = 1 THEN seqs[n] ELSE f[n-1] \o seqs[n] ELSE f[i]]
<1>5. \A i \in 1..n : g[i] = IF i = 1 THEN seqs[i] ELSE g[i-1] \o seqs[i]
  <2>1. \A i \in 1 .. n-1 : f[i] = IF i = 1 THEN seqs[i] ELSE f[i-1] \o seqs[i]
    BY <1>4 DEF Concatene
  <2>2. n \in Nat \ {0}
    BY <1>2, <1>3, LenProperties
  <2>3. TAKE i \in 1..n
  <2>4. CASE i = n
    BY <2>2, <2>4
  <2>5. CASE i # n
    <3>1. i \in 1..n-1 /\ g[i] = f[i]
      BY <2>2, <2>5
    <3>2. i # 1 => i - 1 \in 1..n /\ g[i-1] = f[i-1]
      BY <2>2, <2>5
    <3> QED BY <2>1, <3>1, <3>2
  <2> QED BY <2>4, <2>5
<1>6. Concatene(g, n, seqs)
  BY <1>5 DEF Concatene
<1> QED BY <1>2, <1>6

\* What init_list_joueur reads when several messages come together is a list.
LEMMA FlattenSeqType ==
  ASSUME NEW S, NEW seqs \in Seq(Seq(S))
  PROVE  FlattenSeq(seqs) \in Seq(S)
<1>1. CASE Len(seqs) = 0
  BY <1>1, EmptySeq DEF FlattenSeq
<1>2. CASE Len(seqs) # 0
  <2> DEFINE f == CHOOSE f : Concatene(f, Len(seqs), seqs)
  <2>1. Concatene(f, Len(seqs), seqs)
    BY EtapesExistent
  <2>2. f \in [1 .. Len(seqs) -> Seq(S)]
    BY <2>1, EtapesType
  <2>3. FlattenSeq(seqs) = f[Len(seqs)]
    BY <1>2 DEF FlattenSeq, Concatene
  <2> QED BY <1>2, <2>2, <2>3, LenProperties
<1> QED BY <1>1, <1>2

\* The first element of a nonempty set of indices, as the code finds it.
LEMMA Premier ==
  ASSUME NEW T, T \subseteq Nat, T # {}
  PROVE  (CHOOSE k \in T : \A n \in T : k <= n) \in T
BY PlusPetit

\* Sequences that lose their beginning.
LEMMA SuiteType ==
  ASSUME NEW S, NEW s \in Seq(S), NEW a \in 1 .. Len(s) + 1
  PROVE  /\ SubSeq(s, a, Len(s)) \in Seq(S)
         /\ Len(SubSeq(s, a, Len(s))) = Len(s) - a + 1
         /\ \A k \in 1 .. Len(s) - a + 1 : SubSeq(s, a, Len(s))[k] = s[a + k - 1]
<1>1. Len(s) \in Nat /\ a \in Nat /\ \A k \in 1 .. Len(s) : s[k] \in S
  BY LenProperties, ElementOfSeq
<1> QED BY <1>1, SubSeqProperties

\* Sequences that lose their first element.
LEMMA QueueType ==
  ASSUME NEW S, NEW s \in Seq(S), s # <<>>
  PROVE  /\ Head(s) \in S /\ Head(s) = s[1]
         /\ Len(s) \in Nat \ {0}
         /\ Tail(s) \in Seq(S)
         /\ Len(Tail(s)) = Len(s) - 1
         /\ \A k \in 1 .. Len(s) - 1 : Tail(s)[k] = s[k + 1]
BY HeadTailProperties, EmptySeq, LenProperties, ElementOfSeq

\* Sequences that get one more.
LEMMA AjoutType ==
  ASSUME NEW S, NEW s \in Seq(S), NEW m \in S
  PROVE  /\ Append(s, m) \in Seq(S)
         /\ Append(s, m) # <<>>
         /\ Len(Append(s, m)) = Len(s) + 1
         /\ \A k \in 1 .. Len(s) : Append(s, m)[k] = s[k]
         /\ Append(s, m)[Len(s) + 1] = m
BY AppendProperties, LenProperties

-----------------------------------------------------------------------------
(* Sends. *)

\* apres is avant with messages of S added, to live programs of qui only.
Etend(avant, apres, qui, S) ==
  \A c \in Programmes :
    /\ Len(avant[c]) <= Len(apres[c])
    /\ \A k \in 1 .. Len(avant[c]) : apres[c][k] = avant[c][k]
    /\ \A k \in Len(avant[c]) + 1 .. Len(apres[c]) : apres[c][k] \in S
    /\ apres[c] # avant[c] => c \in qui /\ Vivant(c)

Files == [Programmes -> Seq(Messages)]

\* Nothing sent.
LEMMA EtendRien ==
  ASSUME NEW file \in Files, NEW qui, NEW S
  PROVE  Etend(file, file, qui, S)
BY LenProperties DEF Etend, Files

\* A set of sends after another.
LEMMA EtendPuis ==
  ASSUME NEW f \in Files, NEW g \in Files, NEW h \in Files, NEW qui, NEW S,
         Etend(f, g, qui, S), Etend(g, h, qui, S)
  PROVE  Etend(f, h, qui, S)
<1>1. SUFFICES ASSUME NEW c \in Programmes
               PROVE  /\ Len(f[c]) <= Len(h[c])
                      /\ \A k \in 1 .. Len(f[c]) : h[c][k] = f[c][k]
                      /\ \A k \in Len(f[c]) + 1 .. Len(h[c]) : h[c][k] \in S
                      /\ h[c] # f[c] => c \in qui /\ Vivant(c)
  BY DEF Etend
<1>2. f[c] \in Seq(Messages) /\ g[c] \in Seq(Messages) /\ h[c] \in Seq(Messages)
  BY DEF Files
<1>3. Len(f[c]) \in Nat /\ Len(g[c]) \in Nat /\ Len(h[c]) \in Nat
  BY <1>2, LenProperties
<1>4. /\ Len(f[c]) <= Len(g[c]) /\ Len(g[c]) <= Len(h[c])
      /\ \A k \in 1 .. Len(f[c]) : g[c][k] = f[c][k]
      /\ \A k \in 1 .. Len(g[c]) : h[c][k] = g[c][k]
      /\ \A k \in Len(f[c]) + 1 .. Len(g[c]) : g[c][k] \in S
      /\ \A k \in Len(g[c]) + 1 .. Len(h[c]) : h[c][k] \in S
  BY DEF Etend
<1>5. ASSUME NEW k \in Len(f[c]) + 1 .. Len(h[c])
      PROVE  h[c][k] \in S
  <2>1. CASE k \in Len(g[c]) + 1 .. Len(h[c])
    BY <1>4, <2>1
  <2>2. CASE k \in Len(f[c]) + 1 .. Len(g[c])
    <3>1. k \in 1 .. Len(g[c])
      BY <1>3, <2>2
    <3>2. h[c][k] = g[c][k]
      BY <1>4, <3>1
    <3>3. g[c][k] \in S
      BY <1>4, <2>2
    <3> QED BY <3>2, <3>3
  <2> QED BY <1>3, <2>1, <2>2
<1>6. \A k \in 1 .. Len(f[c]) : h[c][k] = f[c][k]
  BY <1>3, <1>4
<1>7. h[c] # f[c] => c \in qui /\ Vivant(c)
  BY DEF Etend
<1> QED BY <1>3, <1>4, <1>5, <1>6, <1>7

\* One send.
LEMMA PosterEtend ==
  ASSUME NEW file \in Files, NEW c \in Programmes, NEW m \in Messages, NEW qui, NEW S,
         c \in qui, m \in S
  PROVE  Poster(file, c, m) \in Files /\ Etend(file, Poster(file, c, m), qui, S)
<1>1. CASE ~Vivant(c)
  BY <1>1, EtendRien DEF Poster
<1>2. CASE Vivant(c)
  <2> DEFINE p == [file EXCEPT ![c] = Append(file[c], m)]
  <2>1. Poster(file, c, m) = p
    BY <1>2 DEF Poster
  <2>2. file[c] \in Seq(Messages)
    BY DEF Files
  <2>3. p \in Files /\ p[c] = Append(file[c], m) /\ \A d \in Programmes : d # c => p[d] = file[d]
    BY <2>2, AjoutType DEF Files
  <2>4. ASSUME NEW d \in Programmes
        PROVE  /\ Len(file[d]) <= Len(p[d])
               /\ \A k \in 1 .. Len(file[d]) : p[d][k] = file[d][k]
               /\ \A k \in Len(file[d]) + 1 .. Len(p[d]) : p[d][k] \in S
               /\ p[d] # file[d] => d \in qui /\ Vivant(d)
    <3> HIDE DEF p
    <3>1. file[d] \in Seq(Messages) /\ Len(file[d]) \in Nat
      BY LenProperties DEF Files
    <3>2. CASE d # c
      BY <2>3, <3>1, <3>2
    <3>3. CASE d = c
      BY <1>2, <2>2, <2>3, <3>1, <3>3, AjoutType
    <3> QED BY <3>2, <3>3
  <2> QED BY <2>1, <2>3, <2>4 DEF Etend
<1> QED BY <1>1, <1>2


-----------------------------------------------------------------------------
(* Steps of the server: it reads, it sends, and clients[] may lose a program *)
(* that has ended.                                                           *)

EntreeLue ==
  \A c \in Programmes :
    entree'[c] = entree[c] \/ (entree[c] # <<>> /\ entree'[c] = Tail(entree[c]))

\* Messages that do not answer a profile.
Paisibles == {m \in Messages : m.type \notin Accuses}

\* Messages that are sent while nobody has left.
Tranquilles ==
  {m \in Messages : m.type # "delete_joueur" /\ (m.type = "DEFI/new" => m.par \in Inscrits)}

\* The sockets of clients[] are connections.
LEMMA ConnectesType ==
  ASSUME IInv
  PROVE  Connectes \subseteq Programmes
<1>1. \A i \in 1..nbClients : clients[i].sock \in Programmes
  BY DEF IInv, Types, TypesServeur, TypesClients
<1> QED BY <1>1 DEF Connectes

\* The sequences of the state.
LEMMA FilesType ==
  ASSUME IInv, NEW c \in Programmes
  PROVE  /\ ecoute \in Seq(Programmes) /\ Len(ecoute) \in Nat
         /\ sortie \in Files /\ sortie[c] \in Seq(Messages) /\ Len(sortie[c]) \in Nat
         /\ entree[c] \in Seq(Requetes) /\ Len(entree[c]) \in Nat
         /\ sortie[c] # <<>> => 1 \in 1 .. Len(sortie[c])
         /\ entree[c] # <<>> => 1 \in 1 .. Len(entree[c])
BY LenProperties, EmptySeq DEF IInv, Types, TypesServeur, TypesClients, Files

\* What the handler of one request starts from.
LEMMA ServirType ==
  ASSUME IInv, NEW i, Servir(i)
  PROVE  /\ i \in 1..nbClients /\ i \in Places
         /\ clients[i].sock \in Programmes /\ clients[i].sock \in Connectes
         /\ Lu(i) \in Requetes
         /\ Lu(i) = entree[clients[i].sock][1]
         /\ 1 \in 1 .. Len(entree[clients[i].sock])
         /\ entree' \in [Programmes -> Seq(Requetes)]
         /\ EntreeLue
         /\ principal.pc = "select"
<1>1. i \in 1..nbClients /\ principal.pc = "select" /\ entree[clients[i].sock] # <<>>
      /\ entree' = [entree EXCEPT ![clients[i].sock] = Tail(@)]
  BY DEF Servir
<1>2. clients[i].sock \in Programmes /\ nbClients \in 0..NbProgrammes
  BY <1>1 DEF IInv, Types, TypesServeur, TypesClients, MaxClients
<1>3. entree \in [Programmes -> Seq(Requetes)]
  BY DEF IInv, Types
<1> DEFINE c == clients[i].sock
<1>4. /\ entree[c] \in Seq(Requetes) /\ Head(entree[c]) \in Requetes
      /\ Head(entree[c]) = entree[c][1] /\ Len(entree[c]) \in Nat \ {0}
      /\ Tail(entree[c]) \in Seq(Requetes)
  BY <1>1, <1>2, <1>3, QueueType
<1>5. entree' \in [Programmes -> Seq(Requetes)] /\ EntreeLue
  BY <1>1, <1>2, <1>3, <1>4 DEF EntreeLue
<1> QED BY <1>1, <1>2, <1>4, <1>5, AnnuaireAssumption DEF Lu, Places, MaxClients, Connectes

\* Messages that are read go; what is left in a queue was there.
LEMMA EntreeReste ==
  ASSUME IInv, EntreeLue, NEW c \in Programmes, NEW k \in 1 .. Len(entree'[c])
  PROVE  \E r \in 1 .. Len(entree[c]) : entree'[c][k] = entree[c][r]
<1>1. CASE entree'[c] = entree[c]
  BY <1>1
<1>2. CASE entree[c] # <<>> /\ entree'[c] = Tail(entree[c])
  <2>1. entree[c] \in Seq(Requetes)
    BY DEF IInv, Types
  <2>2. Len(entree'[c]) = Len(entree[c]) - 1 /\ Len(entree[c]) \in Nat
        /\ \A r \in 1 .. Len(entree[c]) - 1 : entree'[c][r] = entree[c][r + 1]
    BY <1>2, <2>1, QueueType
  <2>3. k + 1 \in 1 .. Len(entree[c]) /\ entree'[c][k] = entree[c][k + 1]
    BY <2>2
  <2> QED BY <2>3
<1> QED BY <1>1, <1>2 DEF EntreeLue

\* The server learns of ends that were announced.
LEMMA FinLue ==
  ASSUME IInv, EntreeLue, UNCHANGED programme
  PROVE  \A c \in Programmes : \A k \in 1 .. Len(entree'[c]) :
           entree'[c][k].type = "eof" => Phase(c)' = "fini"
BY EntreeReste DEF IInv, FinAnnoncee, Phase

\* A queue that is extended keeps its first message.
LEMMA EtendTete ==
  ASSUME NEW f \in Files, NEW g \in Files, NEW qui, NEW S, Etend(f, g, qui, S), NEW c \in Programmes
  PROVE  /\ c \notin qui => g[c] = f[c]
         /\ f[c] # <<>> => g[c] # <<>> /\ g[c][1] = f[c][1]
<1>1. f[c] \in Seq(Messages) /\ g[c] \in Seq(Messages)
  BY DEF Files
<1>2. Len(f[c]) \in Nat /\ Len(g[c]) \in Nat
  BY <1>1, LenProperties
<1>3. c \notin qui => g[c] = f[c]
  BY DEF Etend
<1>4. Len(f[c]) <= Len(g[c]) /\ \A k \in 1 .. Len(f[c]) : g[c][k] = f[c][k]
  BY DEF Etend
<1>5. f[c] # <<>> => Len(f[c]) >= 1
  BY <1>1, <1>2, EmptySeq
<1>6. f[c] # <<>> => Len(g[c]) >= 1 /\ g[c][1] = f[c][1]
  BY <1>2, <1>4, <1>5
<1>7. Len(<<>>) = 0
  BY EmptySeq
<1> QED BY <1>3, <1>6, <1>7

\* Each message of an extended queue was there or is one that was sent.
LEMMA EtendMessage ==
  ASSUME NEW f \in Files, NEW g \in Files, NEW qui, NEW S, Etend(f, g, qui, S), NEW c \in Programmes,
         NEW k \in 1 .. Len(g[c])
  PROVE  (k \in 1 .. Len(f[c]) /\ g[c][k] = f[c][k]) \/ g[c][k] \in S
<1>1. f[c] \in Seq(Messages) /\ g[c] \in Seq(Messages)
  BY DEF Files
<1>2. Len(f[c]) \in Nat /\ Len(g[c]) \in Nat
  BY <1>1, LenProperties
<1>3. CASE k \in 1 .. Len(f[c])
  BY <1>3 DEF Etend
<1>4. CASE k \in Len(f[c]) + 1 .. Len(g[c])
  BY <1>4 DEF Etend
<1> QED BY <1>2, <1>3, <1>4

\* Steps in which nobody leaves.
LEMMA PersonnePartiMeme ==
  ASSUME UNCHANGED <<programme, compteurs>>, historique'.troubles = historique.troubles
  PROVE  PersonneParti' <=> PersonneParti
BY DEF PersonneParti, Phase

\* The places in use are places.
LEMMA PlacesType ==
  ASSUME IInv
  PROVE  /\ nbClients \in Nat /\ MaxClients \in Nat /\ nbClients <= MaxClients
         /\ 1..nbClients \subseteq Places
         /\ clients \in [Places -> Inscriptions]
         /\ \A i \in 1..nbClients : clients[i].sock \in Programmes
<1>1. MaxClients \in Nat /\ nbClients \in 0..MaxClients
  BY AnnuaireAssumption DEF IInv, Types, TypesServeur, TypesClients, MaxClients
<1>2. clients \in [Places -> Inscriptions] /\ \A i \in 1..nbClients : clients[i].sock \in Programmes
  BY DEF IInv, Types, TypesServeur, TypesClients
<1> QED BY <1>1, <1>2 DEF Places

\* The list of the others has the type of a list.
LEMMA AutresType ==
  ASSUME IInv, NEW i \in 1..nbClients
  PROVE  Autres(i) \in Seq(Fiches)
<1>1. nbClients \in Nat /\ nbClients - 1 \in Nat
  BY AnnuaireAssumption DEF IInv, Types, TypesServeur, TypesClients, MaxClients
<1>2. \A k \in 1..nbClients : clients[k].sock \in Programmes /\ clients[k].etat \in 0..3
  BY <1>1, AnnuaireAssumption DEF IInv, Types, TypesServeur, TypesClients, Places, MaxClients, Inscriptions
<1>3. \A k \in 1..nbClients :
        [pseudo |-> Pseudo(clients[k].sock), etat |-> clients[k].etat] \in Fiches
  BY <1>2 DEF Fiches, Pseudo, IInv, Types, Profils
<1>4. \A k \in 1 .. nbClients - 1 : (IF k < i THEN k ELSE k + 1) \in 1..nbClients
  BY <1>1
<1>5. Autres(i) \in [1 .. nbClients - 1 -> Fiches]
  BY <1>3, <1>4 DEF Autres
<1> QED BY <1>1, <1>5, SeqDef

\* A request that carries a name carries one of a player, or none.
LEMMA CibleType ==
  ASSUME NEW m \in Requetes, m.type \in Defis
  PROVE  m.cible \in Pseudos
BY DEF Requetes, Defis

\* A program that is not registered has a place: MAX_CLIENTS is not exceeded.
LEMMA PlaceLibre ==
  ASSUME IInv, NEW c \in Programmes, c \notin Connectes
  PROVE  nbClients + 1 \in Places
<1> DEFINE f == [i \in 1 .. nbClients + 1 |-> IF i <= nbClients THEN clients[i].sock ELSE c]
<1>1. nbClients \in Nat /\ nbClients <= NbProgrammes /\ NbProgrammes \in Nat
  BY AnnuaireAssumption DEF IInv, Types, TypesServeur, TypesClients, MaxClients
<1>2. \A i \in 1..nbClients : clients[i].sock \in Programmes
  BY DEF IInv, Types, TypesServeur, TypesClients
<1>3. f \in [1 .. nbClients + 1 -> Programmes]
  BY <1>1, <1>2
<1>4. ASSUME NEW i \in 1 .. nbClients + 1, NEW j \in 1 .. nbClients + 1, f[i] = f[j]
      PROVE  i = j
  BY <1>1, <1>4 DEF IInv, SocketsDistincts, Connectes
<1>5. f \in Injection(1 .. nbClients + 1, Programmes)
  BY <1>3, <1>4 DEF Injection, IsInjective
<1>6. IsFiniteSet(Programmes) /\ Cardinality(Programmes) = NbProgrammes
  BY <1>1, FS_Interval DEF Programmes
<1>7. Cardinality(1 .. nbClients + 1) = nbClients + 1
  BY <1>1, FS_Interval
<1>8. Cardinality(1 .. nbClients + 1) <= Cardinality(Programmes)
  BY <1>5, <1>6, FS_Injection
<1> QED BY <1>1, <1>6, <1>7, <1>8 DEF Places, MaxClients

\* Where the main thread stands.
LEMMA PosteType ==
  ASSUME IInv
  PROVE  /\ principal \in Positions
         /\ principal.k \in Nat \ {0} /\ principal.auteur \in 0..MaxClients
         /\ principal.m \in Messages \cup {Rien} /\ principal.cible \in Pseudos
         /\ principal.pc \in Etapes /\ principal.etat \in 0..3 /\ principal.i \in 0..MaxClients
         /\ principal.c \in Programmes \cup {Aucun}
<1>1. principal \in Positions
  BY DEF IInv, Types, TypesServeur
<1> QED BY <1>1 DEF Positions

\* Between two requests the main thread keeps nothing.
LEMMA SelectType ==
  Select \in Positions /\ Select.pc = "select"
<1>1. Aucun \in 0..MaxClients
  BY AnnuaireAssumption DEF MaxClients, Aucun
<1>2. Aucun \in Pseudos /\ "select" \in Etapes /\ 0 \in 0..3 /\ 1 \in Nat \ {0}
  BY DEF Pseudos, Etapes
<1> QED BY <1>1, <1>2 DEF Select, Positions

\* It is waiting for nobody.
LEMMA SelectPoste ==
  ASSUME principal' = Select
  PROVE  /\ principal' \in Positions /\ principal'.pc = "select"
         /\ Poste' /\ \A c \in Programmes : ~EnProfil(c)' /\ ~Accueil(c)'
         /\ principal'.pc \notin EtapesDepart \cup EtapesDefi \cup {"jeux", "plante"}
<1>1. principal' \in Positions /\ principal'.pc = "select"
  BY SelectType
<1>2. Poste'
  BY <1>1 DEF Poste, EtapesJoueur, EtapesDefi
<1> QED BY <1>1, <1>2 DEF EnProfil, Accueil, EtapesDepart, EtapesDefi

\* Connections, when what is sent goes to programs that are known.
LEMMA ConnexionPas ==
  ASSUME IInv, UNCHANGED <<ecoute, programme>>, EntreeLue, sortie' \in Files,
         \A c \in Programmes : EnProfil(c)' => EnProfil(c),
         NEW qui, NEW S, Etend(sortie, sortie', qui, S),
         \A c \in Programmes : c \in qui => Phase(c) # "hors" /\ ~EnAttente(c)',
         \A c \in Programmes : Accueil(c)' => Phase(c) \in {"attenteACK", "fini"},
         \A c \in Programmes : c \in Connectes' => Phase(c) # "hors" /\ ~EnAttente(c)'
  PROVE  Connexion'
<1>1. \A c \in Programmes : Phase(c)' = Phase(c) /\ (EnAttente(c)' => EnAttente(c))
  BY DEF Phase, EnAttente, EnFile
<1>2. sortie \in Files
  BY DEF IInv, Types, Files
<1>3. ASSUME NEW c \in Programmes
      PROVE  /\ c \notin qui => sortie'[c] = sortie[c]
             /\ entree[c] = <<>> => entree'[c] = <<>>
  BY <1>2, EtendTete DEF EntreeLue
<1>4. SUFFICES ASSUME NEW c \in Programmes
               PROVE  /\ Phase(c) = "hors" =>
                           ~EnAttente(c)' /\ c \notin Connectes' /\ entree'[c] = <<>> /\ sortie'[c] = <<>>
                      /\ Phase(c) = "connecte" => entree'[c] = <<>>
                      /\ EnAttente(c)' => /\ c \notin Connectes' /\ sortie'[c] = <<>>
                                          /\ Phase(c) \in {"connecte", "attenteACK", "fini"}
                      /\ Accueil(c)' => Phase(c) \in {"attenteACK", "fini"}
  BY <1>1 DEF Connexion
<1>5. /\ Phase(c) = "hors" => ~EnAttente(c) /\ entree[c] = <<>> /\ sortie[c] = <<>>
      /\ Phase(c) = "connecte" => entree[c] = <<>>
      /\ EnAttente(c) => sortie[c] = <<>> /\ Phase(c) \in {"connecte", "attenteACK", "fini"}
  BY DEF IInv, Connexion
<1> QED BY <1>1, <1>3, <1>5

\* Answers to profiles, when what is sent answers none.
LEMMA AccusePas ==
  ASSUME IInv, UNCHANGED programme, sortie' \in Files, NEW qui, Etend(sortie, sortie', qui, Paisibles),
         \A c \in Programmes : Accueil(c)' => Accueil(c) \/ sortie'[c] = <<>>,
         \A c \in Programmes : c \in Connectes' => c \in Connectes \/ sortie'[c] = <<>>
  PROVE  AccuseSeul'
<1>1. sortie \in Files
  BY DEF IInv, Types, Files
<1>2. ASSUME NEW c \in Programmes, NEW k \in 1 .. Len(sortie'[c]), sortie'[c][k].type \in Accuses
      PROVE  k \in 1 .. Len(sortie[c]) /\ sortie'[c][k] = sortie[c][k]
  <2>1. sortie'[c][k] \notin Paisibles
    BY <1>2 DEF Paisibles
  <2> QED BY <1>1, <2>1, EtendMessage
<1>3. SUFFICES ASSUME NEW c \in Programmes, NEW k \in 1 .. Len(sortie'[c]),
                      sortie'[c][k].type \in Accuses
               PROVE  /\ Phase(c) \in {"attenteACK", "fini"} /\ ~Accueil(c)'
                      /\ \A r \in 1 .. Len(sortie'[c]) : sortie'[c][r].type \in Accuses => r = k
                      /\ sortie'[c][k].type = "not_connected" => c \notin Connectes'
  BY DEF AccuseSeul, Phase
<1>4. k \in 1 .. Len(sortie[c]) /\ sortie'[c][k] = sortie[c][k]
  BY <1>2, <1>3
<1>5. /\ Phase(c) \in {"attenteACK", "fini"} /\ ~Accueil(c)
      /\ \A r \in 1 .. Len(sortie[c]) : sortie[c][r].type \in Accuses => r = k
      /\ sortie[c][k].type = "not_connected" => c \notin Connectes
  BY <1>3, <1>4 DEF IInv, AccuseSeul
<1>6. \A r \in 1 .. Len(sortie'[c]) : sortie'[c][r].type \in Accuses => r = k
  BY <1>2, <1>5
<1>7. sortie'[c] # <<>>
  BY <1>3, EmptySeq
<1> QED BY <1>4, <1>5, <1>6, <1>7

\* The answer to a profile.
LEMMA AccuseEnvoye ==
  ASSUME IInv, UNCHANGED programme, NEW c \in Programmes, NEW m \in Messages,
         sortie' = Poster(sortie, c, m),
         Phase(c) \in {"attenteACK", "fini"},
         \A k \in 1 .. Len(sortie[c]) : sortie[c][k].type \notin Accuses,
         \A d \in Programmes : ~Accueil(d)',
         Connectes' = Connectes,
         m.type = "not_connected" => c \notin Connectes
  PROVE  AccuseSeul'
<1>1. sortie \in Files /\ sortie[c] \in Seq(Messages) /\ Len(sortie[c]) \in Nat
  BY FilesType
<1>2. \A d \in Programmes : d # c => sortie'[d] = sortie[d]
  BY <1>1 DEF Poster, Files
<1>3. sortie'[c] = sortie[c] \/ sortie'[c] = Append(sortie[c], m)
  BY <1>1 DEF Poster, Files
<1>4. ASSUME NEW k \in 1 .. Len(sortie'[c]), sortie'[c][k].type \in Accuses
      PROVE  k = Len(sortie[c]) + 1 /\ sortie'[c][k] = m
  <2>1. CASE sortie'[c] = sortie[c]
    BY <1>4, <2>1
  <2>2. CASE sortie'[c] = Append(sortie[c], m)
    BY <1>1, <1>4, <2>2, AjoutType
  <2> QED BY <1>3, <2>1, <2>2
<1>5. SUFFICES ASSUME NEW d \in Programmes, NEW k \in 1 .. Len(sortie'[d]),
                      sortie'[d][k].type \in Accuses
               PROVE  /\ Phase(d) \in {"attenteACK", "fini"}
                      /\ \A r \in 1 .. Len(sortie'[d]) : sortie'[d][r].type \in Accuses => r = k
                      /\ sortie'[d][k].type = "not_connected" => d \notin Connectes
  BY DEF AccuseSeul, Phase
<1>6. CASE d = c
  BY <1>4, <1>5, <1>6
<1>7. CASE d # c
  BY <1>2, <1>5, <1>7 DEF IInv, AccuseSeul
<1> QED BY <1>6, <1>7

\* The handlers that go on while nobody has left.
PrincipalCalme ==
  /\ principal.pc \notin EtapesDepart \cup {"jeux", "plante"}
  /\ principal.pc \in EtapesDefi /\ principal.etat = 2 => principal.cible \in Inscrits

\* A step of the server, of its main thread or of a game.
LEMMA ServeurPas ==
  ASSUME IInv, Types', Poste', SocketsDistincts', Connexion', AccuseSeul',
         UNCHANGED <<ecoute, programme, compteurs>>, historique'.troubles = historique.troubles,
         EntreeLue,
         \A c \in Programmes : EnProfil(c)' => EnProfil(c),
         principal'.pc \in EtapesDepart => Phase(clients'[principal'.i].sock) = "fini",
         Calme => /\ PrincipalCalme'
                  /\ Etend(sortie, sortie', Programmes, Tranquilles)
                  /\ Connectes \subseteq Connectes'
                  /\ \A c \in Programmes : c \in Connectes' => c \in Connectes \/ EnAttente(c)
                  /\ \A t \in Threads : thread'[t].pc = "diffuse" => thread'[t].n <= nbClients'
  PROVE  IInv'
<1>1. \A c \in Programmes : /\ Phase(c)' = Phase(c) /\ programme'[c] = programme[c]
                            /\ EnAttente(c)' => EnAttente(c)
                            /\ EnFile(c)' <=> EnFile(c)
  BY DEF Phase, EnAttente, EnFile
<1>2. FileDistincte'
  BY <1>1 DEF IInv, FileDistincte
<1>3. FinAnnoncee'
  <2>1. \A c \in Programmes : \A k \in 1 .. Len(entree'[c]) :
          entree'[c][k].type = "eof" => Phase(c)' = "fini"
    BY FinLue
  <2>2. principal'.pc \in EtapesDepart => Phase(clients[principal.i].sock)' = "fini"
    BY DEF Phase
  <2> QED BY <2>1, <2>2 DEF FinAnnoncee
<1>4. ASSUME PersonneParti' PROVE Calme'
  <2>1. Calme
    BY <1>4, PersonnePartiMeme DEF IInv
  <2>2. Inscrits \subseteq Inscrits'
    BY <2>1 DEF Inscrits, Pseudo
  <2>3. sortie \in Files /\ sortie' \in Files
    BY DEF IInv, Types, Files
  <2>4. ASSUME NEW c \in Programmes, NEW k \in 1 .. Len(sortie'[c])
        PROVE  /\ sortie'[c][k].type # "delete_joueur"
               /\ sortie'[c][k].type = "DEFI/new" => sortie'[c][k].par \in Inscrits'
    <3>1. CASE k \in 1 .. Len(sortie[c]) /\ sortie'[c][k] = sortie[c][k]
      BY <2>1, <2>2, <3>1 DEF Calme
    <3>2. CASE sortie'[c][k] \in Tranquilles
      BY <2>2, <3>2 DEF Tranquilles
    <3> QED BY <2>1, <2>3, <3>1, <3>2, EtendMessage
  <2>5. ASSUME NEW c \in Programmes, NEW k \in 1 .. Len(entree'[c]), entree'[c][k].type = "DEFI/accept"
        PROVE  entree'[c][k].cible \in Inscrits'
    <3>1. PICK r \in 1 .. Len(entree[c]) : entree'[c][k] = entree[c][r]
      BY EntreeReste
    <3> QED BY <2>1, <2>2, <2>5, <3>1 DEF Calme
  <2>6. \A c \in Programmes : Phase(c)' = "sollicite" => programme'[c].defieur \in Inscrits'
    BY <1>1, <2>1, <2>2 DEF Calme
  <2>7. \A c \in Programmes : Phase(c)' = "fini" => ~EnAttente(c)' /\ c \notin Connectes'
    BY <1>1, <2>1 DEF Calme
  <2> QED BY <2>1, <2>4, <2>5, <2>6, <2>7 DEF Calme, PrincipalCalme
<1> QED BY <1>2, <1>3, <1>4 DEF IInv

\* A step that leaves the players where they are and answers no profile.
LEMMA SansInscriptionPas ==
  ASSUME IInv, Types', Poste',
         UNCHANGED <<ecoute, nbClients, programme, compteurs>>,
         historique'.troubles = historique.troubles,
         \A i \in 1..nbClients : clients'[i].sock = clients[i].sock,
         \A c \in Programmes : (EnProfil(c)' => EnProfil(c)) /\ (Accueil(c)' => Accueil(c)),
         principal'.pc \in EtapesDepart => Phase(clients[principal'.i].sock) = "fini",
         EntreeLue,
         Etend(sortie, sortie', Connectes, Paisibles),
         Calme => /\ PrincipalCalme'
                  /\ Etend(sortie, sortie', Programmes, Tranquilles)
                  /\ \A t \in Threads : thread'[t].pc = "diffuse" => thread'[t].n <= nbClients
  PROVE  IInv'
<1>1. sortie' \in Files
  BY DEF Types, Files
<1>2. Connectes' = Connectes /\ Connectes \subseteq Programmes
  BY ConnectesType DEF Connectes
<1>3. \A c \in Programmes : EnAttente(c)' => EnAttente(c)
  BY DEF EnAttente, EnFile
<1>4. \A c \in Programmes : c \in Connectes => Phase(c) # "hors" /\ ~EnAttente(c)'
  BY <1>3 DEF IInv, Connexion
<1>5. \A c \in Programmes : Accueil(c)' => Phase(c) \in {"attenteACK", "fini"}
  BY DEF IInv, Connexion
<1>6. Connexion'
  BY <1>1, <1>2, <1>4, <1>5, ConnexionPas
<1>7. AccuseSeul'
  BY <1>1, <1>2, AccusePas
<1>8. SocketsDistincts'
  BY DEF IInv, SocketsDistincts
<1>9. principal'.pc \in EtapesDepart => clients'[principal'.i].sock = clients[principal'.i].sock
  <2>1. principal'.pc \in EtapesDepart => principal'.i \in 1..nbClients
    BY DEF Poste, EtapesDepart, EtapesJoueur
  <2> QED BY <2>1
<1> QED BY <1>2, <1>6, <1>7, <1>8, <1>9, ServeurPas

\* In particular when only the main thread moves.
LEMMA PrincipalPas ==
  ASSUME IInv, principal' \in Positions, Poste',
         UNCHANGED <<ecoute, clients, nbClients, clientsInGame, thread, programme, historique, compteurs>>,
         entree' \in [Programmes -> Seq(Requetes)], EntreeLue,
         sortie' \in Files, Etend(sortie, sortie', Connectes, Paisibles),
         \A c \in Programmes : (EnProfil(c)' => EnProfil(c)) /\ (Accueil(c)' => Accueil(c)),
         principal'.pc \in EtapesDepart => Phase(clients[principal'.i].sock) = "fini",
         Calme => PrincipalCalme' /\ Etend(sortie, sortie', Programmes, Tranquilles)
  PROVE  IInv'
<1>1. Types'
  BY DEF IInv, Types, TypesServeur, TypesClients, TypesThreads, TypeHistorique, TypeCompteurs, Files
<1>2. Calme => \A t \in Threads : thread'[t].pc = "diffuse" => thread'[t].n <= nbClients
  BY DEF Calme
<1> QED BY <1>1, <1>2, SansInscriptionPas

\* Back to select after a send, or none.
LEMMA RetourPas ==
  ASSUME IInv, principal' = Select,
         UNCHANGED <<ecoute, clients, nbClients, clientsInGame, thread, programme, historique, compteurs>>,
         entree' \in [Programmes -> Seq(Requetes)], EntreeLue,
         sortie' \in Files, Etend(sortie, sortie', Connectes, Paisibles),
         Calme => Etend(sortie, sortie', Programmes, Tranquilles)
  PROVE  IInv'
<1>1. /\ principal' \in Positions /\ Poste' /\ \A c \in Programmes : ~EnProfil(c)' /\ ~Accueil(c)'
      /\ principal'.pc \notin EtapesDepart \cup EtapesDefi \cup {"jeux", "plante"}
  BY SelectPoste
<1>2. PrincipalCalme'
  BY <1>1 DEF PrincipalCalme
<1> QED BY <1>1, <1>2, PrincipalPas

\* A step that neither reads nor sends.
LEMMA RienEchange ==
  ASSUME IInv, UNCHANGED <<entree, sortie>>
  PROVE  /\ entree' \in [Programmes -> Seq(Requetes)] /\ EntreeLue
         /\ sortie' \in Files /\ Etend(sortie, sortie', Connectes, Paisibles)
         /\ Etend(sortie, sortie', Programmes, Tranquilles)
BY EtendRien DEF IInv, Types, Files, EntreeLue

-----------------------------------------------------------------------------
(* Connections. *)

\* From the kernel to connect_client.
LEMMA AccepterPas ==
  ASSUME IInv, Accepter
  PROVE  IInv'
<1>1. /\ ecoute \in Seq(Programmes) /\ ecoute # <<>> /\ principal.pc = "select"
      /\ ecoute' = Tail(ecoute)
      /\ principal' = [Select EXCEPT !.pc = "profil", !.c = Head(ecoute)]
      /\ UNCHANGED <<clients, nbClients, clientsInGame, thread, entree, sortie, programme, historique,
                     compteurs>>
  BY DEF Accepter, IInv, Types, TypesServeur, TypesClients
<1> DEFINE c0 == Head(ecoute)
<1>2. /\ c0 \in Programmes /\ c0 = ecoute[1] /\ Len(ecoute) \in Nat \ {0}
      /\ ecoute' \in Seq(Programmes) /\ Len(ecoute') = Len(ecoute) - 1
      /\ \A k \in 1 .. Len(ecoute) - 1 : ecoute'[k] = ecoute[k + 1]
  BY <1>1, QueueType
<1>3. principal'.pc = "profil" /\ principal'.c = c0 /\ principal' \in Positions
  <2>1. "profil" \in Etapes /\ c0 \in Programmes \cup {Aucun}
    BY <1>2 DEF Etapes
  <2>2. principal'.pc = "profil" /\ principal'.c = c0
    BY <1>1 DEF Select
  <2> HIDE DEF c0
  <2>3. principal' = [Select EXCEPT !.pc = "profil", !.c = c0]
    BY <1>1 DEF c0
  <2> QED BY <2>1, <2>2, <2>3, SelectType DEF Positions
<1>4. \A c \in Programmes : ~EnProfil(c) /\ (EnProfil(c)' <=> c = c0) /\ ~Accueil(c)'
  BY <1>1, <1>3 DEF EnProfil, Accueil
<1>5. ASSUME NEW c \in Programmes
      PROVE  EnFile(c) <=> (c = c0 \/ EnFile(c)')
  <2>1. ASSUME NEW k \in 1 .. Len(ecoute), ecoute[k] = c
        PROVE  c = c0 \/ EnFile(c)'
    <3>1. CASE k = 1
      BY <1>2, <2>1, <3>1
    <3>2. CASE k # 1
      <4>1. k - 1 \in 1 .. Len(ecoute') /\ ecoute'[k - 1] = c
        BY <1>2, <2>1, <3>2
      <4> QED BY <4>1 DEF EnFile
    <3> QED BY <3>1, <3>2
  <2>2. ASSUME NEW k \in 1 .. Len(ecoute'), ecoute'[k] = c
        PROVE  EnFile(c)
    <3>1. k + 1 \in 1 .. Len(ecoute) /\ ecoute[k + 1] = c
      BY <1>2, <2>2
    <3> QED BY <3>1 DEF EnFile
  <2>3. 1 \in 1 .. Len(ecoute) /\ ecoute[1] = c0
    BY <1>2
  <2> QED BY <2>1, <2>2, <2>3 DEF EnFile
<1>6. \A c \in Programmes : EnAttente(c)' <=> EnAttente(c)
  BY <1>4, <1>5 DEF EnAttente
<1>7. FileDistincte'
  <2>1. ASSUME NEW k \in 1 .. Len(ecoute'), NEW r \in 1 .. Len(ecoute'), ecoute'[k] = ecoute'[r]
        PROVE  k = r
    <3>1. k + 1 \in 1 .. Len(ecoute) /\ r + 1 \in 1 .. Len(ecoute)
          /\ ecoute[k + 1] = ecoute[r + 1]
      BY <1>2, <2>1
    <3>2. k + 1 = r + 1
      BY <3>1 DEF IInv, FileDistincte
    <3> QED BY <1>2, <3>2
  <2>2. ASSUME NEW k \in 1 .. Len(ecoute'), ecoute'[k] = c0
        PROVE  FALSE
    <3>1. k + 1 \in 1 .. Len(ecoute) /\ 1 \in 1 .. Len(ecoute) /\ ecoute[k + 1] = ecoute[1]
      BY <1>2, <2>2
    <3>2. k + 1 = 1
      BY <3>1 DEF IInv, FileDistincte
    <3> QED BY <3>2
  <2> QED BY <1>4, <2>1, <2>2 DEF FileDistincte, EnFile
<1>8. Types'
  BY <1>1, <1>2, <1>3
     DEF IInv, Types, TypesServeur, TypesClients, TypesThreads, TypeHistorique, TypeCompteurs
<1>9. \A c \in Programmes : Phase(c)' = Phase(c)
  BY <1>1 DEF Phase
<1>10. Connectes' = Connectes
  BY <1>1 DEF Connectes
<1>11. SocketsDistincts'
  BY <1>1 DEF IInv, SocketsDistincts
<1>12. Connexion'
  BY <1>1, <1>4, <1>6, <1>9, <1>10 DEF IInv, Connexion
<1>13. AccuseSeul'
  BY <1>1, <1>4, <1>9, <1>10 DEF IInv, AccuseSeul
<1>14. Poste' /\ FinAnnoncee'
  BY <1>1, <1>2, <1>3, <1>9
     DEF IInv, Poste, FinAnnoncee, EtapesJoueur, EtapesDefi, EtapesDepart
<1>15. PersonneParti' => Calme'
  <2>1. PersonneParti' => Calme
    BY <1>1, PersonnePartiMeme DEF IInv
  <2>2. Inscrits' = Inscrits
    BY <1>1, <1>10 DEF Inscrits, Pseudo
  <2>3. principal'.pc \notin EtapesDepart \cup EtapesDefi \cup {"jeux", "plante"}
    BY <1>3 DEF EtapesDepart, EtapesDefi
  <2> QED BY <1>1, <1>6, <1>9, <1>10, <2>1, <2>2, <2>3 DEF Calme
<1> QED BY <1>7, <1>8, <1>11, <1>12, <1>13, <1>14, <1>15 DEF IInv

\* A program that ended before its profile: somebody has left.
LEMMA ProfilAbsentPas ==
  ASSUME IInv, ProfilAbsent
  PROVE  IInv'
<1> DEFINE c0 == principal.c
<1>1. /\ principal.pc = "profil" /\ entree[c0] # <<>> /\ Head(entree[c0]).type = "eof"
      /\ principal' = [principal EXCEPT !.pc = "plante"]
      /\ UNCHANGED <<ecoute, clients, nbClients, clientsInGame, thread, entree, sortie, programme,
                     historique, compteurs>>
  BY DEF ProfilAbsent
<1>2. c0 \in Programmes /\ EnProfil(c0)
  BY <1>1 DEF IInv, Poste, EnProfil
<1>3. Phase(c0) = "fini"
  <2>1. entree[c0][1].type = "eof"
    BY <1>1, <1>2, QueueType, FilesType
  <2> QED BY <1>1, <1>2, <2>1, FilesType DEF IInv, FinAnnoncee
<1>4. principal'.pc = "plante" /\ principal' \in Positions
  BY <1>1, PosteType DEF Positions, Etapes
<1>5. Poste' /\ \A c \in Programmes : ~EnProfil(c)' /\ ~Accueil(c)'
  BY <1>4 DEF Poste, EtapesJoueur, EtapesDefi, EnProfil, Accueil
<1>6. principal'.pc \notin EtapesDepart
  BY <1>4 DEF EtapesDepart
<1>7. ~Calme
  BY <1>2, <1>3 DEF Calme, EnAttente
<1> QED BY <1>1, <1>4, <1>5, <1>6, <1>7, RienEchange, PrincipalPas

\* What the two ends of connect_client have in common: the program no longer
\* waits, and was sent nothing yet.
LEMMA RecoitProfilType ==
  ASSUME IInv, NEW c \in Programmes, RecoitProfil(c), UNCHANGED <<ecoute, programme>>,
         principal'.pc # "profil"
  PROVE  /\ EnAttente(c) /\ c \notin Connectes /\ sortie[c] = <<>>
         /\ Phase(c) \in {"attenteACK", "fini"}
         /\ ~EnAttente(c)'
         /\ \A d \in Programmes : ~EnProfil(d)'
         /\ entree' \in [Programmes -> Seq(Requetes)] /\ EntreeLue
<1>1. /\ principal.pc = "profil" /\ principal.c = c /\ entree[c] # <<>>
      /\ entree' = [entree EXCEPT ![c] = Tail(@)]
  BY DEF RecoitProfil
<1>2. EnProfil(c) /\ EnAttente(c)
  BY <1>1 DEF EnProfil, EnAttente
<1>3. \A d \in Programmes : (EnFile(d)' <=> EnFile(d)) /\ ~EnProfil(d)'
  BY DEF EnFile, EnProfil
<1>4. ~EnFile(c)
  BY <1>2 DEF IInv, FileDistincte
<1>5. c \notin Connectes /\ sortie[c] = <<>> /\ Phase(c) \in {"attenteACK", "fini"}
  BY <1>1, <1>2 DEF IInv, Connexion
<1>6. entree' \in [Programmes -> Seq(Requetes)] /\ EntreeLue
  <2>1. Tail(entree[c]) \in Seq(Requetes)
    BY <1>1, FilesType, QueueType
  <2> QED BY <1>1, <2>1 DEF EntreeLue, IInv, Types
<1> QED BY <1>2, <1>3, <1>4, <1>5, <1>6 DEF EnAttente

\* The refusal is the only message of its program.
LEMMA RefuserPseudoPas ==
  ASSUME IInv, NEW c \in Programmes, RefuserPseudo(c)
  PROVE  IInv'
<1> DEFINE m == [type |-> "not_connected"]
<1>1. /\ RecoitProfil(c) /\ principal' = Select
      /\ sortie' = Poster(sortie, c, m)
      /\ UNCHANGED <<ecoute, clients, nbClients, clientsInGame, thread, programme, historique, compteurs>>
  BY DEF RefuserPseudo
<1>2. /\ principal' \in Positions /\ principal'.pc = "select" /\ Poste'
      /\ \A d \in Programmes : ~EnProfil(d)' /\ ~Accueil(d)'
      /\ principal'.pc \notin EtapesDepart \cup EtapesDefi \cup {"jeux", "plante"}
  BY <1>1, SelectPoste
<1>3. /\ EnAttente(c) /\ c \notin Connectes /\ sortie[c] = <<>>
      /\ Phase(c) \in {"attenteACK", "fini"} /\ ~EnAttente(c)'
      /\ entree' \in [Programmes -> Seq(Requetes)] /\ EntreeLue
  BY <1>1, <1>2, RecoitProfilType
<1>4. m \in Messages /\ m \in Tranquilles /\ sortie \in Files
  BY FilesType DEF Messages, Accuses, Tranquilles
<1>5. Connectes' = Connectes
  BY <1>1 DEF Connectes
<1>6. \A d \in Programmes : d \in Connectes => Phase(d) # "hors" /\ ~EnAttente(d)'
  <2>1. \A d \in Programmes : EnAttente(d)' => EnAttente(d)
    BY <1>1, <1>2 DEF EnAttente, EnFile
  <2> QED BY <2>1 DEF IInv, Connexion
<1>7. \A k \in 1 .. Len(sortie[c]) : sortie[c][k].type \notin Accuses
  BY <1>3, EmptySeq
<1> HIDE DEF m
<1>8. /\ sortie' \in Files /\ Etend(sortie, sortie', {c}, Messages)
      /\ Etend(sortie, sortie', Programmes, Tranquilles)
  BY <1>1, <1>4, PosterEtend
<1>9. Connexion'
  BY <1>1, <1>2, <1>3, <1>5, <1>6, <1>8, ConnexionPas
<1>10. AccuseSeul'
  BY <1>1, <1>2, <1>3, <1>4, <1>5, <1>7, AccuseEnvoye
<1>11. SocketsDistincts'
  BY <1>1 DEF IInv, SocketsDistincts
<1>12. Types'
  BY <1>1, <1>2, <1>3, <1>8
     DEF IInv, Types, TypesServeur, TypesClients, TypesThreads, TypeHistorique, TypeCompteurs, Files
<1>13. Calme => PrincipalCalme' /\ \A t \in Threads : thread'[t].pc = "diffuse" => thread'[t].n <= nbClients'
  BY <1>1, <1>2 DEF Calme, PrincipalCalme
<1> QED BY <1>1, <1>2, <1>3, <1>5, <1>8, <1>9, <1>10, <1>11, <1>12, <1>13, ServeurPas

\* Registration: the program has a place before its ACK.
LEMMA EnregistrerPas ==
  ASSUME IInv, NEW c \in Programmes, Enregistrer(c)
  PROVE  IInv'
<1> DEFINE n == nbClients + 1
           info == Info("new_joueur", Pseudo(c), 0)
<1>1. /\ RecoitProfil(c)
      /\ nbClients' = n
      /\ clients' = [clients EXCEPT ![n] = [Libre EXCEPT !.sock = c]]
      /\ principal' = [Select EXCEPT !.pc = "nouveau", !.c = c, !.i = n, !.m = info]
      /\ UNCHANGED <<ecoute, clientsInGame, thread, sortie, programme, historique, compteurs>>
  BY DEF Enregistrer
<1>2. /\ principal'.pc = "nouveau" /\ principal'.c = c /\ principal'.i = n /\ principal'.m = info
  BY <1>1 DEF Select
<1>3. /\ EnAttente(c) /\ c \notin Connectes /\ sortie[c] = <<>>
      /\ Phase(c) \in {"attenteACK", "fini"} /\ ~EnAttente(c)'
      /\ \A d \in Programmes : ~EnProfil(d)'
      /\ entree' \in [Programmes -> Seq(Requetes)] /\ EntreeLue
  BY <1>1, <1>2, RecoitProfilType
<1>4. n \in Places /\ nbClients \in Nat /\ MaxClients \in Nat /\ n <= MaxClients
  BY <1>3, PlaceLibre, PlacesType, AnnuaireAssumption DEF Places, MaxClients
<1>5. info \in Infos /\ info \in Messages /\ info.type = "new_joueur"
  <2>1. Pseudo(c) \in Pseudos
    BY DEF Pseudo, IInv, Types, Profils
  <2> QED BY <2>1 DEF Messages, Infos, Avis, Info
<1> HIDE DEF info
<1>6. principal' \in Positions
  <2>1. /\ "nouveau" \in Etapes /\ c \in Programmes \cup {Aucun} /\ n \in 0..MaxClients
        /\ info \in Messages \cup {Rien}
    BY <1>4, <1>5 DEF Etapes
  <2> HIDE DEF n
  <2> QED BY <1>1, <2>1, SelectType DEF Positions
<1>7. /\ clients' \in [Places -> Inscriptions]
      /\ clients'[n].sock = c
      /\ \A i \in 1..nbClients : i \in Places /\ i # n /\ clients'[i] = clients[i]
  <2>1. [Libre EXCEPT !.sock = c] \in Inscriptions /\ [Libre EXCEPT !.sock = c].sock = c
    BY DEF Libre, Inscriptions
  <2>2. clients \in [Places -> Inscriptions]
    BY PlacesType
  <2>3. clients' \in [Places -> Inscriptions] /\ clients'[n].sock = c
        /\ \A i \in Places : i # n => clients'[i] = clients[i]
    BY <1>1, <1>4, <2>1, <2>2
  <2>4. \A i \in 1..nbClients : i \in Places /\ i # n
    BY <1>4 DEF Places
  <2> QED BY <2>3, <2>4
<1>8. \A i \in 1 .. n : i \in 1..nbClients \/ i = n
  BY <1>4
<1>9. n \in 1..n /\ 1..nbClients \subseteq 1..n
  BY <1>4
<1>10. Connectes' = Connectes \cup {c}
  BY <1>1, <1>7, <1>8, <1>9 DEF Connectes
<1>11. Types'
  <2>1. \A i \in 1 .. n : clients'[i].sock \in Programmes
    BY <1>7, <1>8, PlacesType
  <2>2. n \in 0..MaxClients
    BY <1>4
  <2>3. TypesClients'
    BY <1>1, <1>7, <2>1, <2>2 DEF IInv, Types, TypesServeur, TypesClients
  <2> QED BY <1>1, <1>3, <1>6, <2>3
          DEF IInv, Types, TypesServeur, TypesThreads, TypeHistorique, TypeCompteurs
<1>12. SocketsDistincts'
  <2>1. SUFFICES ASSUME NEW i \in 1..n, NEW j \in 1..n, clients'[i].sock = clients'[j].sock
                 PROVE  i = j
    BY <1>1 DEF SocketsDistincts
  <2>2. \A k \in 1..nbClients : clients[k].sock # c
    BY <1>3 DEF Connectes
  <2> QED BY <1>7, <1>8, <2>1, <2>2 DEF IInv, SocketsDistincts
<1>13. Poste'
  <2>1. n \in 1..nbClients'
    BY <1>1, <1>9
  <2> QED BY <1>2, <1>5, <1>7, <2>1 DEF Poste, EtapesJoueur, EtapesDefi
<1>14. \A d \in Programmes : Accueil(d)' => d = c
  BY <1>2 DEF Accueil
<1>15. sortie \in Files /\ sortie' \in Files
       /\ \A qui, S : Etend(sortie, sortie', qui, S)
  <2>1. sortie \in Files
    BY <1>3, FilesType
  <2> QED BY <1>1, <2>1, EtendRien
<1>16. \A d \in Programmes : d \in Connectes' => Phase(d) # "hors" /\ ~EnAttente(d)'
  <2>1. \A d \in Programmes : EnAttente(d)' => EnAttente(d)
    BY <1>1, <1>3 DEF EnAttente, EnFile
  <2> QED BY <1>3, <1>10, <2>1 DEF IInv, Connexion
<1>17. Connexion'
  <2>1. Etend(sortie, sortie', {}, Messages)
    BY <1>15
  <2> QED BY <1>1, <1>3, <1>14, <1>15, <1>16, <2>1, ConnexionPas
<1>18. AccuseSeul'
  <2>1. Etend(sortie, sortie', {}, Paisibles)
    BY <1>15
  <2>2. \A d \in Programmes : /\ Accueil(d)' => Accueil(d) \/ sortie'[d] = <<>>
                              /\ d \in Connectes' => d \in Connectes \/ sortie'[d] = <<>>
    BY <1>1, <1>3, <1>10, <1>14
  <2> QED BY <1>1, <1>15, <2>1, <2>2, AccusePas
<1>19. principal'.pc \notin EtapesDepart \cup EtapesDefi \cup {"jeux", "plante"}
  BY <1>2 DEF EtapesDepart, EtapesDefi
<1>20. Calme => /\ PrincipalCalme'
                /\ Connectes \subseteq Connectes'
                /\ \A d \in Programmes : d \in Connectes' => d \in Connectes \/ EnAttente(d)
                /\ \A t \in Threads : thread'[t].pc = "diffuse" => thread'[t].n <= nbClients'
  <2>1. \A t \in Threads : thread[t].n \in Nat
    BY DEF IInv, Types, TypesServeur, TypesThreads, Taches
  <2> QED BY <1>1, <1>3, <1>4, <1>10, <1>19, <2>1 DEF Calme, PrincipalCalme
<1>21. Etend(sortie, sortie', Programmes, Tranquilles)
  BY <1>15
<1> QED BY <1>1, <1>3, <1>11, <1>12, <1>13, <1>17, <1>18, <1>19, <1>20, <1>21, ServeurPas

\* The ACK, after the broadcast.
LEMMA EnvoyerACKPas ==
  ASSUME IInv, EnvoyerACK
  PROVE  IInv'
<1> DEFINE c == principal.c
           m == [type |-> "connect"]
<1>1. /\ principal.pc = "nouveau" /\ principal' = Select
      /\ sortie' = Poster(sortie, c, m)
      /\ UNCHANGED <<ecoute, clients, nbClients, clientsInGame, thread, entree, programme, historique,
                     compteurs>>
  BY DEF EnvoyerACK, Annonce
<1>2. /\ principal' \in Positions /\ principal'.pc = "select" /\ Poste'
      /\ \A d \in Programmes : ~EnProfil(d)' /\ ~Accueil(d)'
      /\ principal'.pc \notin EtapesDepart \cup EtapesDefi \cup {"jeux", "plante"}
  BY <1>1, SelectPoste
<1>3. c \in Programmes /\ c \in Connectes /\ Accueil(c)
  <2>1. principal.i \in 1..nbClients /\ c = clients[principal.i].sock
    BY <1>1 DEF IInv, Poste, EtapesJoueur
  <2> QED BY <1>1, <2>1, PlacesType DEF Connectes, Accueil
<1>4. m \in Messages /\ m \in Tranquilles /\ sortie \in Files /\ m.type # "not_connected"
  BY <1>3, FilesType DEF Messages, Accuses, Tranquilles
<1>5. Connectes' = Connectes
  BY <1>1 DEF Connectes
<1>6. \A d \in Programmes : d \in Connectes => Phase(d) # "hors" /\ ~EnAttente(d)'
  <2>1. \A d \in Programmes : EnAttente(d)' => EnAttente(d)
    BY <1>1, <1>2 DEF EnAttente, EnFile
  <2> QED BY <2>1 DEF IInv, Connexion
<1>7. /\ Phase(c) \in {"attenteACK", "fini"}
      /\ \A k \in 1 .. Len(sortie[c]) : sortie[c][k].type \notin Accuses
  BY <1>3 DEF IInv, Connexion, AccuseSeul
<1>8. entree' \in [Programmes -> Seq(Requetes)] /\ EntreeLue
  BY <1>1 DEF EntreeLue, IInv, Types
<1> HIDE DEF m, c
<1>9. /\ sortie' \in Files /\ Etend(sortie, sortie', {c}, Messages)
      /\ Etend(sortie, sortie', Programmes, Tranquilles)
  BY <1>1, <1>3, <1>4, PosterEtend
<1>10. Connexion'
  BY <1>1, <1>2, <1>3, <1>5, <1>6, <1>8, <1>9, ConnexionPas
<1>11. AccuseSeul'
  BY <1>1, <1>2, <1>3, <1>4, <1>5, <1>7, AccuseEnvoye
<1>12. SocketsDistincts'
  BY <1>1 DEF IInv, SocketsDistincts
<1>13. Types'
  BY <1>1, <1>2, <1>9
     DEF IInv, Types, TypesServeur, TypesClients, TypesThreads, TypeHistorique, TypeCompteurs, Files
<1>14. Calme => PrincipalCalme' /\ \A t \in Threads : thread'[t].pc = "diffuse" => thread'[t].n <= nbClients'
  BY <1>1, <1>2 DEF Calme, PrincipalCalme
<1> QED BY <1>1, <1>2, <1>5, <1>8, <1>9, <1>10, <1>11, <1>12, <1>13, <1>14, ServeurPas

-----------------------------------------------------------------------------
(* Handlers of the main thread that move no player. *)

\* Outside a connection nobody is waited for or about to be answered.
LEMMA HorsConnexion ==
  ASSUME principal'.pc \notin {"profil", "nouveau"}, NEW c \in Programmes
  PROVE  (EnProfil(c)' => EnProfil(c)) /\ (Accueil(c)' => Accueil(c))
BY DEF EnProfil, Accueil

\* One send of a broadcast of the main thread.
LEMMA AnnoncerPas ==
  ASSUME IInv, Annoncer
  PROVE  IInv'
<1>1. /\ principal.pc \in {"nouveau", "annonce", "depart"}
      /\ UNCHANGED <<ecoute, clients, nbClients, clientsInGame, thread, entree, programme, historique,
                     compteurs>>
  BY DEF Annoncer
<1>2. PICK k \in ResteADire : /\ sortie' = Poster(sortie, clients[k].sock, principal.m)
                              /\ principal' = [principal EXCEPT !.k = k + 1]
  BY DEF Annoncer
<1> DEFINE d == clients[k].sock
<1>3. k \in 1..nbClients /\ k + 1 \in Nat \ {0} /\ d \in Programmes /\ d \in Connectes
  <2>1. principal.k \in Nat \ {0} /\ nbClients \in Nat
    BY PosteType, PlacesType
  <2>2. k \in 1..nbClients /\ k + 1 \in Nat \ {0}
    BY <2>1 DEF ResteADire
  <2> QED BY <2>2, PlacesType DEF Connectes
<1>4. /\ principal.m \in Infos /\ principal.m \in Messages
      /\ principal.m \in Paisibles
      /\ principal.pc # "depart" => principal.m \in Tranquilles
  <2>1. /\ principal.m \in Infos
        /\ principal.pc # "depart" => principal.m.type # "delete_joueur"
    BY <1>1 DEF IInv, Poste
  <2> QED BY <2>1 DEF Infos, Avis, Messages, Paisibles, Accuses, Tranquilles
<1>5. /\ principal' \in Positions
      /\ principal'.pc = principal.pc /\ principal'.c = principal.c /\ principal'.i = principal.i
      /\ principal'.auteur = principal.auteur /\ principal'.etat = principal.etat
      /\ principal'.cible = principal.cible /\ principal'.m = principal.m
      /\ principal'.t = principal.t
  BY <1>2, <1>3, PosteType DEF Positions
<1>6. Poste'
  <2>1. ThreadNeuf' = ThreadNeuf /\ Connectes' = Connectes
    BY <1>1 DEF ThreadNeuf, Connectes
  <2> QED BY <1>1, <1>5, <2>1 DEF IInv, Poste
<1>7. sortie \in Files
  BY <1>3, FilesType
<1>8. /\ sortie' \in Files /\ Etend(sortie, sortie', Connectes, Paisibles)
      /\ principal.pc # "depart" => Etend(sortie, sortie', Programmes, Tranquilles)
  BY <1>2, <1>3, <1>4, <1>7, PosterEtend
<1>9. entree' \in [Programmes -> Seq(Requetes)] /\ EntreeLue
  BY <1>1 DEF EntreeLue, IInv, Types
<1>10. \A c \in Programmes : (EnProfil(c)' => EnProfil(c)) /\ (Accueil(c)' => Accueil(c))
  BY <1>5 DEF EnProfil, Accueil
<1>11. principal'.pc \in EtapesDepart => Phase(clients[principal'.i].sock) = "fini"
  BY <1>5 DEF IInv, FinAnnoncee
<1>12. Calme => PrincipalCalme' /\ principal.pc # "depart"
  <2>1. Inscrits' = Inscrits
    BY <1>1 DEF Inscrits, Connectes, Pseudo
  <2>2. "depart" \in EtapesDepart
    BY DEF EtapesDepart
  <2> QED BY <1>5, <2>1, <2>2 DEF Calme, PrincipalCalme
<1> QED BY <1>1, <1>5, <1>6, <1>8, <1>9, <1>10, <1>11, <1>12, PrincipalPas

\* GET/list_joueur: the list is written down.
LEMMA PreparerListePas ==
  ASSUME IInv, NEW i \in Places, PreparerListe(i)
  PROVE  IInv'
<1> DEFINE c == clients[i].sock
           m == [type |-> "liste", joueurs |-> Autres(i)]
<1>1. /\ Servir(i)
      /\ principal' = [Select EXCEPT !.pc = "liste", !.c = c, !.m = m]
      /\ UNCHANGED <<ecoute, clients, nbClients, clientsInGame, thread, sortie, programme, historique,
                     compteurs>>
  BY DEF PreparerListe
<1>2. /\ i \in 1..nbClients /\ c \in Programmes /\ c \in Connectes
      /\ entree' \in [Programmes -> Seq(Requetes)] /\ EntreeLue
  BY <1>1, ServirType
<1>3. m \in Listes /\ m \in Messages
  BY <1>2, AutresType DEF Messages, Listes
<1> HIDE DEF m, c
<1>4. /\ principal' \in Positions /\ principal'.pc = "liste" /\ principal'.c = c /\ principal'.m = m
  <2>1. "liste" \in Etapes /\ c \in Programmes \cup {Aucun} /\ m \in Messages \cup {Rien}
    BY <1>2, <1>3 DEF Etapes
  <2>2. principal'.pc = "liste" /\ principal'.c = c /\ principal'.m = m
    BY <1>1 DEF Select
  <2> QED BY <1>1, <2>1, <2>2, SelectType DEF Positions
<1>5. Poste'
  <2>1. c \in Connectes'
    BY <1>1, <1>2 DEF Connectes
  <2> QED BY <1>3, <1>4, <2>1 DEF Poste, EtapesJoueur, EtapesDefi
<1>6. /\ sortie' \in Files /\ Etend(sortie, sortie', Connectes, Paisibles)
      /\ Etend(sortie, sortie', Programmes, Tranquilles)
  BY <1>1, EtendRien DEF IInv, Types, Files
<1>7. principal'.pc \notin EtapesDepart \cup EtapesDefi \cup {"jeux", "plante", "profil", "nouveau"}
  BY <1>4 DEF EtapesDepart, EtapesDefi
<1>8. \A d \in Programmes : (EnProfil(d)' => EnProfil(d)) /\ (Accueil(d)' => Accueil(d))
  BY <1>7, HorsConnexion
<1>9. PrincipalCalme'
  BY <1>7 DEF PrincipalCalme
<1> QED BY <1>1, <1>2, <1>4, <1>5, <1>6, <1>7, <1>8, <1>9, PrincipalPas

\* The list is sent.
LEMMA EnvoyerListePas ==
  ASSUME IInv, EnvoyerListe
  PROVE  IInv'
<1>1. /\ principal.pc = "liste" /\ principal' = Select
      /\ sortie' = Poster(sortie, principal.c, principal.m)
      /\ UNCHANGED <<ecoute, clients, nbClients, clientsInGame, thread, entree, programme, historique,
                     compteurs>>
  BY DEF EnvoyerListe
<1>2. /\ principal.c \in Connectes /\ principal.c \in Programmes
      /\ principal.m \in Messages /\ principal.m \in Paisibles /\ principal.m \in Tranquilles
  <2>1. principal.m \in Listes /\ principal.c \in Connectes
    BY <1>1 DEF IInv, Poste
  <2> QED BY <2>1, ConnectesType DEF Listes, Messages, Paisibles, Accuses, Tranquilles
<1>3. /\ sortie' \in Files /\ Etend(sortie, sortie', Connectes, Paisibles)
      /\ Etend(sortie, sortie', Programmes, Tranquilles)
  BY <1>1, <1>2, FilesType, PosterEtend
<1>4. entree' \in [Programmes -> Seq(Requetes)] /\ EntreeLue
  BY <1>1 DEF EntreeLue, IInv, Types
<1> QED BY <1>1, <1>3, <1>4, RetourPas

\* What a game receives is read and forgotten here.
LEMMA TransmettreAuJeuPas ==
  ASSUME IInv, NEW i \in Places, TransmettreAuJeu(i)
  PROVE  IInv'
<1>1. /\ Servir(i)
      /\ UNCHANGED <<ecoute, clients, nbClients, clientsInGame, principal, thread, sortie, programme,
                     historique, compteurs>>
  BY DEF TransmettreAuJeu
<1>2. entree' \in [Programmes -> Seq(Requetes)] /\ EntreeLue /\ principal.pc = "select"
  BY <1>1, ServirType
<1>3. /\ sortie' \in Files /\ Etend(sortie, sortie', Connectes, Paisibles)
      /\ Etend(sortie, sortie', Programmes, Tranquilles)
  BY <1>1, EtendRien DEF IInv, Types, Files
<1>4. principal' \in Positions /\ Poste'
  BY <1>1, <1>2, PosteType DEF Poste, EtapesJoueur, EtapesDefi
<1>5. principal'.pc \notin EtapesDepart \cup EtapesDefi \cup {"jeux", "plante", "profil", "nouveau"}
  BY <1>1, <1>2 DEF EtapesDepart, EtapesDefi
<1>6. \A d \in Programmes : (EnProfil(d)' => EnProfil(d)) /\ (Accueil(d)' => Accueil(d))
  BY <1>5, HorsConnexion
<1>7. PrincipalCalme'
  BY <1>5 DEF PrincipalCalme
<1> QED BY <1>1, <1>2, <1>3, <1>4, <1>5, <1>6, <1>7, PrincipalPas

-----------------------------------------------------------------------------
(* Challenges. *)

\* A request is relayed, or the player that it names has left.
LEMMA RelayerDefiPas ==
  ASSUME IInv, NEW i \in Places, NEW type \in Defis, NEW etat \in 0..3, RelayerDefi(i, type, etat),
         etat = 2 => type = "DEFI/accept"
  PROVE  IInv'
<1> DEFINE a == clients[i].sock
           cible == Lu(i).cible
           suite(j, auteur) == [Select EXCEPT !.pc = "change", !.i = j, !.c = clients[j].sock,
                                  !.auteur = auteur, !.cible = cible, !.etat = etat]
           m == [type |-> type, pseudo |-> cible, etat |-> 1, par |-> Pseudo(a)]
<1>1. /\ Servir(i) /\ Lu(i).type = type
      /\ type = "DEFI/accept" => ThreadNeuf
      /\ UNCHANGED <<ecoute, clients, nbClients, clientsInGame, thread, programme, historique, compteurs>>
  BY DEF RelayerDefi, ThreadNeuf
<1>2. /\ i \in 1..nbClients /\ a \in Programmes /\ a \in Connectes
      /\ Lu(i) \in Requetes
      /\ Lu(i) = entree[a][1] /\ 1 \in 1 .. Len(entree[a])
      /\ entree' \in [Programmes -> Seq(Requetes)] /\ EntreeLue
  BY <1>1, ServirType
<1>3. cible \in Pseudos /\ (Calme /\ etat = 2 => cible \in Inscrits)
  BY <1>1, <1>2, CibleType DEF Calme
<1>4. m \in Messages /\ m \in Paisibles /\ m \in Tranquilles
  <2>1. Pseudo(a) \in Pseudos
    BY <1>2 DEF Pseudo, IInv, Types, Profils
  <2>2. m \in Messages
    BY <1>3, <2>1 DEF Messages
  <2>3. Pseudo(a) \in Inscrits
    BY <1>2 DEF Inscrits
  <2> QED BY <2>2, <2>3 DEF Paisibles, Accuses, Tranquilles, Defis
<1>5. sortie \in Files
  BY <1>2, FilesType
<1> HIDE DEF m, cible
<1>6. ASSUME NEW j \in 1..nbClients, NEW auteur \in 0..nbClients, principal' = suite(j, auteur),
             \/ UNCHANGED sortie
             \/ sortie' = Poster(sortie, clients[j].sock, m)
      PROVE  IInv'
  <2>1. /\ principal'.pc = "change" /\ principal'.i = j /\ principal'.c = clients[j].sock
        /\ principal'.auteur = auteur /\ principal'.cible = cible /\ principal'.etat = etat
    BY <1>6 DEF Select
  <2>2. clients[j].sock \in Programmes /\ clients[j].sock \in Connectes
    BY PlacesType DEF Connectes
  <2>3. principal' \in Positions
    <3>1. /\ "change" \in Etapes /\ clients[j].sock \in Programmes \cup {Aucun}
          /\ j \in 0..MaxClients /\ auteur \in 0..MaxClients
      BY <2>2, PlacesType DEF Etapes
    <3> QED BY <1>3, <1>6, <3>1, SelectType DEF Positions
  <2>4. Poste'
    <3>1. ThreadNeuf' = ThreadNeuf
      BY <1>1 DEF ThreadNeuf
    <3> QED BY <1>1, <2>1, <3>1 DEF Poste, EtapesJoueur, EtapesDefi
  <2>5. /\ sortie' \in Files /\ Etend(sortie, sortie', Connectes, Paisibles)
        /\ Etend(sortie, sortie', Programmes, Tranquilles)
    <3>1. CASE UNCHANGED sortie
      BY <1>5, <3>1, EtendRien
    <3>2. CASE sortie' = Poster(sortie, clients[j].sock, m)
      BY <1>4, <1>5, <2>2, <3>2, PosterEtend
    <3> QED BY <1>6, <3>1, <3>2
  <2>6. principal'.pc \notin EtapesDepart \cup {"jeux", "plante", "profil", "nouveau"}
    BY <2>1 DEF EtapesDepart
  <2>7. \A d \in Programmes : (EnProfil(d)' => EnProfil(d)) /\ (Accueil(d)' => Accueil(d))
    BY <2>6, HorsConnexion
  <2>8. Calme => PrincipalCalme'
    <3>1. Inscrits' = Inscrits
      BY <1>1 DEF Inscrits, Connectes, Pseudo
    <3> QED BY <1>3, <2>1, <2>6, <3>1 DEF PrincipalCalme
  <2> QED BY <1>1, <1>2, <2>3, <2>4, <2>5, <2>6, <2>7, <2>8, PrincipalPas
<1>7. \/ principal' = suite(i, Aucun) /\ UNCHANGED sortie
      \/ \E j \in PlacesDe(cible) :
           sortie' = Poster(sortie, clients[j].sock, m) /\ principal' = suite(j, i)
  BY DEF RelayerDefi, m, cible
<1>8. CASE principal' = suite(i, Aucun) /\ UNCHANGED sortie
  <2>1. Aucun \in 0..nbClients
    BY PlacesType DEF Aucun
  <2> QED BY <1>2, <1>6, <1>8, <2>1
<1>9. ASSUME NEW j \in PlacesDe(cible),
             sortie' = Poster(sortie, clients[j].sock, m), principal' = suite(j, i)
      PROVE  IInv'
  <2>1. j \in 1..nbClients /\ i \in 0..nbClients
    BY <1>2 DEF PlacesDe
  <2> QED BY <1>6, <1>9, <2>1
<1> QED BY <1>7, <1>8, <1>9

\* The three requests that are relayed.
LEMMA RelayerPas ==
  ASSUME IInv, NEW i \in Places, Relayer(i)
  PROVE  IInv'
<1>1. /\ "DEFI/new" \in Defis /\ "DEFI/accept" \in Defis /\ "DEFI/decline" \in Defis
      /\ 0 \in 0..3 /\ 1 \in 0..3 /\ 2 \in 0..3 /\ 0 # 2 /\ 1 # 2
  BY DEF Defis
<1> QED BY <1>1, RelayerDefiPas DEF Relayer

\* The state of the player is set.
LEMMA ChangerPas ==
  ASSUME IInv, Changer
  PROVE  IInv'
<1> DEFINE i == principal.i
<1>1. /\ principal.pc = "change"
      /\ clients' = [clients EXCEPT ![i].etat = principal.etat]
      /\ principal' = [principal EXCEPT !.pc = "compose"]
      /\ historique' = [historique EXCEPT !.croises = @ \cup (Annonces \cap {principal.c})]
      /\ UNCHANGED <<ecoute, nbClients, clientsInGame, thread, entree, sortie, programme, compteurs>>
  BY DEF Changer
<1>2. i \in 1..nbClients /\ i \in Places /\ principal.c = clients[i].sock /\ principal.c \in Programmes
  <2>1. i \in 1..nbClients /\ principal.c = clients[i].sock
    BY <1>1 DEF IInv, Poste, EtapesJoueur
  <2> QED BY <2>1, PlacesType
<1>3. /\ clients' \in [Places -> Inscriptions]
      /\ \A k \in Places : clients'[k].sock = clients[k].sock
  <2>1. clients \in [Places -> Inscriptions] /\ principal.etat \in 0..3
    BY PlacesType, PosteType
  <2> QED BY <1>1, <2>1 DEF Inscriptions
<1>4. \A k \in 1..nbClients : clients'[k].sock = clients[k].sock
  BY <1>3, PlacesType
<1>5. /\ principal' \in Positions /\ principal'.pc = "compose"
      /\ principal'.c = principal.c /\ principal'.i = i
      /\ principal'.auteur = principal.auteur /\ principal'.etat = principal.etat
      /\ principal'.cible = principal.cible
  <2>1. "compose" \in Etapes
    BY DEF Etapes
  <2> QED BY <1>1, <2>1, PosteType DEF Positions
<1>6. TypeHistorique' /\ historique'.troubles = historique.troubles
  BY <1>1, <1>2 DEF IInv, Types, TypeHistorique
<1>7. Types'
  <2>1. \A k \in 1..nbClients : clients'[k].sock \in Programmes
    BY <1>4, PlacesType
  <2>2. TypesClients'
    BY <1>1, <1>3, <2>1 DEF IInv, Types, TypesServeur, TypesClients
  <2> QED BY <1>1, <1>5, <1>6, <2>2 DEF IInv, Types, TypesServeur, TypesThreads, TypeCompteurs
<1>8. Poste'
  <2>1. ThreadNeuf' = ThreadNeuf
    BY <1>1 DEF ThreadNeuf
  <2>2. /\ principal.auteur \in 0..nbClients
        /\ principal.etat = 2 => ThreadNeuf
    BY <1>1 DEF IInv, Poste, EtapesDefi
  <2>3. principal'.c = clients'[i].sock
    BY <1>2, <1>4, <1>5
  <2> QED BY <1>1, <1>2, <1>5, <2>1, <2>2, <2>3 DEF Poste, EtapesJoueur, EtapesDefi
<1>9. principal'.pc \notin EtapesDepart \cup {"jeux", "plante", "profil", "nouveau"}
  BY <1>5 DEF EtapesDepart
<1>10. \A d \in Programmes : (EnProfil(d)' => EnProfil(d)) /\ (Accueil(d)' => Accueil(d))
  BY <1>9, HorsConnexion
<1>11. /\ EntreeLue /\ Etend(sortie, sortie', Connectes, Paisibles)
       /\ Etend(sortie, sortie', Programmes, Tranquilles)
  BY <1>1, RienEchange
<1>12. Calme => /\ PrincipalCalme'
                /\ \A t \in Threads : thread'[t].pc = "diffuse" => thread'[t].n <= nbClients
  <2>1. Connectes' = Connectes
    BY <1>1, <1>4 DEF Connectes
  <2>2. Inscrits' = Inscrits
    BY <1>1, <2>1 DEF Inscrits, Pseudo
  <2>3. principal.pc \in EtapesDefi
    BY <1>1 DEF EtapesDefi
  <2> QED BY <1>1, <1>5, <1>9, <2>2, <2>3 DEF Calme, PrincipalCalme
<1> QED BY <1>1, <1>4, <1>6, <1>7, <1>8, <1>9, <1>10, <1>11, <1>12, SansInscriptionPas

\* The main thread goes on without reading, sending or changing anything.
LEMMA SuitePas ==
  ASSUME IInv, principal' \in Positions, Poste',
         UNCHANGED <<ecoute, clients, nbClients, clientsInGame, thread, entree, sortie, programme,
                     historique, compteurs>>,
         principal'.pc \notin {"profil", "nouveau"},
         principal'.pc \in EtapesDepart => Phase(clients[principal'.i].sock) = "fini",
         Calme => PrincipalCalme'
  PROVE  IInv'
BY HorsConnexion, RienEchange, PrincipalPas

\* The state is written down for the broadcast.
LEMMA ComposerPas ==
  ASSUME IInv, Composer
  PROVE  IInv'
<1> DEFINE i == principal.i
           m == Info("update_etat_joueur", Pseudo(principal.c), clients[i].etat)
<1>1. /\ principal.pc = "compose"
      /\ principal' = [principal EXCEPT !.pc = "annonce", !.m = m]
      /\ UNCHANGED <<ecoute, clients, nbClients, clientsInGame, thread, entree, sortie, programme,
                     historique, compteurs>>
  BY DEF Composer
<1>2. i \in 1..nbClients /\ i \in Places /\ principal.c = clients[i].sock /\ principal.c \in Programmes
  <2>1. i \in 1..nbClients /\ principal.c = clients[i].sock
    BY <1>1 DEF IInv, Poste, EtapesJoueur
  <2> QED BY <2>1, PlacesType
<1>3. m \in Infos /\ m \in Messages /\ m.type = "update_etat_joueur"
  <2>1. Pseudo(principal.c) \in Pseudos
    BY <1>2 DEF Pseudo, IInv, Types, Profils
  <2>2. clients[i].etat \in 0..3
    BY <1>2, PlacesType DEF Inscriptions
  <2> QED BY <2>1, <2>2 DEF Info, Infos, Avis, Messages
<1> HIDE DEF m
<1>4. /\ principal' \in Positions /\ principal'.pc = "annonce" /\ principal'.m = m
      /\ principal'.c = principal.c /\ principal'.i = i
      /\ principal'.auteur = principal.auteur /\ principal'.etat = principal.etat
      /\ principal'.cible = principal.cible
  <2>1. "annonce" \in Etapes /\ m \in Messages \cup {Rien}
    BY <1>3 DEF Etapes
  <2> QED BY <1>1, <2>1, PosteType DEF Positions
<1>5. Poste'
  <2>1. ThreadNeuf' = ThreadNeuf
    BY <1>1 DEF ThreadNeuf
  <2>2. principal.auteur \in 0..nbClients /\ (principal.etat = 2 => ThreadNeuf)
    BY <1>1 DEF IInv, Poste, EtapesDefi
  <2> QED BY <1>1, <1>2, <1>3, <1>4, <2>1, <2>2 DEF Poste, EtapesJoueur, EtapesDefi
<1>6. principal'.pc \notin EtapesDepart \cup {"jeux", "plante", "profil", "nouveau"}
  BY <1>4 DEF EtapesDepart
<1>7. Calme => PrincipalCalme'
  <2>1. Inscrits' = Inscrits
    BY <1>1 DEF Inscrits, Connectes, Pseudo
  <2>2. principal.pc \in EtapesDefi
    BY <1>1 DEF EtapesDefi
  <2> QED BY <1>4, <1>6, <2>1, <2>2 DEF Calme, PrincipalCalme
<1> QED BY <1>1, <1>4, <1>5, <1>6, <1>7, SuitePas

\* After the player that was named, the sender.
LEMMA PasserAuteurPas ==
  ASSUME IInv, PasserAuteur
  PROVE  IInv'
<1> DEFINE a == principal.auteur
<1>1. /\ principal.pc = "annonce" /\ a # Aucun
      /\ principal' = [principal EXCEPT !.pc = "change", !.i = a, !.auteur = Aucun,
                         !.c = clients[a].sock, !.k = 1, !.m = Rien]
      /\ UNCHANGED <<ecoute, clients, nbClients, clientsInGame, thread, entree, sortie, programme,
                     historique, compteurs>>
  BY DEF PasserAuteur, Annonce
<1>2. /\ a \in 1..nbClients /\ clients[a].sock \in Programmes /\ a \in 0..MaxClients
      /\ Aucun \in 0..nbClients /\ Aucun \in 0..MaxClients
  <2>1. a \in 0..nbClients
    BY <1>1 DEF IInv, Poste, EtapesDefi
  <2>2. nbClients \in Nat /\ MaxClients \in Nat /\ nbClients <= MaxClients
    BY PlacesType
  <2>3. a \in 1..nbClients
    BY <1>1, <2>1, <2>2 DEF Aucun
  <2> QED BY <2>2, <2>3, PlacesType DEF Aucun
<1> HIDE DEF a
<1>3. /\ principal' \in Positions /\ principal'.pc = "change" /\ principal'.i = a
      /\ principal'.c = clients[a].sock /\ principal'.auteur = Aucun
      /\ principal'.etat = principal.etat /\ principal'.cible = principal.cible
  <2> DEFINE v1 == [principal EXCEPT !.pc = "change"]
             v2 == [v1 EXCEPT !.i = a]
             v3 == [v2 EXCEPT !.auteur = Aucun]
             v4 == [v3 EXCEPT !.c = clients[a].sock]
             v5 == [v4 EXCEPT !.k = 1]
             v6 == [v5 EXCEPT !.m = Rien]
  <2>0. principal' = v6
    BY <1>1
  <2>1. /\ v1 \in Positions /\ v1.pc = "change"
        /\ v1.etat = principal.etat /\ v1.cible = principal.cible
    <3>1. "change" \in Etapes
      BY DEF Etapes
    <3> QED BY <3>1, PosteType DEF Positions
  <2> HIDE DEF v1
  <2>2. /\ v2 \in Positions /\ v2.pc = "change" /\ v2.i = a
        /\ v2.etat = principal.etat /\ v2.cible = principal.cible
    BY <1>2, <2>1 DEF Positions
  <2> HIDE DEF v2
  <2>3. /\ v3 \in Positions /\ v3.pc = "change" /\ v3.i = a /\ v3.auteur = Aucun
        /\ v3.etat = principal.etat /\ v3.cible = principal.cible
    BY <1>2, <2>2 DEF Positions
  <2> HIDE DEF v3
  <2>4. /\ v4 \in Positions /\ v4.pc = "change" /\ v4.i = a /\ v4.auteur = Aucun
        /\ v4.etat = principal.etat /\ v4.cible = principal.cible /\ v4.c = clients[a].sock
    BY <1>2, <2>3 DEF Positions
  <2> HIDE DEF v4
  <2>5. /\ v5 \in Positions /\ v5.pc = "change" /\ v5.i = a /\ v5.auteur = Aucun
        /\ v5.etat = principal.etat /\ v5.cible = principal.cible /\ v5.c = clients[a].sock
    BY <2>4 DEF Positions
  <2> HIDE DEF v5
  <2>6. /\ v6 \in Positions /\ v6.pc = "change" /\ v6.i = a /\ v6.auteur = Aucun
        /\ v6.etat = principal.etat /\ v6.cible = principal.cible /\ v6.c = clients[a].sock
    <3>1. Rien \in Messages \cup {Rien}
      OBVIOUS
    <3> HIDE DEF Rien
    <3> QED BY <2>5, <3>1 DEF Positions
  <2> QED BY <2>0, <2>6
<1>4. Poste'
  <2>1. ThreadNeuf' = ThreadNeuf
    BY <1>1 DEF ThreadNeuf
  <2>2. principal.etat = 2 => ThreadNeuf
    BY <1>1 DEF IInv, Poste, EtapesDefi
  <2> QED BY <1>1, <1>2, <1>3, <2>1, <2>2 DEF Poste, EtapesJoueur, EtapesDefi
<1>5. principal'.pc \notin EtapesDepart \cup {"jeux", "plante", "profil", "nouveau"}
  BY <1>3 DEF EtapesDepart
<1>6. Calme => PrincipalCalme'
  <2>1. Inscrits' = Inscrits
    BY <1>1 DEF Inscrits, Connectes, Pseudo
  <2>2. principal.pc \in EtapesDefi
    BY <1>1 DEF EtapesDefi
  <2> QED BY <1>3, <1>5, <2>1, <2>2 DEF Calme, PrincipalCalme
<1> QED BY <1>1, <1>3, <1>4, <1>5, <1>6, SuitePas

\* The end of a challenge or of a refusal.
LEMMA FinDefiPas ==
  ASSUME IInv, FinDefi
  PROVE  IInv'
<1>1. /\ principal' = Select
      /\ UNCHANGED <<ecoute, clients, nbClients, clientsInGame, thread, entree, sortie, programme,
                     historique, compteurs>>
  BY DEF FinDefi
<1> QED BY <1>1, RienEchange, RetourPas

\* A game that begins.
LEMMA JeuType ==
  ASSUME NEW a \in Programmes, NEW b \in Programmes
  PROVE  /\ [Neuf EXCEPT !.pc = "jeu", !.j1 = a, !.j2 = b] \in Taches
         /\ [Neuf EXCEPT !.pc = "jeu", !.j1 = a, !.j2 = b].pc = "jeu"
<1>1. Neuf \in Taches
  BY DEF Neuf, Taches, Aucun
<1> QED BY <1>1 DEF Taches

\* start_game; the challenger is there if nobody has left.
LEMMA DemarrerPartiePas ==
  ASSUME IInv, DemarrerPartie
  PROVE  IInv'
<1> DEFINE t == CHOOSE t \in Threads : thread[t].pc = "neuf"
           cibles == PlacesDe(principal.cible)
<1>1. /\ principal.pc = "annonce" /\ principal.etat = 2
      /\ UNCHANGED <<ecoute, clients, nbClients, entree, sortie, programme, historique, compteurs>>
  BY DEF DemarrerPartie, Annonce
<1>2. /\ t \in Threads
      /\ principal.i \in 1..nbClients /\ principal.c = clients[principal.i].sock
  <2>1. ThreadNeuf /\ principal.i \in 1..nbClients /\ principal.c = clients[principal.i].sock
    BY <1>1 DEF IInv, Poste, EtapesJoueur, EtapesDefi
  <2> QED BY <2>1 DEF ThreadNeuf
<1>3. CASE cibles = {} /\ principal' = [principal EXCEPT !.pc = "plante"] /\ UNCHANGED <<clientsInGame, thread>>
  <2>1. principal'.pc = "plante" /\ principal' \in Positions
    BY <1>3, PosteType DEF Positions, Etapes
  <2>2. Poste'
    BY <2>1 DEF Poste, EtapesJoueur, EtapesDefi
  <2>3. principal'.pc \notin EtapesDepart \cup {"profil", "nouveau"}
    BY <2>1 DEF EtapesDepart
  <2>4. ~Calme
    <3>1. SUFFICES ASSUME Calme PROVE FALSE
      OBVIOUS
    <3>2. principal.cible \in Inscrits
      BY <1>1, <3>1 DEF Calme, EtapesDefi
    <3>3. PICK k \in 1..nbClients : Pseudo(clients[k].sock) = principal.cible
      BY <3>2 DEF Inscrits, Connectes
    <3> QED BY <1>3, <3>3 DEF PlacesDe
  <2> QED BY <1>1, <1>3, <2>1, <2>2, <2>3, <2>4, SuitePas
<1>4. ASSUME NEW j \in cibles,
             clientsInGame' = [clientsInGame EXCEPT ![principal.i] = t, ![j] = t],
             thread' = [thread EXCEPT ![t] =
                          [Neuf EXCEPT !.pc = "jeu", !.j1 = clients[j].sock, !.j2 = principal.c]],
             principal' = Select
      PROVE  IInv'
  <2> DEFINE jeu == [Neuf EXCEPT !.pc = "jeu", !.j1 = clients[j].sock, !.j2 = principal.c]
  <2>1. jeu \in Taches /\ jeu.pc = "jeu"
    <3>1. j \in 1..nbClients
      BY DEF PlacesDe
    <3>2. clients[j].sock \in Programmes /\ principal.c \in Programmes
      BY <1>2, <3>1, PlacesType
    <3> QED BY <3>2, JeuType
  <2> HIDE DEF jeu, t, cibles
  <2>2. thread' = [thread EXCEPT ![t] = jeu]
    BY <1>4 DEF jeu
  <2>3. thread \in [Threads -> Taches] /\ clientsInGame \in [Places -> Threads \cup {Aucun}]
    BY DEF IInv, Types, TypesServeur, TypesThreads, TypesClients
  <2>4. /\ thread' \in [Threads -> Taches]
        /\ \A s \in Threads : thread'[s].pc = "diffuse" => thread'[s] = thread[s]
    BY <1>2, <2>1, <2>2, <2>3
  <2>5. clientsInGame' \in [Places -> Threads \cup {Aucun}]
    BY <1>2, <1>4, <2>3
  <2>6. /\ principal' \in Positions /\ Poste' /\ \A c \in Programmes : ~EnProfil(c)' /\ ~Accueil(c)'
        /\ principal'.pc \notin EtapesDepart \cup EtapesDefi \cup {"jeux", "plante"}
    BY <1>4, SelectPoste
  <2>7. Types'
    <3>1. TypesClients'
      BY <1>1, <2>5 DEF IInv, Types, TypesServeur, TypesClients
    <3>2. TypesThreads'
      BY <2>4 DEF IInv, Types, TypesServeur, TypesThreads
    <3> QED BY <1>1, <2>6, <3>1, <3>2 DEF IInv, Types, TypesServeur, TypeHistorique, TypeCompteurs
  <2>8. /\ EntreeLue /\ Etend(sortie, sortie', Connectes, Paisibles)
        /\ Etend(sortie, sortie', Programmes, Tranquilles)
    BY <1>1, RienEchange
  <2>9. Calme => /\ PrincipalCalme'
                 /\ \A s \in Threads : thread'[s].pc = "diffuse" => thread'[s].n <= nbClients
    BY <2>4, <2>6 DEF Calme, PrincipalCalme
  <2> QED BY <1>1, <2>6, <2>7, <2>8, <2>9, SansInscriptionPas
<1> QED BY <1>3, <1>4 DEF DemarrerPartie

-----------------------------------------------------------------------------
(* Departures, as the server handles them: somebody has left. *)

\* deconnect_client starts to tell the others.
LEMMA DepartPas ==
  ASSUME IInv, NEW i \in 1..nbClients, principal' = Depart(i), Phase(clients[i].sock) = "fini",
         UNCHANGED <<ecoute, clients, nbClients, clientsInGame, thread, sortie, programme, historique,
                     compteurs>>,
         entree' \in [Programmes -> Seq(Requetes)], EntreeLue
  PROVE  IInv'
<1> DEFINE c == clients[i].sock
           m == Info("delete_joueur", Pseudo(c), clients[i].etat)
<1>1. principal' = [Select EXCEPT !.pc = "depart", !.i = i, !.c = c, !.m = m]
  BY DEF Depart
<1>2. i \in Places /\ i \in 0..MaxClients /\ c \in Programmes /\ c \in Connectes
  BY PlacesType DEF Connectes
<1>3. m \in Infos /\ m \in Messages
  <2>1. Pseudo(c) \in Pseudos
    BY <1>2 DEF Pseudo, IInv, Types, Profils
  <2>2. clients[i].etat \in 0..3
    BY <1>2, PlacesType DEF Inscriptions
  <2> QED BY <2>1, <2>2 DEF Info, Infos, Avis, Messages
<1> HIDE DEF m
<1>4. /\ principal' \in Positions /\ principal'.pc = "depart" /\ principal'.i = i
      /\ principal'.c = c /\ principal'.m = m
  <2>1. "depart" \in Etapes /\ c \in Programmes \cup {Aucun} /\ m \in Messages \cup {Rien}
    BY <1>2, <1>3 DEF Etapes
  <2>2. principal'.pc = "depart" /\ principal'.i = i /\ principal'.c = c /\ principal'.m = m
    BY <1>1 DEF Select
  <2> HIDE DEF c
  <2> QED BY <1>1, <1>2, <2>1, <2>2, SelectType DEF Positions
<1>5. Poste'
  BY <1>3, <1>4 DEF Poste, EtapesJoueur, EtapesDefi
<1>6. principal'.pc \notin {"profil", "nouveau"}
  BY <1>4
<1>7. \A d \in Programmes : (EnProfil(d)' => EnProfil(d)) /\ (Accueil(d)' => Accueil(d))
  BY <1>6, HorsConnexion
<1>8. sortie' \in Files /\ Etend(sortie, sortie', Connectes, Paisibles)
  BY EtendRien DEF IInv, Types, Files
<1>9. ~Calme
  BY <1>2 DEF Calme
<1> QED BY <1>4, <1>5, <1>7, <1>8, <1>9, PrincipalPas

\* A program that plays no game.
LEMMA DeconnecterPas ==
  ASSUME IInv, NEW i \in Places, Deconnecter(i)
  PROVE  IInv'
<1>1. /\ Servir(i) /\ Lu(i).type = "eof" /\ principal' = Depart(i)
      /\ UNCHANGED <<ecoute, clients, nbClients, clientsInGame, thread, sortie, programme, historique,
                     compteurs>>
  BY DEF Deconnecter
<1>2. /\ i \in 1..nbClients /\ clients[i].sock \in Programmes
      /\ Lu(i) = entree[clients[i].sock][1] /\ 1 \in 1 .. Len(entree[clients[i].sock])
      /\ entree' \in [Programmes -> Seq(Requetes)] /\ EntreeLue
  BY <1>1, ServirType
<1>3. Phase(clients[i].sock) = "fini"
  BY <1>1, <1>2 DEF IInv, FinAnnoncee
<1> QED BY <1>1, <1>2, <1>3, DepartPas

\* A program whose game has ended.
LEMMA JoindrePas ==
  ASSUME IInv, Joindre
  PROVE  IInv'
<1>1. /\ principal.pc = "join" /\ principal' = Depart(principal.i)
      /\ UNCHANGED <<ecoute, clients, nbClients, clientsInGame, thread, entree, sortie, programme,
                     historique, compteurs>>
  BY DEF Joindre
<1>2. principal.i \in 1..nbClients /\ Phase(clients[principal.i].sock) = "fini"
  BY <1>1 DEF IInv, Poste, FinAnnoncee, EtapesDepart
<1>3. entree' \in [Programmes -> Seq(Requetes)] /\ EntreeLue
  BY <1>1 DEF IInv, Types, EntreeLue
<1> HIDE DEF Depart
<1> QED BY <1>1, <1>2, <1>3, DepartPas

\* The main thread waits for the thread of the game it cancelled.
LEMMA DeconnecterEnJeuPas ==
  ASSUME IInv, NEW i \in Places, DeconnecterEnJeu(i)
  PROVE  IInv'
<1> DEFINE t == clientsInGame[i]
           p == IF thread[t].pc = "jeu" THEN "fin" ELSE thread[t].pc
           q == thread[t].pc # "jeu" /\ thread[t].annulable
<1>1. /\ Servir(i) /\ Lu(i).type = "eof" /\ t # Aucun
      /\ principal' = [Select EXCEPT !.pc = "join", !.i = i, !.t = t]
      /\ thread' = [thread EXCEPT ![t].pc = p, ![t].annule = q, ![t].annulable = FALSE]
      /\ UNCHANGED <<ecoute, clients, nbClients, clientsInGame, sortie, programme, historique, compteurs>>
  BY DEF DeconnecterEnJeu
<1>2. /\ i \in 1..nbClients /\ clients[i].sock \in Programmes /\ clients[i].sock \in Connectes
      /\ Lu(i) = entree[clients[i].sock][1] /\ 1 \in 1 .. Len(entree[clients[i].sock])
      /\ entree' \in [Programmes -> Seq(Requetes)] /\ EntreeLue
  BY <1>1, ServirType
<1>3. Phase(clients[i].sock) = "fini"
  BY <1>1, <1>2 DEF IInv, FinAnnoncee
<1>4. t \in Threads /\ thread \in [Threads -> Taches]
  BY <1>1 DEF IInv, Types, TypesServeur, TypesClients, TypesThreads
<1>5. p \in {"neuf", "jeu", "fin", "diffuse", "mort"} /\ (p = "diffuse" => thread[t].pc = "diffuse")
      /\ q \in BOOLEAN
  BY <1>4 DEF Taches
<1> HIDE DEF p, q
<1>6. /\ thread' \in [Threads -> Taches]
      /\ \A s \in Threads : thread'[s].pc = "diffuse" =>
           thread[s].pc = "diffuse" /\ thread'[s].n = thread[s].n /\ thread'[s].sujet = thread[s].sujet
  <2> DEFINE v1 == [thread[t] EXCEPT !.pc = p]
             v2 == [v1 EXCEPT !.annule = q]
             u == [v2 EXCEPT !.annulable = FALSE]
  <2>1. v1 \in Taches /\ v1.pc = p /\ v1.n = thread[t].n /\ v1.sujet = thread[t].sujet
    BY <1>4, <1>5 DEF Taches
  <2>2. thread' = [thread EXCEPT ![t] = u]
    BY <1>1
  <2> HIDE DEF v1
  <2>3. v2 \in Taches /\ v2.pc = p /\ v2.n = thread[t].n /\ v2.sujet = thread[t].sujet
    BY <1>5, <2>1 DEF Taches
  <2> HIDE DEF v2
  <2>4. u \in Taches /\ u.pc = p /\ u.n = thread[t].n /\ u.sujet = thread[t].sujet
    BY <2>3 DEF Taches
  <2> HIDE DEF u
  <2> QED BY <1>4, <1>5, <2>2, <2>4
<1> HIDE DEF t
<1>7. /\ principal'.pc = "join" /\ principal'.i = i /\ principal'.t = t
      /\ principal' \in Positions
  <2>1. "join" \in Etapes /\ i \in 0..MaxClients /\ t \in Threads \cup {Aucun}
    BY <1>2, <1>4, PlacesType DEF Etapes
  <2>2. principal'.pc = "join" /\ principal'.i = i /\ principal'.t = t
    BY <1>1 DEF Select
  <2> QED BY <1>1, <2>1, <2>2, SelectType DEF Positions
<1>8. Types'
  <2>1. TypesThreads'
    BY <1>6 DEF IInv, Types, TypesServeur, TypesThreads
  <2> QED BY <1>1, <1>2, <1>7, <2>1
          DEF IInv, Types, TypesServeur, TypesClients, TypeHistorique, TypeCompteurs
<1>9. Poste'
  BY <1>1, <1>2, <1>4, <1>7 DEF Poste, EtapesJoueur, EtapesDefi
<1>10. \A d \in Programmes : (EnProfil(d)' => EnProfil(d)) /\ (Accueil(d)' => Accueil(d))
  BY <1>7, HorsConnexion
<1>11. Etend(sortie, sortie', Connectes, Paisibles)
  BY <1>1, EtendRien DEF IInv, Types, Files
<1>12. ~Calme
  BY <1>2, <1>3 DEF Calme
<1> QED BY <1>1, <1>2, <1>3, <1>7, <1>8, <1>9, <1>10, <1>11, <1>12, SansInscriptionPas

\* Everybody has been told: the socket is closed.
LEMMA FermerPas ==
  ASSUME IInv, Fermer
  PROVE  IInv'
<1>1. /\ principal.pc = "depart" /\ principal' = [principal EXCEPT !.pc = "ferme"]
      /\ UNCHANGED <<ecoute, clients, nbClients, clientsInGame, thread, entree, sortie, programme,
                     historique, compteurs>>
  BY DEF Fermer, Annonce
<1>2. /\ principal' \in Positions /\ principal'.pc = "ferme"
      /\ principal'.i = principal.i /\ principal'.c = principal.c
  <2>1. "ferme" \in Etapes
    BY DEF Etapes
  <2> QED BY <1>1, <2>1, PosteType DEF Positions
<1>3. principal.pc \in EtapesDepart /\ principal.pc \in EtapesJoueur
  BY <1>1 DEF EtapesDepart, EtapesJoueur
<1>4. Poste'
  BY <1>1, <1>2, <1>3 DEF IInv, Poste, EtapesJoueur, EtapesDefi
<1>5. Phase(clients[principal'.i].sock) = "fini" /\ ~Calme
  BY <1>2, <1>3 DEF IInv, FinAnnoncee, Calme
<1> QED BY <1>1, <1>2, <1>4, <1>5, SuitePas

\* clients[] is shifted over a program that has ended.
LEMMA RetirerPas ==
  ASSUME IInv, Retirer
  PROVE  IInv'
<1> DEFINE i == principal.i
           c == clients[i].sock
<1>1. /\ principal.pc = "ferme"
      /\ clients' = [k \in Places |-> IF k < i \/ k >= nbClients THEN clients[k] ELSE clients[k + 1]]
      /\ nbClients' = nbClients - 1
      /\ principal' = [Select EXCEPT !.pc = "jeux", !.i = i]
      /\ historique' = [historique EXCEPT !.croises = @ \cup Annonces]
      /\ UNCHANGED <<ecoute, clientsInGame, thread, entree, sortie, programme, compteurs>>
  BY DEF Retirer
<1>2. /\ clients \in [Places -> Inscriptions]
      /\ nbClients \in Nat /\ MaxClients \in Nat /\ nbClients <= MaxClients
      /\ \A k \in 1..nbClients : k \in Places /\ clients[k].sock \in Programmes
  BY PlacesType
<1>3. i \in 1..nbClients /\ Phase(c) = "fini"
  BY <1>1 DEF IInv, Poste, FinAnnoncee, EtapesJoueur, EtapesDepart
<1>4. c \in Programmes /\ c \in Connectes /\ i \in Places /\ i \in 0..MaxClients
  BY <1>2, <1>3 DEF Connectes
<1>5. ~Calme
  BY <1>3, <1>4 DEF Calme
<1> HIDE DEF i
<1>6. /\ principal' \in Positions /\ principal'.pc = "jeux" /\ principal'.i = i
  <2>1. "jeux" \in Etapes
    BY DEF Etapes
  <2>2. principal'.pc = "jeux" /\ principal'.i = i
    BY <1>1 DEF Select
  <2> QED BY <1>1, <1>4, <2>1, <2>2, SelectType DEF Positions
<1>7. ASSUME NEW k \in 1 .. nbClients - 1
      PROVE  /\ k \in Places
             /\ k < i => clients'[k] = clients[k] /\ k \in 1..nbClients
             /\ k >= i => clients'[k] = clients[k + 1] /\ k + 1 \in 1..nbClients
  <2>1. /\ k \in 1..nbClients /\ k + 1 \in 1..nbClients
        /\ k >= i => ~(k < i \/ k >= nbClients)
    BY <1>2, <1>3
  <2>2. k \in Places
    BY <1>2, <2>1
  <2>3. clients'[k] = IF k < i \/ k >= nbClients THEN clients[k] ELSE clients[k + 1]
    BY <1>1, <2>2
  <2> QED BY <2>1, <2>2, <2>3
<1>8. clients' \in [Places -> Inscriptions]
  <2>1. ASSUME NEW k \in Places PROVE clients'[k] \in Inscriptions
    <3>1. CASE k < i \/ k >= nbClients
      BY <1>1, <1>2, <3>1
    <3>2. CASE ~(k < i \/ k >= nbClients)
      <4>1. k \in Nat \ {0}
        BY DEF Places
      <4>2. k + 1 \in 1..nbClients
        BY <1>2, <3>2, <4>1
      <4> QED BY <1>1, <1>2, <3>2, <4>2
    <3> QED BY <3>1, <3>2
  <2>2. clients' = [k \in Places |-> clients'[k]]
    BY <1>1
  <2> QED BY <2>1, <2>2
<1>9. Connectes' \subseteq Connectes
  <2>1. ASSUME NEW k \in 1 .. nbClients - 1 PROVE clients'[k].sock \in Connectes
    <3>1. k < i \/ k >= i
      BY <1>2, <1>3
    <3> QED BY <1>7, <3>1 DEF Connectes
  <2>2. Connectes' = {clients'[k].sock : k \in 1 .. nbClients - 1}
    BY <1>1 DEF Connectes
  <2> QED BY <2>1, <2>2
<1>10. Types'
  <2>1. \A k \in 1 .. nbClients - 1 : clients'[k].sock \in Programmes
    <3>1. TAKE k \in 1 .. nbClients - 1
    <3>2. k < i \/ k >= i
      BY <1>2, <1>3
    <3> QED BY <1>2, <1>7, <3>2
  <2>2. nbClients' \in 0..MaxClients
    BY <1>1, <1>2, <1>3
  <2>3. TypesClients'
    BY <1>1, <1>8, <2>1, <2>2 DEF IInv, Types, TypesServeur, TypesClients
  <2>4. TypeHistorique'
    <3>1. Annonces \subseteq Programmes
      BY DEF Annonces, IInv, Types, TypesServeur, TypesThreads
    <3> QED BY <1>1, <3>1 DEF IInv, Types, TypeHistorique
  <2> QED BY <1>1, <1>6, <2>3, <2>4 DEF IInv, Types, TypesServeur, TypesThreads, TypeCompteurs
<1>11. SocketsDistincts'
  <2>1. SUFFICES ASSUME NEW k \in 1 .. nbClients - 1, NEW r \in 1 .. nbClients - 1,
                        clients'[k].sock = clients'[r].sock
                 PROVE  k = r
    BY <1>1 DEF SocketsDistincts
  <2>2. k \in Nat /\ r \in Nat /\ i \in Nat
    BY <1>3
  <2>3. CASE k < i /\ r < i
    BY <1>7, <2>1, <2>3 DEF IInv, SocketsDistincts
  <2>4. CASE k >= i /\ r >= i
    <3>1. k + 1 = r + 1
      BY <1>7, <2>1, <2>4 DEF IInv, SocketsDistincts
    <3> QED BY <2>2, <3>1
  <2>5. CASE k < i /\ r >= i
    <3>1. k = r + 1
      BY <1>7, <2>1, <2>5 DEF IInv, SocketsDistincts
    <3> QED BY <2>2, <2>5, <3>1
  <2>6. CASE k >= i /\ r < i
    <3>1. k + 1 = r
      BY <1>7, <2>1, <2>6 DEF IInv, SocketsDistincts
    <3> QED BY <2>2, <2>6, <3>1
  <2> QED BY <2>2, <2>3, <2>4, <2>5, <2>6
<1>12. Poste'
  BY <1>4, <1>6 DEF Poste, EtapesJoueur, EtapesDefi
<1>13. principal'.pc \notin EtapesDepart \cup {"profil", "nouveau"}
  BY <1>6 DEF EtapesDepart
<1>14. \A d \in Programmes : (EnProfil(d)' => EnProfil(d)) /\ (Accueil(d)' => Accueil(d))
  BY <1>13, HorsConnexion
<1>15. /\ entree' \in [Programmes -> Seq(Requetes)] /\ EntreeLue /\ sortie' \in Files
       /\ Etend(sortie, sortie', {}, Paisibles)
  BY <1>1, EtendRien DEF IInv, Types, Files, EntreeLue
<1>16. \A d \in Programmes : d \in Connectes' => Phase(d) # "hors" /\ ~EnAttente(d)'
  <2>1. \A d \in Programmes : EnAttente(d)' => EnAttente(d)
    BY <1>1, <1>14 DEF EnAttente, EnFile
  <2> QED BY <1>9, <2>1 DEF IInv, Connexion
<1>17. Connexion'
  <2>1. \A d \in Programmes : Accueil(d)' => Phase(d) \in {"attenteACK", "fini"}
    BY <1>14 DEF IInv, Connexion
  <2> QED BY <1>1, <1>14, <1>15, <1>16, <2>1, ConnexionPas
<1>18. AccuseSeul'
  BY <1>1, <1>9, <1>14, <1>15, AccusePas
<1>19. historique'.troubles = historique.troubles
  BY <1>1 DEF IInv, Types, TypeHistorique
<1> QED BY <1>1, <1>5, <1>10, <1>11, <1>12, <1>13, <1>14, <1>15, <1>17, <1>18, <1>19, ServeurPas

\* The array of the games is shifted in turn.
LEMMA DecalerJeuxPas ==
  ASSUME IInv, DecalerJeux
  PROVE  IInv'
<1>1. /\ principal.pc = "jeux" /\ principal' = Select
      /\ clientsInGame' = [k \in Places |-> IF k < principal.i THEN clientsInGame[k]
                                            ELSE IF k = MaxClients THEN Aucun ELSE clientsInGame[k + 1]]
      /\ UNCHANGED <<ecoute, clients, nbClients, thread, entree, sortie, programme, historique, compteurs>>
  BY DEF DecalerJeux
<1>2. clientsInGame' \in [Places -> Threads \cup {Aucun}]
  <2>1. clientsInGame \in [Places -> Threads \cup {Aucun}] /\ MaxClients \in Nat
    BY PlacesType DEF IInv, Types, TypesServeur, TypesClients
  <2>2. \A k \in Places : k # MaxClients => k + 1 \in Places
    BY <2>1 DEF Places
  <2> QED BY <1>1, <2>1, <2>2
<1>3. /\ principal' \in Positions /\ Poste' /\ \A c \in Programmes : ~EnProfil(c)' /\ ~Accueil(c)'
      /\ principal'.pc \notin EtapesDepart \cup EtapesDefi \cup {"jeux", "plante"}
  BY <1>1, SelectPoste
<1>4. Types'
  BY <1>1, <1>2, <1>3
     DEF IInv, Types, TypesServeur, TypesClients, TypesThreads, TypeHistorique, TypeCompteurs
<1>5. EntreeLue /\ Etend(sortie, sortie', Connectes, Paisibles)
  BY <1>1, RienEchange
<1>6. ~Calme
  BY <1>1 DEF Calme
<1> QED BY <1>1, <1>3, <1>4, <1>5, <1>6, SansInscriptionPas

-----------------------------------------------------------------------------
(* Game threads. *)

\* What a step of a thread that moves no player leaves to the main thread.
LEMMA PosteThread ==
  ASSUME IInv, NEW t \in Threads, thread[t].pc # "neuf",
         UNCHANGED <<nbClients, principal>>,
         \A i \in 1..nbClients : clients'[i].sock = clients[i].sock,
         \A s \in Threads : s # t => thread'[s] = thread[s]
  PROVE  Poste'
<1>1. ThreadNeuf => ThreadNeuf'
  BY DEF ThreadNeuf
<1>2. Connectes' = Connectes
  BY DEF Connectes
<1> QED BY <1>1, <1>2 DEF IInv, Poste

\* A step of a thread that sends nothing.
LEMMA ThreadPas ==
  ASSUME IInv, NEW t \in Threads, thread[t].pc # "neuf",
         UNCHANGED <<ecoute, nbClients, principal, entree, sortie, programme, compteurs>>,
         clients' \in [Places -> Inscriptions],
         \A i \in Places : clients'[i].sock = clients[i].sock,
         clientsInGame' \in [Places -> Threads \cup {Aucun}],
         TypeHistorique', historique'.troubles = historique.troubles,
         thread' \in [Threads -> Taches],
         \A s \in Threads : s # t => thread'[s] = thread[s],
         thread'[t].pc = "diffuse" => thread'[t].sujet \in Programmes /\ thread'[t].n <= nbClients
  PROVE  IInv'
<1>1. \A i \in 1..nbClients : clients'[i].sock = clients[i].sock
  BY PlacesType
<1>2. Types'
  <2>1. nbClients \in Nat /\ MaxClients \in Nat /\ nbClients <= MaxClients
    BY PlacesType
  <2>2. \A s \in Threads : thread'[s].n \in Nat
    BY DEF Taches
  <2>3. thread'[t].pc = "diffuse" => thread'[t].n <= MaxClients
    BY <2>1, <2>2
  <2>4. TypesThreads'
    BY <2>3 DEF IInv, Types, TypesServeur, TypesThreads
  <2>5. \A i \in 1..nbClients : clients'[i].sock \in Programmes
    BY <1>1, PlacesType
  <2>6. TypesClients'
    BY <2>5 DEF IInv, Types, TypesServeur, TypesClients
  <2> QED BY <2>4, <2>6 DEF IInv, Types, TypesServeur, TypeCompteurs
<1>3. Poste'
  BY <1>1, PosteThread
<1>4. \A c \in Programmes : (EnProfil(c)' => EnProfil(c)) /\ (Accueil(c)' => Accueil(c))
  BY DEF EnProfil, Accueil
<1>5. principal'.pc \in EtapesDepart => Phase(clients[principal'.i].sock) = "fini"
  BY DEF IInv, FinAnnoncee
<1>6. /\ EntreeLue /\ Etend(sortie, sortie', Connectes, Paisibles)
      /\ Etend(sortie, sortie', Programmes, Tranquilles)
  BY RienEchange
<1>7. Calme => /\ PrincipalCalme'
               /\ \A s \in Threads : thread'[s].pc = "diffuse" => thread'[s].n <= nbClients
  <2>1. Connectes' = Connectes
    BY <1>1 DEF Connectes
  <2>2. Inscrits' = Inscrits
    BY <2>1 DEF Inscrits, Pseudo
  <2> QED BY <2>2 DEF Calme, PrincipalCalme
<1> QED BY <1>1, <1>2, <1>3, <1>4, <1>5, <1>6, <1>7, SansInscriptionPas

\* What the steps of the threads start from.
LEMMA TachesType ==
  ASSUME IInv, NEW t \in Threads
  PROVE  /\ clients \in [Places -> Inscriptions]
         /\ clientsInGame \in [Places -> Threads \cup {Aucun}]
         /\ thread \in [Threads -> Taches] /\ thread[t] \in Taches
         /\ thread[t].pc = "diffuse" => thread[t].sujet \in Programmes /\ thread[t].n <= MaxClients
         /\ TypeHistorique
BY DEF IInv, Types, TypesServeur, TypesClients, TypesThreads

\* The thread enters end_game.
LEMMA FinirPartiePas ==
  ASSUME IInv, NEW t \in Threads, FinirPartie(t)
  PROVE  IInv'
<1>1. /\ thread[t].pc = "jeu" /\ thread' = [thread EXCEPT ![t].pc = "fin"]
      /\ UNCHANGED <<ecoute, clients, nbClients, clientsInGame, principal, entree, sortie, programme,
                     historique, compteurs>>
  BY DEF FinirPartie
<1>2. /\ thread' \in [Threads -> Taches] /\ thread'[t].pc = "fin"
      /\ \A s \in Threads : s # t => thread'[s] = thread[s]
  BY <1>1, TachesType DEF Taches
<1>3. TypeHistorique'
  BY <1>1, TachesType DEF TypeHistorique
<1> QED BY <1>1, <1>2, <1>3, TachesType, ThreadPas

\* A place of somebody else.
LEMMA ParcourirPas ==
  ASSUME IInv, NEW t \in Threads, Parcourir(t)
  PROVE  IInv'
<1>1. /\ thread[t].pc = "fin" /\ thread' = [thread EXCEPT ![t].i = @ + 1]
      /\ UNCHANGED <<ecoute, clients, nbClients, clientsInGame, principal, entree, sortie, programme,
                     historique, compteurs>>
  BY DEF Parcourir
<1>2. /\ thread' \in [Threads -> Taches] /\ thread'[t].pc = "fin"
      /\ \A s \in Threads : s # t => thread'[s] = thread[s]
  BY <1>1, TachesType DEF Taches
<1>3. TypeHistorique'
  BY <1>1, TachesType DEF TypeHistorique
<1> QED BY <1>1, <1>2, <1>3, TachesType, ThreadPas

\* The broadcast starts with the number of clients of now.
LEMMA LibererJoueurPas ==
  ASSUME IInv, NEW t \in Threads, LibererJoueur(t)
  PROVE  IInv'
<1> DEFINE i == thread[t].i
           c == Place(t)
<1>1. /\ thread[t].pc = "fin" /\ i <= nbClients
      /\ clients' = [clients EXCEPT ![i].etat = 0]
      /\ clientsInGame' = [clientsInGame EXCEPT ![i] = Aucun]
      /\ thread' = [thread EXCEPT ![t].pc = "diffuse", ![t].i = i + 1, ![t].k = 1,
                                  ![t].n = nbClients, ![t].sujet = c]
      /\ historique' = [historique EXCEPT !.croises = @ \cup (Change \cap {c})]
      /\ UNCHANGED <<ecoute, nbClients, principal, entree, sortie, programme, compteurs>>
  BY DEF LibererJoueur, EstJoueur
<1>2. nbClients \in Nat /\ thread[t] \in Taches /\ thread \in [Threads -> Taches]
  BY PlacesType, TachesType
<1>3. i \in 1..nbClients /\ i + 1 \in Nat \ {0} /\ i \in Places /\ c \in Programmes
  <2>1. i \in Nat \ {0}
    BY <1>2 DEF Taches
  <2>2. i \in 1..nbClients
    BY <1>1, <1>2, <2>1
  <2> QED BY <2>1, <2>2, PlacesType DEF Place
<1>4. clients' \in [Places -> Inscriptions] /\ \A r \in Places : clients'[r].sock = clients[r].sock
  <2> DEFINE u == [clients[i] EXCEPT !.etat = 0]
  <2>1. clients \in [Places -> Inscriptions] /\ clients' = [clients EXCEPT ![i] = u]
    BY <1>1, TachesType
  <2> HIDE DEF i
  <2>2. clients[i] \in Inscriptions
    BY <1>3, <2>1
  <2>3. u \in Inscriptions /\ u.sock = clients[i].sock
    BY <2>2 DEF Inscriptions
  <2> HIDE DEF u
  <2> QED BY <2>1, <2>3
<1>5. clientsInGame' \in [Places -> Threads \cup {Aucun}]
  BY <1>1, TachesType
<1> HIDE DEF c, i
<1>6. /\ thread' \in [Threads -> Taches] /\ thread'[t].n = nbClients /\ thread'[t].sujet = c
      /\ \A s \in Threads : s # t => thread'[s] = thread[s]
  <2> DEFINE v1 == [thread[t] EXCEPT !.pc = "diffuse"]
             v2 == [v1 EXCEPT !.i = i + 1]
             v3 == [v2 EXCEPT !.k = 1]
             v4 == [v3 EXCEPT !.n = nbClients]
             v5 == [v4 EXCEPT !.sujet = c]
  <2>0. thread' = [thread EXCEPT ![t] = v5]
    BY <1>1
  <2>1. v1 \in Taches
    BY <1>2 DEF Taches
  <2> HIDE DEF v1
  <2>2. v2 \in Taches
    BY <1>3, <2>1 DEF Taches
  <2> HIDE DEF v2
  <2>3. v3 \in Taches
    BY <2>2 DEF Taches
  <2> HIDE DEF v3
  <2>4. v4 \in Taches /\ v4.n = nbClients
    BY <1>2, <2>3 DEF Taches
  <2> HIDE DEF v4
  <2>5. v5 \in Taches /\ v5.n = nbClients /\ v5.sujet = c
    BY <1>3, <2>4 DEF Taches
  <2> HIDE DEF v5
  <2> QED BY <1>2, <2>0, <2>5
<1>7. TypeHistorique' /\ historique'.troubles = historique.troubles
  BY <1>1, <1>3, TachesType DEF TypeHistorique
<1>8. thread'[t].n <= nbClients
  BY <1>2, <1>6
<1> QED BY <1>1, <1>3, <1>4, <1>5, <1>6, <1>7, <1>8, ThreadPas

\* The end of a broadcast.
LEMMA FinDiffusionPas ==
  ASSUME IInv, NEW t \in Threads, FinDiffusion(t)
  PROVE  IInv'
<1>1. /\ thread[t].pc = "diffuse"
      /\ thread' = [thread EXCEPT ![t].pc = "fin", ![t].sujet = Aucun, ![t].k = 1, ![t].n = 0]
      /\ UNCHANGED <<ecoute, clients, nbClients, clientsInGame, principal, entree, sortie, programme,
                     historique, compteurs>>
  BY DEF FinDiffusion
<1>2. /\ thread' \in [Threads -> Taches] /\ thread'[t].pc = "fin"
      /\ \A s \in Threads : s # t => thread'[s] = thread[s]
  <2> DEFINE v1 == [thread[t] EXCEPT !.pc = "fin"]
             v2 == [v1 EXCEPT !.sujet = Aucun]
             v3 == [v2 EXCEPT !.k = 1]
             v4 == [v3 EXCEPT !.n = 0]
  <2>0. thread' = [thread EXCEPT ![t] = v4]
    BY <1>1
  <2>1. v1 \in Taches /\ v1.pc = "fin"
    BY TachesType DEF Taches
  <2> HIDE DEF v1
  <2>2. v2 \in Taches /\ v2.pc = "fin"
    BY <2>1 DEF Taches
  <2> HIDE DEF v2
  <2>3. v3 \in Taches /\ v3.pc = "fin"
    BY <2>2 DEF Taches
  <2> HIDE DEF v3
  <2>4. v4 \in Taches /\ v4.pc = "fin"
    BY <2>3 DEF Taches
  <2> HIDE DEF v4
  <2> QED BY <2>0, <2>4, TachesType
<1>3. TypeHistorique'
  BY <1>1, TachesType DEF TypeHistorique
<1> QED BY <1>1, <1>2, <1>3, TachesType, ThreadPas

\* The end of a thread, cancelled or not.
LEMMA MortPas ==
  ASSUME IInv, NEW t \in Threads, thread[t].pc # "neuf",
         thread' = [thread EXCEPT ![t] = [Neuf EXCEPT !.pc = "mort"]],
         UNCHANGED <<ecoute, clients, nbClients, clientsInGame, principal, entree, sortie, programme,
                     compteurs>>,
         TypeHistorique', historique'.troubles = historique.troubles
  PROVE  IInv'
<1>1. Neuf \in Taches
  BY DEF Neuf, Taches, Aucun
<1>2. [Neuf EXCEPT !.pc = "mort"] \in Taches /\ [Neuf EXCEPT !.pc = "mort"].pc = "mort"
  BY <1>1 DEF Taches
<1>3. /\ thread' \in [Threads -> Taches] /\ thread'[t].pc = "mort"
      /\ \A s \in Threads : s # t => thread'[s] = thread[s]
  BY <1>2, TachesType
<1> QED BY <1>3, TachesType, ThreadPas

\* Cancelled in its broadcast.
LEMMA MourirPas ==
  ASSUME IInv, NEW t \in Threads, Mourir(t)
  PROVE  IInv'
<1>1. /\ thread[t].pc = "diffuse" /\ thread' = [thread EXCEPT ![t] = [Neuf EXCEPT !.pc = "mort"]]
      /\ historique' = [historique EXCEPT !.croises = @ \cup {thread[t].sujet}]
      /\ UNCHANGED <<ecoute, clients, nbClients, clientsInGame, principal, entree, sortie, programme,
                     compteurs>>
  BY DEF Mourir
<1>2. TypeHistorique' /\ historique'.troubles = historique.troubles
  BY <1>1, TachesType DEF TypeHistorique
<1> QED BY <1>1, <1>2, MortPas

\* At the end of end_game.
LEMMA FinThreadPas ==
  ASSUME IInv, NEW t \in Threads, FinThread(t)
  PROVE  IInv'
<1>1. /\ thread[t].pc = "fin" /\ thread' = [thread EXCEPT ![t] = [Neuf EXCEPT !.pc = "mort"]]
      /\ UNCHANGED <<ecoute, clients, nbClients, clientsInGame, principal, entree, sortie, programme,
                     historique, compteurs>>
  BY DEF FinThread
<1>2. TypeHistorique'
  BY <1>1, TachesType DEF TypeHistorique
<1> QED BY <1>1, <1>2, MortPas

\* One send of a broadcast; the server dies if the place holds no open socket.
LEMMA EnvoyerMajPas ==
  ASSUME IInv, NEW t \in Threads, EnvoyerMaj(t)
  PROVE  IInv'
<1> DEFINE m == Info("update_etat_joueur", Pseudo(thread[t].sujet), 0)
<1>1. /\ thread[t].pc = "diffuse"
      /\ UNCHANGED <<ecoute, clients, nbClients, clientsInGame, entree, programme, historique, compteurs>>
  BY DEF EnvoyerMaj
<1>2. PICK k \in Destinataires(t) :
        /\ IF clients[k].sock \in Ouvertes
           THEN sortie' = Poster(sortie, clients[k].sock, m) /\ UNCHANGED principal
           ELSE principal' = [principal EXCEPT !.pc = "plante"] /\ UNCHANGED sortie
        /\ thread' = [thread EXCEPT ![t].k = k + 1]
  BY DEF EnvoyerMaj
<1> DEFINE c == clients[k].sock
<1>3. thread \in [Threads -> Taches] /\ thread[t] \in Taches /\ sortie \in Files
      /\ nbClients \in Nat
  BY TachesType, PlacesType DEF IInv, Types, Files
<1>4. k \in Nat \ {0} /\ k <= thread[t].n /\ k + 1 \in Nat \ {0}
  <2>1. thread[t].k \in Nat \ {0} /\ thread[t].n \in Nat
    BY <1>3 DEF Taches
  <2> QED BY <2>1 DEF Destinataires
<1>5. m \in Messages /\ m \in Paisibles /\ m \in Tranquilles
  <2>1. Pseudo(thread[t].sujet) \in Pseudos
    BY <1>1, TachesType DEF Pseudo, IInv, Types, Profils
  <2> QED BY <2>1 DEF Info, Infos, Messages, Avis, Paisibles, Accuses, Tranquilles
<1> HIDE DEF m
<1>6. /\ sortie' \in Files /\ Etend(sortie, sortie', Connectes, Paisibles)
      /\ Etend(sortie, sortie', Programmes, Tranquilles)
  <2>1. CASE c \in Ouvertes
    <3>1. c \in Programmes /\ c \in Connectes
      BY <2>1, ConnectesType DEF Ouvertes
    <3> QED BY <1>2, <1>3, <1>5, <2>1, <3>1, PosterEtend
  <2>2. CASE c \notin Ouvertes
    BY <1>2, <1>3, <2>2, EtendRien
  <2> QED BY <2>1, <2>2
<1>7. /\ principal' \in Positions
      /\ principal' = principal \/ principal'.pc = "plante"
  BY <1>2, PosteType DEF Positions, Etapes
<1>8. /\ thread' \in [Threads -> Taches]
      /\ \A s \in Threads : /\ thread'[s].pc = thread[s].pc
                            /\ thread'[s].n = thread[s].n /\ thread'[s].sujet = thread[s].sujet
      /\ \A s \in Threads : s # t => thread'[s] = thread[s]
  <2> DEFINE u == [thread[t] EXCEPT !.k = k + 1]
  <2>1. u \in Taches /\ u.pc = thread[t].pc /\ u.n = thread[t].n /\ u.sujet = thread[t].sujet
    BY <1>3, <1>4 DEF Taches
  <2>2. thread' = [thread EXCEPT ![t] = u]
    BY <1>2
  <2> HIDE DEF u
  <2> QED BY <1>3, <2>1, <2>2
<1>9. Types'
  <2>1. TypesThreads'
    BY <1>8 DEF IInv, Types, TypesServeur, TypesThreads
  <2> QED BY <1>1, <1>6, <1>7, <2>1
          DEF IInv, Types, TypesServeur, TypesClients, TypeHistorique, TypeCompteurs, Files
<1>10. Poste'
  <2>1. CASE principal' = principal
    BY <1>1, <1>8, <2>1, PosteThread
  <2>2. CASE principal'.pc = "plante"
    BY <2>2 DEF Poste, EtapesJoueur, EtapesDefi
  <2> QED BY <1>7, <2>1, <2>2
<1>11. \A d \in Programmes : (EnProfil(d)' => EnProfil(d)) /\ (Accueil(d)' => Accueil(d))
  BY <1>7 DEF EnProfil, Accueil
<1>12. principal'.pc \in EtapesDepart => Phase(clients[principal'.i].sock) = "fini"
  BY <1>7 DEF IInv, FinAnnoncee, EtapesDepart
<1>13. EntreeLue
  BY <1>1 DEF EntreeLue
<1>14. Calme => PrincipalCalme' /\ \A s \in Threads : thread'[s].pc = "diffuse" => thread'[s].n <= nbClients
  <2>1. SUFFICES ASSUME Calme
                 PROVE  /\ PrincipalCalme'
                        /\ \A s \in Threads : thread'[s].pc = "diffuse" => thread'[s].n <= nbClients
    OBVIOUS
  <2>2. thread[t].n <= nbClients /\ thread[t].n \in Nat
    BY <1>1, <1>3, <2>1 DEF Calme, Taches
  <2>3. k \in 1..nbClients
    BY <1>3, <1>4, <2>2
  <2>4. c \in Ouvertes
    <3>1. principal.pc # "ferme"
      BY <2>1 DEF Calme, EtapesDepart
    <3> QED BY <2>3, <3>1 DEF Ouvertes, Connectes
  <2>5. principal' = principal
    BY <1>2, <2>4
  <2>6. Inscrits' = Inscrits
    BY <1>1 DEF Inscrits, Connectes, Pseudo
  <2> QED BY <1>8, <2>1, <2>5, <2>6 DEF Calme, PrincipalCalme
<1> QED BY <1>1, <1>6, <1>9, <1>10, <1>11, <1>12, <1>13, <1>14, SansInscriptionPas

-----------------------------------------------------------------------------
(* Steps of a client program. *)

\* What a program has still to receive is the end of what it had.
SortieReste(c) ==
  \E n \in Nat : \A k \in 1 .. Len(sortie'[c]) :
    n + k \in 1 .. Len(sortie[c]) /\ sortie'[c][k] = sortie[c][n + k]

\* No answer to its profile is on its way to it any more.
SansAccuse(c) == \A k \in 1 .. Len(sortie[c]) : sortie[c][k].type \notin Accuses

\* A program that has read the answer is answered once.
LEMMA DejaAccueilli ==
  ASSUME IInv, NEW c \in Programmes, Phase(c) \notin {"connecte", "attenteACK", "fini"}
  PROVE  ~Accueil(c) /\ ~EnAttente(c) /\ SansAccuse(c)
<1>1. ~Accueil(c) /\ ~EnAttente(c)
  BY DEF IInv, Connexion
<1>2. SansAccuse(c)
  BY DEF IInv, AccuseSeul, SansAccuse
<1> QED BY <1>1, <1>2

\* A step of c between its connection and its end.
LEMMA ClientPas ==
  ASSUME IInv, Types', NEW c \in Programmes, UNCHANGED varsServeur,
         \A d \in Programmes : d # c =>
           programme'[d] = programme[d] /\ entree'[d] = entree[d] /\ sortie'[d] = sortie[d],
         Phase(c) \notin {"hors", "fini"}, Phase(c)' \notin {"hors", "connecte"},
         EnAttente(c) \/ Accueil(c) => Phase(c)' \in {"attenteACK", "fini"},
         EnAttente(c) => sortie'[c] = <<>>,
         Phase(c)' \in {"attenteACK", "fini"} \/ SansAccuse(c)',
         SortieReste(c),
         Pseudo(c)' = Pseudo(c),
         \A k \in 1 .. Len(entree'[c]) :
           \/ k \in 1 .. Len(entree[c]) /\ entree'[c][k] = entree[c][k]
           \/ /\ entree'[c][k].type = "eof" => Phase(c)' = "fini"
              /\ Calme /\ entree'[c][k].type = "DEFI/accept" => entree'[c][k].cible \in Inscrits,
         compteurs'.departs = 0 => compteurs.departs = 0,
         historique.troubles \subseteq historique'.troubles,
         PersonneParti' /\ Calme =>
           /\ Phase(c)' = "fini" => ~EnAttente(c) /\ c \notin Connectes
           /\ Phase(c)' = "sollicite" => programme'[c].defieur \in Inscrits
  PROVE  IInv'
<1>1. UNCHANGED <<ecoute, clients, nbClients, clientsInGame, principal, thread>>
  BY DEF varsServeur
<1>2. \A d \in Programmes : /\ EnFile(d)' <=> EnFile(d)
                            /\ EnProfil(d)' <=> EnProfil(d)
                            /\ EnAttente(d)' <=> EnAttente(d)
                            /\ Accueil(d)' <=> Accueil(d)
                            /\ d # c => Phase(d)' = Phase(d)
                            /\ Pseudo(d)' = Pseudo(d)
  BY <1>1 DEF EnFile, EnProfil, EnAttente, Accueil, Phase, Pseudo
<1>3. Connectes' = Connectes
  BY <1>1 DEF Connectes
<1>4. Inscrits' = Inscrits
  <2>1. Connectes \subseteq Programmes
    BY ConnectesType
  <2>2. \A d \in Connectes : programme'[d].pseudo = programme[d].pseudo
    BY <1>2, <2>1 DEF Pseudo
  <2> QED BY <1>3, <2>2 DEF Inscrits, Pseudo
<1>5. SocketsDistincts' /\ FileDistincte'
  BY <1>1, <1>2 DEF IInv, SocketsDistincts, FileDistincte
<1>6. Poste'
  BY <1>1, <1>3 DEF IInv, Poste, ThreadNeuf
<1>7. Connexion'
  <2>1. SUFFICES ASSUME NEW d \in Programmes
                 PROVE  /\ Phase(d)' = "hors" =>
                             ~EnAttente(d) /\ d \notin Connectes /\ entree'[d] = <<>> /\ sortie'[d] = <<>>
                        /\ Phase(d)' = "connecte" => entree'[d] = <<>>
                        /\ EnAttente(d) => /\ d \notin Connectes /\ sortie'[d] = <<>>
                                           /\ Phase(d)' \in {"connecte", "attenteACK", "fini"}
                        /\ Accueil(d) => Phase(d)' \in {"attenteACK", "fini"}
    BY <1>2, <1>3 DEF Connexion
  <2>2. CASE d = c
    <3>1. EnAttente(c) => c \notin Connectes
      BY DEF IInv, Connexion
    <3> QED BY <2>2, <3>1
  <2>3. CASE d # c
    BY <1>2, <2>3 DEF IInv, Connexion
  <2> QED BY <2>2, <2>3
<1>8. AccuseSeul'
  <2>1. SUFFICES ASSUME NEW d \in Programmes, NEW k \in 1 .. Len(sortie'[d]),
                        sortie'[d][k].type \in Accuses
                 PROVE  /\ Phase(d)' \in {"attenteACK", "fini"} /\ ~Accueil(d)
                        /\ \A r \in 1 .. Len(sortie'[d]) : sortie'[d][r].type \in Accuses => r = k
                        /\ sortie'[d][k].type = "not_connected" => d \notin Connectes
    BY <1>2, <1>3 DEF AccuseSeul
  <2>2. CASE d # c
    BY <1>2, <2>1, <2>2 DEF IInv, AccuseSeul
  <2>3. CASE d = c
    <3>1. PICK n \in Nat : \A r \in 1 .. Len(sortie'[c]) :
            n + r \in 1 .. Len(sortie[c]) /\ sortie'[c][r] = sortie[c][n + r]
      BY DEF SortieReste
    <3>2. Len(sortie'[c]) \in Nat /\ k \in 1 .. Len(sortie'[c])
      BY <2>1, <2>3, LenProperties DEF Types
    <3>3. n + k \in 1 .. Len(sortie[c]) /\ sortie[c][n + k] = sortie'[c][k]
      BY <3>1, <3>2
    <3>4. /\ ~Accueil(c)
          /\ \A r \in 1 .. Len(sortie[c]) : sortie[c][r].type \in Accuses => r = n + k
          /\ sortie'[c][k].type = "not_connected" => c \notin Connectes
      BY <2>1, <2>3, <3>3 DEF IInv, AccuseSeul
    <3>5. ASSUME NEW r \in 1 .. Len(sortie'[c]), sortie'[c][r].type \in Accuses
          PROVE  r = k
      <4>1. n + r = n + k
        BY <3>1, <3>4, <3>5
      <4> QED BY <3>2, <4>1
    <3>6. Phase(c)' \in {"attenteACK", "fini"}
      BY <2>1, <2>3 DEF SansAccuse
    <3> QED BY <2>3, <3>4, <3>5, <3>6
  <2> QED BY <2>2, <2>3
<1>9. FinAnnoncee'
  <2>1. ASSUME NEW d \in Programmes, NEW k \in 1 .. Len(entree'[d]), entree'[d][k].type = "eof"
        PROVE  Phase(d)' = "fini"
    BY <1>2, <2>1 DEF IInv, FinAnnoncee
  <2>2. ASSUME principal.pc \in EtapesDepart
        PROVE  Phase(clients[principal.i].sock)' = "fini"
    <3>1. principal.i \in 1..nbClients
      BY <2>2 DEF IInv, Poste, EtapesDepart, EtapesJoueur
    <3>2. clients[principal.i].sock \in Programmes /\ Phase(clients[principal.i].sock) = "fini"
      BY <2>2, <3>1 DEF IInv, Types, TypesServeur, TypesClients, FinAnnoncee
    <3>3. clients[principal.i].sock # c
      BY <3>2
    <3>4. Phase(clients[principal.i].sock)' = programme'[clients[principal.i].sock].phase
      BY <1>1 DEF Phase
    <3> QED BY <3>2, <3>3, <3>4 DEF Phase
  <2> QED BY <1>1, <2>1, <2>2 DEF FinAnnoncee
<1>10. ASSUME PersonneParti'
       PROVE  Calme'
  <2>1. PersonneParti
    <3>1. \A d \in historique.troubles : Phase(d) # "fini"
      <4>1. historique.troubles \subseteq Programmes
        BY DEF IInv, Types, TypeHistorique
      <4>2. TAKE d \in historique.troubles
      <4>3. Phase(d)' # "fini"
        BY <1>10 DEF PersonneParti
      <4> QED BY <1>2, <4>1, <4>3
    <3> QED BY <1>10, <3>1 DEF PersonneParti
  <2>2. Calme
    BY <2>1 DEF IInv
  <2>3. /\ principal'.pc \notin EtapesDepart \cup {"jeux", "plante"}
        /\ principal'.pc \in EtapesDefi /\ principal'.etat = 2 => principal'.cible \in Inscrits
        /\ \A t \in Threads : thread'[t].pc = "diffuse" => thread'[t].n <= nbClients'
    BY <1>1, <2>2 DEF Calme
  <2>4. \A d \in Programmes : Phase(d)' = "fini" => ~EnAttente(d)' /\ d \notin Connectes'
    BY <1>2, <1>3, <1>10, <2>2 DEF Calme
  <2>5. ASSUME NEW d \in Programmes, NEW k \in 1 .. Len(sortie'[d])
        PROVE  /\ sortie'[d][k].type # "delete_joueur"
               /\ sortie'[d][k].type = "DEFI/new" => sortie'[d][k].par \in Inscrits
    <3>1. CASE d # c
      BY <2>2, <3>1 DEF Calme
    <3>2. CASE d = c
      <4>1. PICK r \in 1 .. Len(sortie[c]) : sortie'[c][k] = sortie[c][r]
        BY <2>5, <3>2 DEF SortieReste
      <4> QED BY <2>2, <3>2, <4>1 DEF Calme
    <3> QED BY <3>1, <3>2
  <2>6. \A d \in Programmes : Phase(d)' = "sollicite" => programme'[d].defieur \in Inscrits
    BY <1>2, <1>10, <2>2 DEF Calme
  <2>7. ASSUME NEW d \in Programmes, NEW k \in 1 .. Len(entree'[d]), entree'[d][k].type = "DEFI/accept"
        PROVE  entree'[d][k].cible \in Inscrits
    BY <2>2, <2>7 DEF Calme
  <2> QED BY <1>4, <2>3, <2>4, <2>5, <2>6, <2>7 DEF Calme
<1> QED BY <1>5, <1>6, <1>7, <1>8, <1>9, <1>10 DEF IInv

\* What a program writes comes after what it wrote.
LEMMA EcrireType ==
  ASSUME IInv, NEW c \in Programmes, NEW m \in Requetes, Ecrire(c, m)
  PROVE  /\ entree' \in [Programmes -> Seq(Requetes)]
         /\ \A d \in Programmes : d # c => entree'[d] = entree[d]
         /\ \A k \in 1 .. Len(entree'[c]) :
              (k \in 1 .. Len(entree[c]) /\ entree'[c][k] = entree[c][k]) \/ entree'[c][k] = m
<1>1. entree \in [Programmes -> Seq(Requetes)] /\ entree' = [entree EXCEPT ![c] = Append(entree[c], m)]
  BY DEF IInv, Types, Ecrire
<1>2. entree[c] \in Seq(Requetes) /\ Len(entree[c]) \in Nat
  BY <1>1, LenProperties
<1>3. /\ Append(entree[c], m) \in Seq(Requetes)
      /\ Len(Append(entree[c], m)) = Len(entree[c]) + 1
      /\ \A k \in 1 .. Len(entree[c]) : Append(entree[c], m)[k] = entree[c][k]
      /\ Append(entree[c], m)[Len(entree[c]) + 1] = m
  BY <1>2, AjoutType
<1>4. entree' \in [Programmes -> Seq(Requetes)] /\ entree'[c] = Append(entree[c], m)
      /\ \A d \in Programmes : d # c => entree'[d] = entree[d]
  BY <1>1, <1>3
<1>5. ASSUME NEW k \in 1 .. Len(entree'[c])
      PROVE  (k \in 1 .. Len(entree[c]) /\ entree'[c][k] = entree[c][k]) \/ entree'[c][k] = m
  <2>1. k \in 1 .. Len(entree[c]) \/ k = Len(entree[c]) + 1
    BY <1>2, <1>3, <1>4
  <2> QED BY <1>3, <1>4, <2>1
<1> QED BY <1>4, <1>5

\* What one recv returns: the beginning of what has come.
LEMMA RecoitType ==
  ASSUME IInv, NEW c \in Programmes, NEW lot, Recoit(c, lot)
  PROVE  /\ lot \in Seq(Messages) /\ DOMAIN lot = 1 .. Len(lot) /\ Len(lot) \in Nat \ {0}
         /\ Len(lot) <= Len(sortie[c])
         /\ \A k \in 1 .. Len(lot) : k \in 1 .. Len(sortie[c]) /\ lot[k] = sortie[c][k]
         /\ sortie' \in Files
         /\ \A d \in Programmes : d # c => sortie'[d] = sortie[d]
         /\ \A k \in 1 .. Len(sortie'[c]) :
              /\ Len(lot) + k \in 1 .. Len(sortie[c]) /\ Len(lot) + k # 1
              /\ sortie'[c][k] = sortie[c][Len(lot) + k]
         /\ TypeCompteurs' /\ compteurs'.departs = compteurs.departs
         /\ ~EnAttente(c)
<1>1. sortie \in Files /\ sortie[c] \in Seq(Messages) /\ Len(sortie[c]) \in Nat
  BY FilesType
<1>2. PICK n \in 1..MaxJoints : n <= Len(sortie[c]) /\ lot = SubSeq(sortie[c], 1, n)
  BY DEF Recoit, Lots
<1>3. n \in Nat \ {0} /\ n \in 1 .. Len(sortie[c])
  BY <1>1, <1>2, AnnuaireAssumption
<1>4. \A k \in 1 .. Len(sortie[c]) : sortie[c][k] \in Messages
  BY <1>1, ElementOfSeq
<1>5. /\ lot \in Seq(Messages) /\ Len(lot) = n
      /\ \A k \in 1..n : lot[k] = sortie[c][k]
  <2>1. 1 \in Int /\ n \in Int /\ \A k \in 1..n : sortie[c][k] \in Messages
    BY <1>1, <1>3, <1>4
  <2> QED BY <1>2, <1>3, <2>1, SubSeqProperties
<1>6. DOMAIN lot = 1..n
  BY <1>5, LenProperties
<1>7. sortie' = [sortie EXCEPT ![c] = SubSeq(sortie[c], n + 1, Len(sortie[c]))]
  BY <1>5 DEF Recoit
<1>8. /\ SubSeq(sortie[c], n + 1, Len(sortie[c])) \in Seq(Messages)
      /\ Len(SubSeq(sortie[c], n + 1, Len(sortie[c]))) = Len(sortie[c]) - (n + 1) + 1
      /\ \A k \in 1 .. Len(sortie[c]) - (n + 1) + 1 :
           SubSeq(sortie[c], n + 1, Len(sortie[c]))[k] = sortie[c][n + 1 + k - 1]
  <2>1. n + 1 \in 1 .. Len(sortie[c]) + 1
    BY <1>1, <1>3
  <2> QED BY <1>1, <2>1, SuiteType
<1>9. /\ sortie' \in Files /\ sortie'[c] = SubSeq(sortie[c], n + 1, Len(sortie[c]))
      /\ \A d \in Programmes : d # c => sortie'[d] = sortie[d]
  BY <1>1, <1>7, <1>8 DEF Files
<1>10. ASSUME NEW k \in 1 .. Len(sortie'[c])
       PROVE  n + k \in 1 .. Len(sortie[c]) /\ n + k # 1 /\ sortie'[c][k] = sortie[c][n + k]
  <2>1. Len(sortie'[c]) = Len(sortie[c]) - n
    BY <1>1, <1>3, <1>8, <1>9
  <2>2. /\ k \in 1 .. Len(sortie[c]) - (n + 1) + 1 /\ n + 1 + k - 1 = n + k
        /\ n + k \in 1 .. Len(sortie[c]) /\ n + k # 1
    BY <1>1, <1>3, <2>1
  <2>3. sortie'[c][k] = sortie[c][n + k]
    BY <1>8, <1>9, <2>2
  <2> QED BY <2>2, <2>3
<1>11. TypeCompteurs' /\ compteurs'.departs = compteurs.departs
  <2>1. \/ compteurs' = compteurs
        \/ /\ compteurs.jonctions < MaxJonctions
           /\ compteurs' = [compteurs EXCEPT !.jonctions = compteurs.jonctions + 1]
    BY DEF Recoit
  <2>2. MaxJonctions \in Nat
    BY AnnuaireAssumption
  <2>3. TypeCompteurs
    BY DEF IInv, Types
  <2> DEFINE n1 == compteurs.jonctions + 1
  <2>4. compteurs.jonctions \in 0..MaxJonctions
    BY <2>3 DEF TypeCompteurs
  <2>5. compteurs.jonctions < MaxJonctions => n1 \in 0..MaxJonctions
    BY <2>2, <2>4
  <2> HIDE DEF n1
  <2>6. \/ compteurs' = compteurs
        \/ n1 \in 0..MaxJonctions /\ compteurs' = [compteurs EXCEPT !.jonctions = n1]
    BY <2>1, <2>5 DEF n1
  <2> QED BY <2>3, <2>6 DEF TypeCompteurs
<1>12. ~EnAttente(c)
  <2>1. EnAttente(c) => sortie[c] = <<>>
    BY DEF IInv, Connexion
  <2>2. Len(<<>>) = 0
    OBVIOUS
  <2> QED BY <1>3, <2>1, <2>2
<1>13. \A k \in 1 .. Len(lot) : k \in 1 .. Len(sortie[c]) /\ lot[k] = sortie[c][k]
  BY <1>1, <1>3, <1>5
<1> QED BY <1>1, <1>3, <1>5, <1>6, <1>9, <1>10, <1>11, <1>12, <1>13

\* What is left after a recv.
LEMMA RecoitReste ==
  ASSUME IInv, NEW c \in Programmes, NEW lot, Recoit(c, lot)
  PROVE  SortieReste(c) /\ (SansAccuse(c) => SansAccuse(c)')
<1>1. /\ Len(lot) \in Nat
      /\ \A k \in 1 .. Len(sortie'[c]) :
           Len(lot) + k \in 1 .. Len(sortie[c]) /\ sortie'[c][k] = sortie[c][Len(lot) + k]
  BY RecoitType
<1> QED BY <1>1 DEF SortieReste, SansAccuse

\* A step that receives nothing.
LEMMA RienRecu ==
  ASSUME IInv, NEW c \in Programmes, UNCHANGED sortie
  PROVE  SortieReste(c) /\ (SansAccuse(c) => SansAccuse(c)')
<1>1. 0 \in Nat /\ \A k \in 1 .. Len(sortie[c]) : 0 + k = k
  BY FilesType
<1> QED BY <1>1 DEF SortieReste, SansAccuse

\* What the history keeps of a recv.
LEMMA NoterJointsType ==
  ASSUME IInv, NEW c \in Programmes, NEW lot, historique' = NoterJoints(c, lot)
  PROVE  /\ TypeHistorique' /\ historique.troubles \subseteq historique'.troubles
         /\ Len(lot) # 1 => c \in historique'.troubles
BY DEF IInv, Types, TypeHistorique, NoterJoints

\* The lists of the clients.
LEMMA EtatEcritType ==
  ASSUME NEW liste \in Seq(Fiches), NEW k, NEW etat \in 0..3
  PROVE  [liste EXCEPT ![k].etat = etat] \in Seq(Fiches)
<1> DEFINE l == [liste EXCEPT ![k].etat = etat]
<1>1. Len(liste) \in Nat /\ DOMAIN liste = 1 .. Len(liste)
      /\ \A i \in 1 .. Len(liste) : liste[i] \in Fiches
  BY LenProperties, ElementOfSeq
<1>2. ASSUME NEW i \in 1 .. Len(liste) PROVE l[i] \in Fiches
  BY <1>1 DEF Fiches
<1>3. l \in [1 .. Len(liste) -> Fiches]
  BY <1>1, <1>2
<1> QED BY <1>1, <1>3, SeqDef

\* The whole state after a step of a client.
LEMMA ClientTypes ==
  ASSUME IInv, UNCHANGED varsServeur,
         entree' \in [Programmes -> Seq(Requetes)], sortie' \in Files,
         programme' \in [Programmes -> Profils], TypeHistorique', TypeCompteurs'
  PROVE  Types'
<1>1. TypesServeur'
  BY DEF IInv, Types, TypesServeur, TypesClients, TypesThreads, varsServeur
<1> QED BY <1>1 DEF Types, Files

-----------------------------------------------------------------------------
(* The client programs: connection. *)

\* connect: the kernel queues the program.
LEMMA LancerPas ==
  ASSUME IInv, NEW c \in Programmes, Lancer(c)
  PROVE  IInv'
<1>1. /\ EnVie /\ Phase(c) = "hors"
      /\ ecoute' = Append(ecoute, c)
      /\ UNCHANGED <<clients, nbClients, clientsInGame, principal, thread, entree, sortie, historique, compteurs>>
  BY DEF Lancer
<1>2. PICK p \in Choix[c] : programme' = [programme EXCEPT ![c].phase = "connecte", ![c].pseudo = p]
  BY DEF Lancer
<1>3. /\ ~EnAttente(c) /\ c \notin Connectes /\ entree[c] = <<>> /\ sortie[c] = <<>>
  BY <1>1 DEF IInv, Connexion
<1>4. programme \in [Programmes -> Profils] /\ programme[c] \in Profils
  BY DEF IInv, Types
<1>5. /\ programme' \in [Programmes -> Profils]
      /\ Phase(c)' = "connecte"
      /\ \A d \in Programmes : d # c => programme'[d] = programme[d]
  <2> DEFINE v == [programme[c] EXCEPT !.phase = "connecte"]
             u == [v EXCEPT !.pseudo = p]
  <2>1. p \in Pseudos
    BY DEF Pseudos, Noms
  <2>2. v \in Profils /\ v.phase = "connecte"
    BY <1>4 DEF Profils, Phases
  <2> HIDE DEF v
  <2>3. u \in Profils /\ u.phase = "connecte"
    BY <2>1, <2>2 DEF Profils
  <2>4. programme' = [programme EXCEPT ![c] = u]
    BY <1>2 DEF v
  <2> HIDE DEF u
  <2> QED BY <1>4, <2>3, <2>4 DEF Phase
<1>6. /\ ecoute \in Seq(Programmes) /\ Len(ecoute) \in Nat
      /\ ecoute' \in Seq(Programmes)
      /\ Len(ecoute') = Len(ecoute) + 1
      /\ \A k \in 1 .. Len(ecoute) : ecoute'[k] = ecoute[k]
      /\ ecoute'[Len(ecoute) + 1] = c
  BY <1>1, FilesType, AjoutType
<1>7. \A k \in 1 .. Len(ecoute') : k \in 1 .. Len(ecoute) \/ k = Len(ecoute) + 1
  BY <1>6
<1>8. \A k \in 1 .. Len(ecoute) : k \in 1 .. Len(ecoute')
  BY <1>6
<1>9. \A d \in Programmes : d # c => /\ EnFile(d)' <=> EnFile(d)
                                     /\ Phase(d)' = Phase(d)
  BY <1>5, <1>6, <1>7, <1>8 DEF EnFile, Phase
<1>10. \A d \in Programmes : EnProfil(d)' <=> EnProfil(d)
  BY <1>1 DEF EnProfil
<1>11. EnAttente(c)' /\ ~EnFile(c) /\ ~EnProfil(c)'
  <2>1. Len(ecoute) + 1 \in 1 .. Len(ecoute')
    BY <1>6
  <2>2. EnFile(c)'
    BY <1>6, <2>1 DEF EnFile
  <2> QED BY <1>3, <1>10, <2>2 DEF EnAttente
<1>12. \A d \in Programmes : d # c => (EnAttente(d)' <=> EnAttente(d))
  BY <1>9, <1>10 DEF EnAttente
<1>13. Types'
  BY <1>1, <1>5, <1>6
     DEF IInv, Types, TypesServeur, TypesClients, TypesThreads, TypeHistorique, TypeCompteurs
<1>14. FileDistincte'
  <2>1. ASSUME NEW k \in 1 .. Len(ecoute'), NEW r \in 1 .. Len(ecoute'), ecoute'[k] = ecoute'[r]
        PROVE  k = r
    <3>1. \A s \in 1 .. Len(ecoute) : ecoute[s] # c
      BY <1>11 DEF EnFile
    <3>2. CASE k \in 1 .. Len(ecoute) /\ r \in 1 .. Len(ecoute)
      BY <1>6, <2>1, <3>2 DEF IInv, FileDistincte
    <3>3. CASE ~(k \in 1 .. Len(ecoute) /\ r \in 1 .. Len(ecoute))
      BY <1>6, <1>7, <2>1, <3>1, <3>3
    <3> QED BY <3>2, <3>3
  <2>2. \A d \in Programmes : ~(EnFile(d)' /\ EnProfil(d)')
    BY <1>9, <1>10, <1>11 DEF IInv, FileDistincte
  <2> QED BY <2>1, <2>2 DEF FileDistincte, EnFile, EnProfil
<1>15. Connectes' = Connectes /\ Connectes \subseteq Programmes
  BY <1>1, ConnectesType DEF Connectes
<1>16. Connexion'
  <2>1. SUFFICES ASSUME NEW d \in Programmes
                 PROVE  /\ Phase(d)' = "hors" =>
                             ~EnAttente(d)' /\ d \notin Connectes /\ entree[d] = <<>> /\ sortie[d] = <<>>
                        /\ Phase(d)' = "connecte" => entree[d] = <<>>
                        /\ EnAttente(d)' => /\ d \notin Connectes /\ sortie[d] = <<>>
                                            /\ Phase(d)' \in {"connecte", "attenteACK", "fini"}
                        /\ Accueil(d)' => Phase(d)' \in {"attenteACK", "fini"}
    BY <1>1, <1>15 DEF Connexion
  <2>2. Accueil(d)' <=> Accueil(d)
    BY <1>1 DEF Accueil
  <2>3. CASE d = c
    <3>1. ~Accueil(c)
      BY <1>1 DEF IInv, Connexion
    <3> QED BY <1>3, <1>5, <2>2, <2>3, <3>1
  <2>4. CASE d # c
    BY <1>9, <1>12, <2>2, <2>4 DEF IInv, Connexion
  <2> QED BY <2>3, <2>4
<1>17. AccuseSeul'
  <2>1. SUFFICES ASSUME NEW d \in Programmes, NEW k \in 1 .. Len(sortie[d]), sortie[d][k].type \in Accuses
                 PROVE  /\ Phase(d)' \in {"attenteACK", "fini"} /\ ~Accueil(d)
                        /\ \A r \in 1 .. Len(sortie[d]) : sortie[d][r].type \in Accuses => r = k
                        /\ sortie[d][k].type = "not_connected" => d \notin Connectes
    BY <1>1, <1>15 DEF AccuseSeul, Accueil
  <2>2. /\ Phase(d) \in {"attenteACK", "fini"} /\ ~Accueil(d)
        /\ \A r \in 1 .. Len(sortie[d]) : sortie[d][r].type \in Accuses => r = k
        /\ sortie[d][k].type = "not_connected" => d \notin Connectes
    BY <2>1 DEF IInv, AccuseSeul
  <2>3. d # c
    BY <1>1, <2>2
  <2> QED BY <1>9, <2>2, <2>3
<1>18. FinAnnoncee'
  <2>1. ASSUME NEW d \in Programmes, NEW k \in 1 .. Len(entree[d]), entree[d][k].type = "eof"
        PROVE  Phase(d)' = "fini"
    <3>1. Phase(d) = "fini"
      BY <2>1 DEF IInv, FinAnnoncee
    <3> QED BY <1>1, <1>9, <3>1
  <2>2. ASSUME principal.pc \in EtapesDepart
        PROVE  programme'[clients[principal.i].sock].phase = "fini"
    <3>0. principal.i \in 1..nbClients
      BY <2>2 DEF IInv, Poste, EtapesDepart, EtapesJoueur
    <3>1. clients[principal.i].sock \in Programmes /\ Phase(clients[principal.i].sock) = "fini"
      BY <2>2, <3>0 DEF IInv, Types, TypesServeur, TypesClients, FinAnnoncee
    <3>2. clients[principal.i].sock # c
      BY <1>1, <3>1
    <3> QED BY <1>5, <3>1, <3>2 DEF Phase
  <2> QED BY <1>1, <2>1, <2>2 DEF FinAnnoncee, Phase
<1>19. SocketsDistincts' /\ Poste'
  BY <1>1, <1>15 DEF IInv, SocketsDistincts, Poste, ThreadNeuf
<1>20. ASSUME PersonneParti' PROVE Calme'
  <2>1. PersonneParti
    <3>1. historique.troubles \subseteq Programmes
      BY DEF IInv, Types, TypeHistorique
    <3>2. \A d \in historique.troubles : Phase(d) # "fini"
      BY <1>1, <1>9, <1>20, <3>1 DEF PersonneParti
    <3> QED BY <1>1, <1>20, <3>2 DEF PersonneParti
  <2>2. Calme
    BY <2>1 DEF IInv
  <2>3. Inscrits' = Inscrits
    <3>1. \A d \in Connectes : programme'[d].pseudo = programme[d].pseudo
      BY <1>3, <1>5, <1>15
    <3> QED BY <1>15, <3>1 DEF Inscrits, Pseudo
  <2>4. \A d \in Programmes : Phase(d)' = "fini" => ~EnAttente(d)' /\ d \notin Connectes'
    BY <1>5, <1>9, <1>12, <1>15, <2>2 DEF Calme
  <2>5. \A d \in Programmes : Phase(d)' = "sollicite" => programme'[d].defieur \in Inscrits'
    BY <1>5, <1>9, <2>2, <2>3 DEF Calme
  <2> QED BY <1>1, <2>2, <2>3, <2>4, <2>5 DEF Calme
<1> QED BY <1>13, <1>14, <1>16, <1>17, <1>18, <1>19, <1>20 DEF IInv

\* What a program becomes at its end.
LEMMA FinirType ==
  ASSUME IInv, NEW c \in Programmes, Finir(c)
  PROVE  /\ programme' \in [Programmes -> Profils]
         /\ Phase(c)' = "fini" /\ Pseudo(c)' = Pseudo(c)
         /\ \A d \in Programmes : d # c => programme'[d] = programme[d]
         /\ entree' \in [Programmes -> Seq(Requetes)]
         /\ \A d \in Programmes : d # c => entree'[d] = entree[d]
         /\ \A k \in 1 .. Len(entree'[c]) :
              (k \in 1 .. Len(entree[c]) /\ entree'[c][k] = entree[c][k])
              \/ entree'[c][k] = [type |-> "eof"]
<1>1. /\ Ecrire(c, [type |-> "eof"])
      /\ programme' = [programme EXCEPT ![c].phase = "fini", ![c].joueurs = <<>>, ![c].defieur = Aucun]
  BY DEF Finir
<1>2. [type |-> "eof"] \in Requetes
  BY DEF Requetes
<1>3. programme \in [Programmes -> Profils] /\ programme[c] \in Profils
  BY DEF IInv, Types
<1> DEFINE v1 == [programme[c] EXCEPT !.phase = "fini"]
           v2 == [v1 EXCEPT !.joueurs = <<>>]
           v3 == [v2 EXCEPT !.defieur = Aucun]
<1>4. programme' = [programme EXCEPT ![c] = v3]
  BY <1>1
<1>5. v1 \in Profils /\ v1.phase = "fini" /\ v1.pseudo = programme[c].pseudo
  BY <1>3 DEF Profils, Phases
<1> HIDE DEF v1
<1>6. v2 \in Profils /\ v2.phase = "fini" /\ v2.pseudo = programme[c].pseudo
  <2>1. <<>> \in Seq(Fiches)
    BY EmptySeq
  <2> DEFINE vide == <<>>
  <2> HIDE DEF vide
  <2>2. vide \in Seq(Fiches) /\ v2 = [v1 EXCEPT !.joueurs = vide]
    BY <2>1 DEF vide
  <2> QED BY <1>5, <2>2 DEF Profils
<1> HIDE DEF v2
<1>7. v3 \in Profils /\ v3.phase = "fini" /\ v3.pseudo = programme[c].pseudo
  BY <1>6 DEF Profils, Pseudos
<1> HIDE DEF v3
<1>8. /\ programme' \in [Programmes -> Profils] /\ programme'[c] = v3
      /\ \A d \in Programmes : d # c => programme'[d] = programme[d]
  BY <1>3, <1>4, <1>7
<1> QED BY <1>1, <1>2, <1>7, <1>8, EcrireType DEF Phase, Pseudo

\* The profile is the first request.
LEMMA EnvoyerProfilPas ==
  ASSUME IInv, NEW c \in Programmes, EnvoyerProfil(c)
  PROVE  IInv'
<1>1. /\ Phase(c) = "connecte"
      /\ Ecrire(c, [type |-> "profil"])
      /\ programme' = [programme EXCEPT ![c].phase = "attenteACK",
                         ![c].joueurs = <<[pseudo |-> Pseudo(c), etat |-> 0]>>]
      /\ UNCHANGED <<varsServeur, sortie, historique, compteurs>>
  BY DEF EnvoyerProfil
<1>2. [type |-> "profil"] \in Requetes
  BY DEF Requetes
<1>3. programme \in [Programmes -> Profils] /\ programme[c] \in Profils
  BY DEF IInv, Types
<1> DEFINE soi == <<[pseudo |-> Pseudo(c), etat |-> 0]>>
           v1 == [programme[c] EXCEPT !.phase = "attenteACK"]
           v2 == [v1 EXCEPT !.joueurs = soi]
<1>4. soi \in Seq(Fiches)
  <2>1. [pseudo |-> Pseudo(c), etat |-> 0] \in Fiches
    BY <1>3 DEF Fiches, Pseudo, Profils
  <2> QED BY <2>1
<1>5. programme' = [programme EXCEPT ![c] = v2]
  BY <1>1
<1> HIDE DEF soi
<1>6. v1 \in Profils /\ v1.phase = "attenteACK" /\ v1.pseudo = programme[c].pseudo
  BY <1>3 DEF Profils, Phases
<1> HIDE DEF v1
<1>7. v2 \in Profils /\ v2.phase = "attenteACK" /\ v2.pseudo = programme[c].pseudo
  BY <1>4, <1>6 DEF Profils
<1> HIDE DEF v2
<1>8. /\ programme' \in [Programmes -> Profils] /\ programme'[c] = v2
      /\ \A d \in Programmes : d # c => programme'[d] = programme[d]
  BY <1>3, <1>5, <1>7
<1>9. /\ entree' \in [Programmes -> Seq(Requetes)]
      /\ \A d \in Programmes : d # c => entree'[d] = entree[d]
      /\ \A k \in 1 .. Len(entree'[c]) :
           (k \in 1 .. Len(entree[c]) /\ entree'[c][k] = entree[c][k]) \/ entree'[c][k] = [type |-> "profil"]
  BY <1>1, <1>2, EcrireType
<1>10. /\ EnAttente(c) => sortie[c] = <<>>
       /\ SortieReste(c)
  BY <1>1, RienRecu DEF IInv, Connexion
<1>11. Types'
  <2>1. sortie' \in Files /\ TypeHistorique' /\ TypeCompteurs'
    BY <1>1, FilesType DEF IInv, Types, TypeHistorique, TypeCompteurs
  <2> QED BY <1>1, <1>8, <1>9, <2>1, ClientTypes
<1>12. Phase(c)' = "attenteACK" /\ Pseudo(c)' = Pseudo(c)
  BY <1>7, <1>8 DEF Phase, Pseudo
<1>13. \A k \in 1 .. Len(entree'[c]) :
         \/ k \in 1 .. Len(entree[c]) /\ entree'[c][k] = entree[c][k]
         \/ entree'[c][k].type \notin {"eof", "DEFI/accept"}
  BY <1>9
<1> QED BY <1>1, <1>8, <1>9, <1>10, <1>11, <1>12, <1>13, ClientPas

\* A step of c that reads the messages of one recv.
LEMMA ReceptionPas ==
  ASSUME IInv, NEW c \in Programmes, NEW lot, Recoit(c, lot), UNCHANGED varsServeur,
         programme' \in [Programmes -> Profils], entree' \in [Programmes -> Seq(Requetes)],
         TypeHistorique', historique.troubles \subseteq historique'.troubles,
         \A d \in Programmes : d # c => programme'[d] = programme[d] /\ entree'[d] = entree[d],
         Phase(c) \notin {"hors", "fini"}, Phase(c)' \notin {"hors", "connecte", "attenteACK"},
         Pseudo(c)' = Pseudo(c),
         Accueil(c) => Phase(c)' = "fini", Phase(c)' = "fini" \/ SansAccuse(c)',
         \A k \in 1 .. Len(entree'[c]) :
           \/ k \in 1 .. Len(entree[c]) /\ entree'[c][k] = entree[c][k]
           \/ /\ entree'[c][k].type = "eof" => Phase(c)' = "fini"
              /\ entree'[c][k].type # "DEFI/accept",
         PersonneParti' /\ Calme =>
           /\ Phase(c)' = "fini" => c \notin Connectes
           /\ Phase(c)' = "sollicite" => programme'[c].defieur \in Inscrits
  PROVE  IInv'
<1>1. /\ sortie' \in Files
      /\ \A d \in Programmes : d # c => sortie'[d] = sortie[d]
      /\ TypeCompteurs' /\ compteurs'.departs = compteurs.departs
      /\ ~EnAttente(c)
  BY RecoitType
<1>2. Types'
  BY <1>1, ClientTypes
<1>3. SortieReste(c)
  BY RecoitReste
<1>4. \A k \in 1 .. Len(entree'[c]) :
        \/ k \in 1 .. Len(entree[c]) /\ entree'[c][k] = entree[c][k]
        \/ /\ entree'[c][k].type = "eof" => Phase(c)' = "fini"
           /\ Calme /\ entree'[c][k].type = "DEFI/accept" => entree'[c][k].cible \in Inscrits
  OBVIOUS
<1>5. \A d \in Programmes : d # c =>
        programme'[d] = programme[d] /\ entree'[d] = entree[d] /\ sortie'[d] = sortie[d]
  BY <1>1
<1>6. PersonneParti' /\ Calme =>
        /\ Phase(c)' = "fini" => ~EnAttente(c) /\ c \notin Connectes
        /\ Phase(c)' = "sollicite" => programme'[c].defieur \in Inscrits
  BY <1>1
<1>7. /\ Phase(c)' \notin {"hors", "connecte"}
      /\ EnAttente(c) \/ Accueil(c) => Phase(c)' \in {"attenteACK", "fini"}
      /\ EnAttente(c) => sortie'[c] = <<>>
      /\ Phase(c)' \in {"attenteACK", "fini"} \/ SansAccuse(c)'
      /\ compteurs'.departs = 0 => compteurs.departs = 0
  BY <1>1
<1> QED BY <1>2, <1>3, <1>4, <1>5, <1>6, <1>7, ClientPas

\* The answer to the profile: the program goes on or ends.
LEMMA LireACKPas ==
  ASSUME IInv, NEW c \in Programmes, LireACK(c)
  PROVE  IInv'
<1>1. Phase(c) = "attenteACK" /\ UNCHANGED varsServeur
  BY DEF LireACK
<1>2. PICK lot : /\ Recoit(c, lot)
                 /\ IF lot = <<[type |-> "connect"]>>
                    THEN Ecrire(c, [type |-> "list_joueur"]) /\ Passer(c, "attenteListe")
                    ELSE Finir(c)
                 /\ historique' = IF lot \in {<<[type |-> "connect"]>>, <<[type |-> "not_connected"]>>}
                                  THEN historique ELSE [historique EXCEPT !.troubles = @ \cup {c}]
  BY DEF LireACK
<1>3. /\ lot \in Seq(Messages) /\ DOMAIN lot = 1 .. Len(lot) /\ Len(lot) \in Nat \ {0}
      /\ \A k \in 1 .. Len(lot) : k \in 1 .. Len(sortie[c]) /\ lot[k] = sortie[c][k]
      /\ \A k \in 1 .. Len(sortie'[c]) :
           /\ Len(lot) + k \in 1 .. Len(sortie[c]) /\ Len(lot) + k # 1
           /\ sortie'[c][k] = sortie[c][Len(lot) + k]
  BY <1>2, RecoitType
<1>4. /\ TypeHistorique' /\ historique.troubles \subseteq historique'.troubles
      /\ lot \notin {<<[type |-> "connect"]>>, <<[type |-> "not_connected"]>>} => c \in historique'.troubles
  BY <1>2 DEF IInv, Types, TypeHistorique
<1>5. CASE lot = <<[type |-> "connect"]>>
  <2> DEFINE m == [type |-> "list_joueur"]
  <2>1. m \in Requetes /\ m.type \notin {"eof", "DEFI/accept"}
    BY DEF Requetes
  <2> HIDE DEF m
  <2>2. /\ entree' \in [Programmes -> Seq(Requetes)]
        /\ \A d \in Programmes : d # c => entree'[d] = entree[d]
        /\ \A k \in 1 .. Len(entree'[c]) :
             (k \in 1 .. Len(entree[c]) /\ entree'[c][k] = entree[c][k]) \/ entree'[c][k] = m
    <3>1. Ecrire(c, m)
      BY <1>2, <1>5 DEF m
    <3> QED BY <2>1, <3>1, EcrireType
  <2>3. programme' = [programme EXCEPT ![c].phase = "attenteListe"]
    BY <1>2, <1>5 DEF Passer
  <2>4. /\ programme' \in [Programmes -> Profils]
        /\ Phase(c)' = "attenteListe" /\ Pseudo(c)' = Pseudo(c)
        /\ \A d \in Programmes : d # c => programme'[d] = programme[d]
    BY <2>3 DEF IInv, Types, Profils, Phases, Phase, Pseudo
  <2>5. \A k \in 1 .. Len(entree'[c]) :
          \/ k \in 1 .. Len(entree[c]) /\ entree'[c][k] = entree[c][k]
          \/ entree'[c][k].type \notin {"eof", "DEFI/accept"}
    BY <2>1, <2>2
  <2>6. 1 \in 1 .. Len(sortie[c]) /\ sortie[c][1].type = "connect"
    <3>1. Len(lot) = 1 /\ lot[1] = [type |-> "connect"]
      BY <1>5
    <3> QED BY <1>3, <3>1
  <2>7. /\ ~Accueil(c)
        /\ \A r \in 1 .. Len(sortie[c]) : sortie[c][r].type \in Accuses => r = 1
    BY <2>6 DEF IInv, AccuseSeul, Accuses
  <2>8. SansAccuse(c)'
    BY <1>3, <2>7 DEF SansAccuse
  <2> QED BY <1>1, <1>2, <1>4, <2>2, <2>4, <2>5, <2>7, <2>8, ReceptionPas
<1>6. CASE lot # <<[type |-> "connect"]>>
  <2>1. Finir(c)
    BY <1>2, <1>6
  <2>2. /\ programme' \in [Programmes -> Profils]
        /\ Phase(c)' = "fini" /\ Pseudo(c)' = Pseudo(c)
        /\ \A d \in Programmes : d # c => programme'[d] = programme[d]
        /\ entree' \in [Programmes -> Seq(Requetes)]
        /\ \A d \in Programmes : d # c => entree'[d] = entree[d]
        /\ \A k \in 1 .. Len(entree'[c]) :
             (k \in 1 .. Len(entree[c]) /\ entree'[c][k] = entree[c][k])
             \/ entree'[c][k] = [type |-> "eof"]
    BY <2>1, FinirType
  <2>3. PersonneParti' => c \notin Connectes
    <3>1. SUFFICES ASSUME PersonneParti' PROVE c \notin Connectes
      OBVIOUS
    <3>2. lot = <<[type |-> "not_connected"]>>
      BY <1>4, <1>6, <2>2, <3>1 DEF PersonneParti
    <3>3. 1 \in 1 .. Len(sortie[c]) /\ sortie[c][1].type = "not_connected"
      <4>1. Len(lot) = 1 /\ lot[1] = [type |-> "not_connected"]
        BY <3>2
      <4> QED BY <1>3, <4>1
    <3> QED BY <3>3 DEF IInv, AccuseSeul, Accuses
  <2>4. \A k \in 1 .. Len(entree'[c]) :
          \/ k \in 1 .. Len(entree[c]) /\ entree'[c][k] = entree[c][k]
          \/ entree'[c][k].type = "eof"
    BY <2>2
  <2> QED BY <1>1, <1>2, <1>4, <2>2, <2>3, <2>4, ReceptionPas
<1> QED BY <1>5, <1>6

-----------------------------------------------------------------------------
(* The client programs: the list and the messages. *)

\* A message that does not answer a profile, read after the answer.
LEMMA LotType ==
  ASSUME IInv, NEW c \in Programmes, NEW lot, Recoit(c, lot),
         Phase(c) \notin {"connecte", "attenteACK", "fini"}
  PROVE  /\ DOMAIN lot = 1 .. Len(lot) /\ Len(lot) \in Nat \ {0} /\ lot \in Seq(Messages)
         /\ \A k \in 1 .. Len(lot) :
              /\ lot[k] \in Messages /\ lot[k].type \notin Accuses
              /\ k \in 1 .. Len(sortie[c]) /\ lot[k] = sortie[c][k]
<1>1. /\ lot \in Seq(Messages) /\ DOMAIN lot = 1 .. Len(lot) /\ Len(lot) \in Nat \ {0}
      /\ \A k \in 1 .. Len(lot) : k \in 1 .. Len(sortie[c]) /\ lot[k] = sortie[c][k]
  BY RecoitType
<1>2. \A k \in 1 .. Len(sortie[c]) : sortie[c][k].type \notin Accuses
  BY DejaAccueilli DEF SansAccuse
<1>3. \A k \in 1 .. Len(lot) : lot[k] \in Messages
  BY <1>1, ElementOfSeq
<1> QED BY <1>1, <1>2, <1>3

\* What init_list_joueur makes of a message is a list of players.
LEMMA EntreesType ==
  ASSUME NEW m \in Messages, m.type \notin Accuses
  PROVE  Entrees(m) \in Seq(Fiches)
<1>1. Aucun \in Pseudos
  BY DEF Pseudos
<1>2. CASE m.type = "liste"
  <2>1. m.joueurs \in Seq(Fiches)
    BY <1>2 DEF Messages, Infos, Listes, Accuses, Avis, Defis
  <2> QED BY <1>2, <2>1 DEF Entrees
<1>3. CASE m.type = "DEFI/new"
  <2>1. m.etat \in 0..3 /\ m.par \in Pseudos
    BY <1>3 DEF Messages, Infos, Listes, Accuses, Avis, Defis
  <2>2. [pseudo |-> Aucun, etat |-> m.etat] \in Fiches /\ [pseudo |-> m.par, etat |-> m.etat] \in Fiches
    BY <1>1, <2>1 DEF Fiches
  <2>3. <<[pseudo |-> Aucun, etat |-> m.etat], [pseudo |-> m.par, etat |-> m.etat]>> \in Seq(Fiches)
    BY <2>2
  <2> QED BY <1>3, <2>3 DEF Entrees
<1>4. CASE m.type \notin {"liste", "DEFI/new"}
  <2>1. m.etat \in 0..3
    BY <1>4 DEF Messages, Infos, Listes, Avis, Defis
  <2>2. [pseudo |-> Aucun, etat |-> m.etat] \in Fiches
    BY <1>1, <2>1 DEF Fiches
  <2>3. <<[pseudo |-> Aucun, etat |-> m.etat]>> \in Seq(Fiches)
    BY <2>2
  <2> QED BY <1>4, <2>3 DEF Entrees
<1> QED BY <1>2, <1>3, <1>4

\* What a program keeps of itself and of the others.
LEMMA FicheNouvelle ==
  ASSUME NEW P \in [Programmes -> Profils], NEW c \in Programmes, NEW u \in Profils
  PROVE  /\ [P EXCEPT ![c] = u] \in [Programmes -> Profils]
         /\ [P EXCEPT ![c] = u][c] = u
         /\ \A d \in Programmes : d # c => [P EXCEPT ![c] = u][d] = P[d]
OBVIOUS

\* The list alone.
LEMMA ListeNouvelle ==
  ASSUME NEW P \in [Programmes -> Profils], NEW c \in Programmes, NEW joueurs \in Seq(Fiches)
  PROVE  /\ [P EXCEPT ![c].joueurs = joueurs] \in [Programmes -> Profils]
         /\ [P EXCEPT ![c].joueurs = joueurs][c].joueurs = joueurs
         /\ [P EXCEPT ![c].joueurs = joueurs][c].phase = P[c].phase
         /\ [P EXCEPT ![c].joueurs = joueurs][c].pseudo = P[c].pseudo
         /\ \A d \in Programmes : d # c => [P EXCEPT ![c].joueurs = joueurs][d] = P[d]
BY DEF Profils

\* A step of c that writes nothing and changes its phase, its list and its
\* challenger.
LEMMA FicheChangee ==
  ASSUME IInv, NEW c \in Programmes, NEW phase \in Phases, NEW joueurs \in Seq(Fiches),
         NEW defieur \in Pseudos,
         programme' = [programme EXCEPT ![c].phase = phase, ![c].defieur = defieur,
                                        ![c].joueurs = joueurs]
  PROVE  /\ programme' \in [Programmes -> Profils]
         /\ Phase(c)' = phase /\ Pseudo(c)' = Pseudo(c) /\ programme'[c].defieur = defieur
         /\ \A d \in Programmes : d # c => programme'[d] = programme[d]
<1>1. programme \in [Programmes -> Profils] /\ programme[c] \in Profils
  BY DEF IInv, Types
<1> DEFINE v1 == [programme[c] EXCEPT !.phase = phase]
           v2 == [v1 EXCEPT !.defieur = defieur]
           v3 == [v2 EXCEPT !.joueurs = joueurs]
<1>2. programme' = [programme EXCEPT ![c] = v3]
  OBVIOUS
<1>3. v1 \in Profils /\ v1.phase = phase /\ v1.pseudo = programme[c].pseudo
  BY <1>1 DEF Profils
<1> HIDE DEF v1
<1>4. v2 \in Profils /\ v2.phase = phase /\ v2.pseudo = programme[c].pseudo /\ v2.defieur = defieur
  BY <1>3 DEF Profils
<1> HIDE DEF v2
<1>5. v3 \in Profils /\ v3.phase = phase /\ v3.pseudo = programme[c].pseudo /\ v3.defieur = defieur
  BY <1>4 DEF Profils
<1> HIDE DEF v3
<1>6. /\ programme' \in [Programmes -> Profils] /\ programme'[c] = v3
      /\ \A d \in Programmes : d # c => programme'[d] = programme[d]
  <2> DEFINE f == [programme EXCEPT ![c] = v3]
  <2>1. /\ f \in [Programmes -> Profils] /\ f[c] = v3
        /\ \A d \in Programmes : d # c => f[d] = programme[d]
    BY <1>1, <1>5, FicheNouvelle
  <2>2. programme' = f
    BY <1>2
  <2> HIDE DEF f
  <2> QED BY <2>1, <2>2
<1> QED BY <1>5, <1>6 DEF Phase, Pseudo

\* Without the field that a step leaves alone.
LEMMA ListeChangee ==
  ASSUME IInv, NEW c \in Programmes, NEW joueurs \in Seq(Fiches),
         programme' = [programme EXCEPT ![c].joueurs = joueurs]
  PROVE  /\ programme' \in [Programmes -> Profils]
         /\ Phase(c)' = Phase(c) /\ Pseudo(c)' = Pseudo(c)
         /\ programme'[c].defieur = programme[c].defieur
         /\ \A d \in Programmes : d # c => programme'[d] = programme[d]
BY DEF IInv, Types, Profils, Phase, Pseudo

\* The step is what the listening thread does with the messages of one recv.
LEMMA EcoutePas ==
  ASSUME IInv, NEW c \in Programmes, NEW lot, Recoit(c, lot), UNCHANGED <<varsServeur, entree>>,
         Phase(c) \notin {"hors", "connecte", "attenteACK", "fini"}, Phase(c)' \notin {"hors", "connecte", "attenteACK", "fini"},
         Pseudo(c)' = Pseudo(c), programme' \in [Programmes -> Profils],
         \A d \in Programmes : d # c => programme'[d] = programme[d],
         TypeHistorique', historique.troubles \subseteq historique'.troubles,
         Calme /\ Phase(c)' = "sollicite" => programme'[c].defieur \in Inscrits
  PROVE  IInv'
<1>1. entree' \in [Programmes -> Seq(Requetes)]
  BY DEF IInv, Types
<1>2. ~Accueil(c) /\ SansAccuse(c)'
  BY DejaAccueilli, RecoitReste
<1> QED BY <1>1, <1>2, ReceptionPas

\* init_list_joueur.
LEMMA LireListePas ==
  ASSUME IInv, NEW c \in Programmes, LireListe(c)
  PROVE  IInv'
<1>1. Phase(c) = "attenteListe" /\ UNCHANGED <<varsServeur, entree>>
  BY DEF LireListe
<1>2. PICK lot :
        /\ Recoit(c, lot)
        /\ programme' = [programme EXCEPT ![c].phase = "menu",
              ![c].joueurs = @ \o FlattenSeq([k \in DOMAIN lot |-> Entrees(lot[k])])]
        /\ historique' = IF Len(lot) = 1 /\ lot[1].type = "liste" THEN historique
                         ELSE [historique EXCEPT !.troubles = @ \cup {c}]
  BY DEF LireListe
<1> DEFINE seqs == [k \in DOMAIN lot |-> Entrees(lot[k])]
           suite == FlattenSeq(seqs)
<1>3. /\ DOMAIN lot = 1 .. Len(lot) /\ Len(lot) \in Nat
      /\ \A k \in 1 .. Len(lot) : lot[k] \in Messages /\ lot[k].type \notin Accuses
  BY <1>1, <1>2, LotType
<1>4. seqs \in Seq(Seq(Fiches))
  <2>1. \A k \in DOMAIN lot : Entrees(lot[k]) \in Seq(Fiches)
    BY <1>3, EntreesType
  <2>2. seqs \in [1 .. Len(lot) -> Seq(Fiches)]
    BY <1>3, <2>1
  <2> QED BY <1>3, <2>2, SeqDef
<1> HIDE DEF seqs
<1>5. suite \in Seq(Fiches)
  BY <1>4, FlattenSeqType
<1>6. programme \in [Programmes -> Profils] /\ programme[c] \in Profils
      /\ programme[c].joueurs \in Seq(Fiches)
  BY DEF IInv, Types, Profils
<1> DEFINE l == programme[c].joueurs \o suite
<1>7. l \in Seq(Fiches)
  BY <1>5, <1>6, ConcatProperties
<1>8. programme' = [programme EXCEPT ![c].phase = "menu", ![c].joueurs = l]
  BY <1>2 DEF seqs
<1> HIDE DEF l
<1>9. /\ programme' \in [Programmes -> Profils]
      /\ Phase(c)' = "menu" /\ Pseudo(c)' = Pseudo(c)
      /\ \A d \in Programmes : d # c => programme'[d] = programme[d]
  <2> DEFINE v1 == [programme[c] EXCEPT !.phase = "menu"]
             v2 == [v1 EXCEPT !.joueurs = l]
  <2>1. programme' = [programme EXCEPT ![c] = v2]
    BY <1>8
  <2>2. v1 \in Profils /\ v1.phase = "menu" /\ v1.pseudo = programme[c].pseudo
    BY <1>6 DEF Profils, Phases
  <2> HIDE DEF v1
  <2>3. v2 \in Profils /\ v2.phase = "menu" /\ v2.pseudo = programme[c].pseudo
    BY <1>7, <2>2 DEF Profils
  <2> HIDE DEF v2
  <2> QED BY <1>6, <2>1, <2>3 DEF Phase, Pseudo
<1>10. TypeHistorique' /\ historique.troubles \subseteq historique'.troubles
  BY <1>2 DEF IInv, Types, TypeHistorique
<1> QED BY <1>1, <1>2, <1>9, <1>10, EcoutePas

\* The player that a message names, when it has a keyword.
LEMMA PremierJoueurType ==
  ASSUME IInv, NEW c \in Programmes, NEW lot, NEW mot \in Avis \cup Defis, Entend(c, lot, mot)
  PROVE  PremierJoueur(lot) \in Fiches
<1> DEFINE nommes == {k \in DOMAIN lot : lot[k].type \notin {"liste", "connect"}}
           k0 == CHOOSE k \in nommes : \A n \in nommes : k <= n
<1>1. Recoit(c, lot) /\ Phase(c) \notin {"connecte", "attenteACK", "fini"}
  BY DEF Entend
<1>2. /\ DOMAIN lot = 1 .. Len(lot)
      /\ \A k \in 1 .. Len(lot) : lot[k] \in Messages /\ lot[k].type \notin Accuses
  BY <1>1, LotType
<1>3. nommes # {}
  <2>1. PICK k \in DOMAIN lot : lot[k].type = mot
    BY DEF Entend, Reconnait
  <2>2. mot \notin {"liste", "connect"}
    BY DEF Avis, Defis
  <2> QED BY <2>1, <2>2
<1>4. nommes \subseteq Nat
  BY <1>2
<1>5. k0 \in nommes
  <2> HIDE DEF nommes
  <2> QED BY <1>3, <1>4, Premier
<1> HIDE DEF k0
<1>6. lot[k0] \in Messages /\ lot[k0].type \notin {"liste", "connect", "not_connected"}
  BY <1>2, <1>5 DEF Accuses
<1>7. lot[k0].pseudo \in Pseudos /\ lot[k0].etat \in 0..3
  BY <1>6 DEF Messages, Infos, Listes, Accuses, Avis, Defis
<1>8. PremierJoueur(lot) = [pseudo |-> lot[k0].pseudo, etat |-> lot[k0].etat]
  BY DEF PremierJoueur, k0
<1> QED BY <1>7, <1>8 DEF Fiches

\* A place that Rang finds is one of the list.
LEMMA RangType ==
  ASSUME IInv, NEW c \in Programmes, NEW pseudo, Rang(c, pseudo) # 0
  PROVE  Rang(c, pseudo) \in 1 .. Len(programme[c].joueurs)
<1> DEFINE rangs == {k \in DOMAIN programme[c].joueurs : programme[c].joueurs[k].pseudo = pseudo}
           r0 == CHOOSE k \in rangs : \A r \in rangs : k <= r
<1>1. programme[c].joueurs \in Seq(Fiches)
  BY DEF IInv, Types, Profils
<1>2. rangs \subseteq Nat /\ rangs \subseteq 1 .. Len(programme[c].joueurs)
  BY <1>1, LenProperties
<1>3. rangs # {} /\ Rang(c, pseudo) = r0
  BY DEF Rang
<1> HIDE DEF rangs
<1>4. r0 \in rangs
  BY <1>2, <1>3, Premier
<1> QED BY <1>2, <1>3, <1>4

\* Where a handler of the listening thread starts from.
LEMMA EntendType ==
  ASSUME IInv, NEW c \in Programmes, NEW lot, NEW mot, Entend(c, lot, mot)
  PROVE  /\ Recoit(c, lot) /\ Phase(c) \in {"menu", "attend", "jeu"}
         /\ programme[c] \in Profils /\ programme[c].joueurs \in Seq(Fiches)
BY DEF Entend, IInv, Types, Profils

\* new_joueur.
LEMMA AjouterJoueurPas ==
  ASSUME IInv, NEW c \in Programmes, NEW lot, AjouterJoueur(c, lot)
  PROVE  IInv'
<1>1. /\ Entend(c, lot, "new_joueur") /\ historique' = NoterJoints(c, lot)
      /\ UNCHANGED <<varsServeur, entree>>
      /\ programme' = [programme EXCEPT ![c].joueurs = Append(programme[c].joueurs, PremierJoueur(lot))]
  BY DEF AjouterJoueur
<1> DEFINE l == Append(programme[c].joueurs, PremierJoueur(lot))
<1>2. Recoit(c, lot) /\ Phase(c) \in {"menu", "attend", "jeu"}
      /\ programme[c].joueurs \in Seq(Fiches)
  BY <1>1, EntendType
<1>3. PremierJoueur(lot) \in Fiches
  BY <1>1, PremierJoueurType DEF Avis
<1>4. l \in Seq(Fiches)
  BY <1>2, <1>3, AjoutType
<1> HIDE DEF l
<1>5. /\ programme' \in [Programmes -> Profils]
      /\ Phase(c)' = Phase(c) /\ Pseudo(c)' = Pseudo(c)
      /\ \A d \in Programmes : d # c => programme'[d] = programme[d]
  BY <1>1, <1>4, ListeChangee DEF l
<1>6. TypeHistorique' /\ historique.troubles \subseteq historique'.troubles
  BY <1>1, NoterJointsType
<1> QED BY <1>1, <1>2, <1>5, <1>6, EcoutePas

\* A list without one of its entries.
LEMMA OterType ==
  ASSUME NEW liste \in Seq(Fiches), NEW k \in 1 .. Len(liste)
  PROVE  Oter(liste, k) \in Seq(Fiches)
<1> DEFINE l == [liste EXCEPT ![k] = liste[Len(liste)]]
<1>1. Len(liste) \in Nat /\ DOMAIN liste = 1 .. Len(liste) /\ Len(liste) >= 1
      /\ \A i \in 1 .. Len(liste) : liste[i] \in Fiches
  BY LenProperties, ElementOfSeq
<1>2. l \in [1 .. Len(liste) -> Fiches]
  BY <1>1
<1>3. l \in Seq(Fiches) /\ Len(l) = Len(liste)
  <2>1. l \in Seq(Fiches)
    BY <1>1, <1>2, SeqDef
  <2> QED BY <1>1, <1>2, <2>1, LenProperties
<1>4. \A i \in 1 .. Len(liste) - 1 : l[i] \in Fiches
  BY <1>1, <1>2
<1> HIDE DEF l
<1>5. SubSeq(l, 1, Len(liste) - 1) \in Seq(Fiches)
  <2>1. 1 \in Int /\ Len(liste) - 1 \in Int
    BY <1>1
  <2> QED BY <1>3, <1>4, <2>1, SubSeqProperties
<1> QED BY <1>5 DEF Oter, l

\* Nobody is told of a departure while nobody has left.
LEMMA SupprimerJoueurPas ==
  ASSUME IInv, NEW c \in Programmes, NEW lot, SupprimerJoueur(c, lot)
  PROVE  IInv'
<1> DEFINE k == Rang(c, PremierJoueur(lot).pseudo)
<1>1. /\ Entend(c, lot, "delete_joueur") /\ historique' = NoterJoints(c, lot)
      /\ UNCHANGED varsServeur
      /\ IF k = 0 THEN Finir(c)
         ELSE /\ programme' = [programme EXCEPT ![c].joueurs = Oter(programme[c].joueurs, k)]
              /\ UNCHANGED entree
  BY DEF SupprimerJoueur
<1>2. Recoit(c, lot) /\ Phase(c) \in {"menu", "attend", "jeu"}
      /\ programme[c].joueurs \in Seq(Fiches)
  BY <1>1, EntendType
<1>3. TypeHistorique' /\ historique.troubles \subseteq historique'.troubles
  BY <1>1, NoterJointsType
<1>4. ~Calme
  <2>1. PICK r \in DOMAIN lot : lot[r].type = "delete_joueur"
    BY <1>1 DEF Entend, Reconnait
  <2>2. r \in 1 .. Len(sortie[c]) /\ sortie[c][r].type = "delete_joueur"
    BY <1>2, <2>1, LotType
  <2> QED BY <2>2 DEF Calme
<1> HIDE DEF k
<1>5. CASE k = 0
  <2>1. Finir(c)
    BY <1>1, <1>5
  <2>2. /\ programme' \in [Programmes -> Profils]
        /\ Phase(c)' = "fini" /\ Pseudo(c)' = Pseudo(c)
        /\ \A d \in Programmes : d # c => programme'[d] = programme[d]
        /\ entree' \in [Programmes -> Seq(Requetes)]
        /\ \A d \in Programmes : d # c => entree'[d] = entree[d]
        /\ \A r \in 1 .. Len(entree'[c]) :
             (r \in 1 .. Len(entree[c]) /\ entree'[c][r] = entree[c][r])
             \/ entree'[c][r] = [type |-> "eof"]
    BY <2>1, FinirType
  <2>3. \A r \in 1 .. Len(entree'[c]) :
          \/ r \in 1 .. Len(entree[c]) /\ entree'[c][r] = entree[c][r]
          \/ entree'[c][r].type = "eof"
    BY <2>2
  <2>4. ~Accueil(c)
    BY <1>2, DejaAccueilli
  <2> QED BY <1>1, <1>2, <1>3, <1>4, <2>2, <2>3, <2>4, ReceptionPas
<1>6. CASE k # 0
  <2> DEFINE l == Oter(programme[c].joueurs, k)
  <2>1. k \in 1 .. Len(programme[c].joueurs)
    BY <1>6, RangType DEF k
  <2>2. l \in Seq(Fiches)
    BY <1>2, <2>1, OterType
  <2>3. programme' = [programme EXCEPT ![c].joueurs = l] /\ UNCHANGED entree
    BY <1>1, <1>6
  <2> HIDE DEF l
  <2>4. /\ programme' \in [Programmes -> Profils]
        /\ Phase(c)' = Phase(c) /\ Pseudo(c)' = Pseudo(c)
        /\ \A d \in Programmes : d # c => programme'[d] = programme[d]
    BY <2>2, <2>3, ListeChangee
  <2> QED BY <1>1, <1>2, <1>3, <1>4, <2>3, <2>4, EcoutePas
<1> QED BY <1>5, <1>6

\* update_etat_joueur.
LEMMA MettreAJourPas ==
  ASSUME IInv, NEW c \in Programmes, NEW lot, MettreAJour(c, lot)
  PROVE  IInv'
<1> DEFINE j == PremierJoueur(lot)
           k == Rang(c, j.pseudo)
           l == [programme[c].joueurs EXCEPT ![k].etat = j.etat]
<1>1. /\ Entend(c, lot, "update_etat_joueur")
      /\ programme' = IF k = 0 THEN programme ELSE [programme EXCEPT ![c].joueurs[k].etat = j.etat]
      /\ historique' = [NoterJoints(c, lot) EXCEPT !.ecrits[c] = @ \ {j.pseudo}]
      /\ UNCHANGED <<varsServeur, entree>>
  BY DEF MettreAJour
<1>2. Recoit(c, lot) /\ Phase(c) \in {"menu", "attend", "jeu"}
      /\ programme[c].joueurs \in Seq(Fiches)
  BY <1>1, EntendType
<1>3. j \in Fiches
  BY <1>1, PremierJoueurType DEF Avis
<1>4. j.etat \in 0..3
  BY <1>3 DEF Fiches
<1> HIDE DEF j, k
<1>5. l \in Seq(Fiches)
  BY <1>2, <1>4, EtatEcritType
<1>6. k # 0 => programme' = [programme EXCEPT ![c].joueurs = l]
  BY <1>1
<1> HIDE DEF l
<1>7. /\ programme' \in [Programmes -> Profils]
      /\ Phase(c)' = Phase(c) /\ Pseudo(c)' = Pseudo(c)
      /\ \A d \in Programmes : d # c => programme'[d] = programme[d]
  <2>1. CASE k = 0
    BY <1>1, <2>1 DEF IInv, Types, Phase, Pseudo
  <2>2. CASE k # 0
    BY <1>5, <1>6, <2>2, ListeChangee
  <2> QED BY <2>1, <2>2
<1>8. TypeHistorique' /\ historique.troubles \subseteq historique'.troubles
  <2> DEFINE h == NoterJoints(c, lot)
             e == h.ecrits[c] \ {j.pseudo}
  <2>1. /\ h \in [troubles : SUBSET Programmes, interroges : SUBSET Programmes,
                  ecrits : [Programmes -> SUBSET Pseudos], croises : SUBSET Programmes]
        /\ historique.troubles \subseteq h.troubles
    BY DEF NoterJoints, IInv, Types, TypeHistorique
  <2> HIDE DEF h
  <2>2. e \in SUBSET Pseudos
    BY <2>1
  <2> HIDE DEF e
  <2>3. historique' = [h EXCEPT !.ecrits[c] = e]
    BY <1>1 DEF h, e
  <2> QED BY <2>1, <2>2, <2>3 DEF TypeHistorique
<1> QED BY <1>1, <1>2, <1>7, <1>8, EcoutePas

\* Whoever challenges is in the list of the server, as long as nobody leaves.
LEMMA RecevoirDefiPas ==
  ASSUME IInv, NEW c \in Programmes, NEW lot, RecevoirDefi(c, lot)
  PROVE  IInv'
<1> DEFINE r == CHOOSE k \in DOMAIN lot : lot[k].type = "DEFI/new"
           p == lot[r].par
<1>1. /\ Entend(c, lot, "DEFI/new") /\ historique' = NoterJoints(c, lot)
      /\ UNCHANGED <<varsServeur, entree>>
      /\ programme' = [programme EXCEPT ![c].phase = "sollicite", ![c].defieur = p]
  BY DEF RecevoirDefi
<1>2. Recoit(c, lot) /\ Phase(c) \in {"menu", "attend", "jeu"} /\ programme[c] \in Profils
  BY <1>1, EntendType
<1>3. r \in DOMAIN lot /\ lot[r].type = "DEFI/new"
  BY <1>1 DEF Entend, Reconnait
<1> HIDE DEF r
<1>4. lot[r] \in Messages /\ r \in 1 .. Len(sortie[c]) /\ lot[r] = sortie[c][r]
  BY <1>2, <1>3, LotType
<1>5. p \in Pseudos
  BY <1>3, <1>4 DEF Messages, Infos, Listes, Accuses, Avis, Defis
<1>6. Calme => p \in Inscrits
  BY <1>3, <1>4 DEF Calme
<1> HIDE DEF p
<1>7. /\ programme' \in [Programmes -> Profils]
      /\ Phase(c)' = "sollicite" /\ Pseudo(c)' = Pseudo(c) /\ programme'[c].defieur = p
      /\ \A d \in Programmes : d # c => programme'[d] = programme[d]
  <2> DEFINE v1 == [programme[c] EXCEPT !.phase = "sollicite"]
             v2 == [v1 EXCEPT !.defieur = p]
  <2>1. programme' = [programme EXCEPT ![c] = v2]
    BY <1>1
  <2>2. v1 \in Profils /\ v1.phase = "sollicite" /\ v1.pseudo = programme[c].pseudo
    BY <1>2 DEF Profils, Phases
  <2> HIDE DEF v1
  <2>3. v2 \in Profils /\ v2.phase = "sollicite" /\ v2.pseudo = programme[c].pseudo /\ v2.defieur = p
    BY <1>5, <2>2 DEF Profils
  <2> HIDE DEF v2
  <2>4. /\ programme' \in [Programmes -> Profils] /\ programme'[c] = v2
        /\ \A d \in Programmes : d # c => programme'[d] = programme[d]
    BY <2>1, <2>3 DEF IInv, Types
  <2> QED BY <2>3, <2>4 DEF Phase, Pseudo
<1>8. TypeHistorique' /\ historique.troubles \subseteq historique'.troubles
  BY <1>1, NoterJointsType
<1> QED BY <1>1, <1>2, <1>6, <1>7, <1>8, EcoutePas

\* The phase, the challenger and the state of the program itself.
LEMMA DevenirType ==
  ASSUME IInv, NEW c \in Programmes, NEW phase \in Phases, NEW etat \in 0..3,
         Devenir(c, phase, etat)
  PROVE  /\ programme' \in [Programmes -> Profils]
         /\ Phase(c)' = phase /\ Pseudo(c)' = Pseudo(c)
         /\ \A d \in Programmes : d # c => programme'[d] = programme[d]
<1> DEFINE l == [programme[c].joueurs EXCEPT ![1].etat = etat]
<1>1. programme \in [Programmes -> Profils] /\ programme[c].joueurs \in Seq(Fiches)
  BY DEF IInv, Types, Profils
<1>2. l \in Seq(Fiches)
  BY <1>1, EtatEcritType
<1>3. programme' = [programme EXCEPT ![c].phase = phase, ![c].defieur = Aucun, ![c].joueurs = l]
  BY <1>1 DEF Devenir, Profils
<1> HIDE DEF l
<1>4. Aucun \in Pseudos
  BY DEF Pseudos
<1> QED BY <1>2, <1>3, <1>4, FicheChangee

\* The answer to a challenge.
LEMMA RecevoirReponsePas ==
  ASSUME IInv, NEW c \in Programmes, NEW lot, RecevoirReponse(c, lot)
  PROVE  IInv'
<1>1. historique' = NoterJoints(c, lot) /\ UNCHANGED <<varsServeur, entree>>
  BY DEF RecevoirReponse
<1>2. PICK mot : Entend(c, lot, mot)
  BY DEF RecevoirReponse
<1>3. Recoit(c, lot) /\ Phase(c) \in {"menu", "attend", "jeu"}
  BY <1>2, EntendType
<1>4. PICK phase \in {"menu", "attend", "jeu"}, etat \in {0, 2} : Devenir(c, phase, etat)
  <2>1. Devenir(c, "jeu", 2) \/ Devenir(c, IF Phase(c) = "attend" THEN "menu" ELSE Phase(c), 0)
    BY DEF RecevoirReponse
  <2>2. (IF Phase(c) = "attend" THEN "menu" ELSE Phase(c)) \in {"menu", "attend", "jeu"}
    BY <1>3
  <2> QED BY <2>1, <2>2
<1>5. phase \in Phases /\ etat \in 0..3
  BY DEF Phases
<1>6. /\ programme' \in [Programmes -> Profils]
      /\ Phase(c)' = phase /\ Pseudo(c)' = Pseudo(c)
      /\ \A d \in Programmes : d # c => programme'[d] = programme[d]
  BY <1>4, <1>5, DevenirType
<1>7. TypeHistorique' /\ historique.troubles \subseteq historique'.troubles
  BY <1>1, NoterJointsType
<1> QED BY <1>1, <1>3, <1>6, <1>7, EcoutePas

\* Messages without a keyword.
LEMMA IgnorerListePas ==
  ASSUME IInv, NEW c \in Programmes, NEW lot, IgnorerListe(c, lot)
  PROVE  IInv'
<1>1. /\ Phase(c) \in {"menu", "attend", "jeu"} /\ Recoit(c, lot)
      /\ UNCHANGED <<varsServeur, entree, programme, historique>>
  BY DEF IgnorerListe
<1>2. programme' \in [Programmes -> Profils] /\ TypeHistorique'
  BY <1>1 DEF IInv, Types, TypeHistorique
<1>3. Phase(c)' = Phase(c) /\ Pseudo(c)' = Pseudo(c)
  BY <1>1 DEF Phase, Pseudo
<1> QED BY <1>1, <1>2, <1>3, EcoutePas

-----------------------------------------------------------------------------
(* The client programs: their users. *)

\* A step of c that writes a request and receives nothing.
LEMMA EcriturePas ==
  ASSUME IInv, NEW c \in Programmes, NEW m \in Requetes, Ecrire(c, m), m.type # "eof",
         UNCHANGED <<varsServeur, sortie>>,
         Phase(c) \in {"menu", "attend", "sollicite", "jeu"}, Phase(c)' \in {"menu", "attend", "jeu"},
         Pseudo(c)' = Pseudo(c), programme' \in [Programmes -> Profils],
         \A d \in Programmes : d # c => programme'[d] = programme[d],
         TypeHistorique', historique.troubles \subseteq historique'.troubles,
         TypeCompteurs', compteurs'.departs = compteurs.departs,
         Calme /\ m.type = "DEFI/accept" => m.cible \in Inscrits
  PROVE  IInv'
<1>1. /\ entree' \in [Programmes -> Seq(Requetes)]
      /\ \A d \in Programmes : d # c => entree'[d] = entree[d]
      /\ \A k \in 1 .. Len(entree'[c]) :
           (k \in 1 .. Len(entree[c]) /\ entree'[c][k] = entree[c][k]) \/ entree'[c][k] = m
  BY EcrireType
<1>2. Types'
  <2>1. sortie' \in Files
    BY FilesType
  <2> QED BY <1>1, <2>1, ClientTypes
<1>3. \A k \in 1 .. Len(entree'[c]) :
        \/ k \in 1 .. Len(entree[c]) /\ entree'[c][k] = entree[c][k]
        \/ /\ entree'[c][k].type = "eof" => Phase(c)' = "fini"
           /\ Calme /\ entree'[c][k].type = "DEFI/accept" => entree'[c][k].cible \in Inscrits
  BY <1>1
<1>4. ~EnAttente(c) /\ ~Accueil(c) /\ SansAccuse(c)'
  BY DejaAccueilli, RienRecu
<1>5. SortieReste(c)
  BY RienRecu
<1> QED BY <1>1, <1>2, <1>3, <1>4, <1>5, ClientPas

\* Menu, choice 1.
LEMMA DefierPas ==
  ASSUME IInv, NEW c \in Programmes, Defier(c)
  PROVE  IInv'
<1>1. /\ Phase(c) = "menu" /\ compteurs.demandes < MaxDemandes
      /\ compteurs' = [compteurs EXCEPT !.demandes = compteurs.demandes + 1]
      /\ UNCHANGED <<varsServeur, sortie>>
  BY DEF Defier
<1>2. PICK k \in 2 .. Len(programme[c].joueurs) :
        /\ Ecrire(c, [type |-> "DEFI/new", cible |-> programme[c].joueurs[k].pseudo])
        /\ programme' = [programme EXCEPT ![c].phase = "attend", ![c].joueurs[k].etat = 1,
                           ![c].joueurs[1].etat = 1]
        /\ historique' = [historique EXCEPT !.ecrits[c] = @ \cup {programme[c].joueurs[k].pseudo}]
  BY DEF Defier
<1> DEFINE p == programme[c].joueurs[k].pseudo
           m == [type |-> "DEFI/new", cible |-> p]
           l1 == [programme[c].joueurs EXCEPT ![k].etat = 1]
           l == [l1 EXCEPT ![1].etat = 1]
<1>3. programme \in [Programmes -> Profils] /\ programme[c] \in Profils
      /\ programme[c].joueurs \in Seq(Fiches) /\ Len(programme[c].joueurs) \in Nat
  BY LenProperties DEF IInv, Types, Profils
<1>4. p \in Pseudos
  <2>1. k \in 1 .. Len(programme[c].joueurs)
    BY <1>3
  <2>2. programme[c].joueurs[k] \in Fiches
    BY <1>3, <2>1, ElementOfSeq
  <2> QED BY <2>2 DEF Fiches
<1>5. m \in Requetes /\ m.type = "DEFI/new" /\ Ecrire(c, m)
  BY <1>2, <1>4 DEF Requetes, Defis
<1>6. l1 \in Seq(Fiches) /\ l \in Seq(Fiches)
  <2>1. 1 \in 0..3
    OBVIOUS
  <2>2. l1 \in Seq(Fiches)
    BY <1>3, <2>1, EtatEcritType
  <2> HIDE DEF l1
  <2>3. l \in Seq(Fiches)
    BY <2>1, <2>2, EtatEcritType
  <2> QED BY <2>2, <2>3
<1> HIDE DEF m
<1>7. /\ programme' \in [Programmes -> Profils]
      /\ Phase(c)' = "attend" /\ Pseudo(c)' = Pseudo(c)
      /\ \A d \in Programmes : d # c => programme'[d] = programme[d]
  <2> DEFINE P1 == [programme EXCEPT ![c].phase = "attend"]
             P2 == [P1 EXCEPT ![c].joueurs[k].etat = 1]
             P3 == [P2 EXCEPT ![c].joueurs[1].etat = 1]
  <2>0. programme' = P3
    BY <1>2
  <2>1. /\ P1 \in [Programmes -> Profils] /\ P1[c].joueurs = programme[c].joueurs
        /\ P1[c].phase = "attend" /\ P1[c].pseudo = programme[c].pseudo
        /\ \A d \in Programmes : d # c => P1[d] = programme[d]
    BY <1>3 DEF Profils, Phases
  <2> HIDE DEF P1
  <2>2. P2 = [P1 EXCEPT ![c].joueurs = l1]
    BY <2>1 DEF Profils
  <2> HIDE DEF l1, P2
  <2>3. /\ P2 \in [Programmes -> Profils] /\ P2[c].joueurs = l1
        /\ P2[c].phase = "attend" /\ P2[c].pseudo = programme[c].pseudo
        /\ \A d \in Programmes : d # c => P2[d] = programme[d]
    BY <1>6, <2>1, <2>2, ListeNouvelle
  <2>4. P3 = [P2 EXCEPT ![c].joueurs = l]
    BY <2>3 DEF Profils
  <2> HIDE DEF l, P3
  <2>5. /\ P3 \in [Programmes -> Profils]
        /\ P3[c].phase = "attend" /\ P3[c].pseudo = programme[c].pseudo
        /\ \A d \in Programmes : d # c => P3[d] = programme[d]
    BY <1>6, <2>3, <2>4, ListeNouvelle
  <2> QED BY <2>0, <2>5 DEF Phase, Pseudo
<1>8. TypeHistorique' /\ historique.troubles \subseteq historique'.troubles
  <2> DEFINE e == historique.ecrits[c] \cup {p}
  <2>1. TypeHistorique /\ e \in SUBSET Pseudos
    BY <1>4 DEF IInv, Types, TypeHistorique
  <2>2. historique' = [historique EXCEPT !.ecrits[c] = e]
    BY <1>2
  <2> HIDE DEF e
  <2> QED BY <2>1, <2>2 DEF TypeHistorique
<1>9. TypeCompteurs' /\ compteurs'.departs = compteurs.departs
  <2> DEFINE n1 == compteurs.demandes + 1
  <2>1. TypeCompteurs /\ MaxDemandes \in Nat
    BY AnnuaireAssumption DEF IInv, Types
  <2>2. compteurs.demandes \in 0..MaxDemandes
    BY <2>1 DEF TypeCompteurs
  <2>3. n1 \in 0..MaxDemandes
    BY <1>1, <2>1, <2>2
  <2>4. compteurs' = [compteurs EXCEPT !.demandes = n1]
    BY <1>1
  <2> HIDE DEF n1
  <2> QED BY <2>1, <2>3, <2>4 DEF TypeCompteurs
<1> QED BY <1>1, <1>5, <1>7, <1>8, <1>9, EcriturePas

\* The answer of the user goes to whoever challenged.
LEMMA RepondrePas ==
  ASSUME IInv, NEW c \in Programmes, Repondre(c)
  PROVE  IInv'
<1> DEFINE p == programme[c].defieur
<1>1. /\ Phase(c) = "sollicite" /\ UNCHANGED <<varsServeur, sortie, compteurs>>
      /\ historique' = [historique EXCEPT !.interroges = @ \cup ({c} \ historique.troubles)]
  BY DEF Repondre
<1>2. p \in Pseudos /\ (Calme => p \in Inscrits)
  BY <1>1 DEF IInv, Types, Profils, Calme
<1> HIDE DEF p
<1>3. PICK type \in {"DEFI/accept", "DEFI/decline"}, phase \in {"jeu", "menu"}, etat \in {0, 2} :
        Ecrire(c, [type |-> type, cible |-> p]) /\ Devenir(c, phase, etat)
  BY DEF Repondre, p
<1> DEFINE m == [type |-> type, cible |-> p]
<1>4. m \in Requetes /\ m.type = type /\ m.cible = p
  BY <1>2 DEF Requetes, Defis
<1> HIDE DEF m
<1>5. /\ programme' \in [Programmes -> Profils]
      /\ Phase(c)' = phase /\ Pseudo(c)' = Pseudo(c)
      /\ \A d \in Programmes : d # c => programme'[d] = programme[d]
  <2>1. phase \in Phases /\ etat \in 0..3
    BY DEF Phases
  <2> QED BY <1>3, <2>1, DevenirType
<1>6. TypeHistorique' /\ historique.troubles \subseteq historique'.troubles
  BY <1>1 DEF IInv, Types, TypeHistorique
<1>7. TypeCompteurs' /\ compteurs'.departs = compteurs.departs
  BY <1>1 DEF IInv, Types, TypeCompteurs
<1>8. Ecrire(c, m) /\ m.type # "eof" /\ (Calme /\ m.type = "DEFI/accept" => m.cible \in Inscrits)
  BY <1>2, <1>3, <1>4 DEF m
<1> QED BY <1>1, <1>4, <1>5, <1>6, <1>7, <1>8, EcriturePas

\* Back to the menu.
LEMMA QuitterJeuPas ==
  ASSUME IInv, NEW c \in Programmes, QuitterJeu(c)
  PROVE  IInv'
<1>1. /\ Phase(c) = "jeu" /\ Devenir(c, "menu", 0)
      /\ UNCHANGED <<varsServeur, entree, sortie, historique, compteurs>>
  BY DEF QuitterJeu
<1>2. /\ programme' \in [Programmes -> Profils]
      /\ Phase(c)' = "menu" /\ Pseudo(c)' = Pseudo(c)
      /\ \A d \in Programmes : d # c => programme'[d] = programme[d]
  <2>1. "menu" \in Phases /\ 0 \in 0..3
    BY DEF Phases
  <2> QED BY <1>1, <2>1, DevenirType
<1>3. Types'
  <2>1. entree' \in [Programmes -> Seq(Requetes)] /\ sortie' \in Files /\ TypeHistorique' /\ TypeCompteurs'
    BY <1>1 DEF IInv, Types, Files, TypeHistorique, TypeCompteurs
  <2> QED BY <1>1, <1>2, <2>1, ClientTypes
<1>4. ~EnAttente(c) /\ ~Accueil(c) /\ SansAccuse(c)'
  BY <1>1, DejaAccueilli, RienRecu
<1>5. SortieReste(c)
  BY <1>1, RienRecu
<1> QED BY <1>1, <1>2, <1>3, <1>4, <1>5, ClientPas

\* A departure.
LEMMA PartirPas ==
  ASSUME IInv, NEW c \in Programmes, Partir(c)
  PROVE  IInv'
<1>1. /\ Vivant(c) /\ compteurs.departs < MaxDeparts /\ Finir(c)
      /\ sortie' = [sortie EXCEPT ![c] = <<>>]
      /\ compteurs' = [compteurs EXCEPT !.departs = compteurs.departs + 1]
      /\ UNCHANGED <<varsServeur, historique>>
  BY DEF Partir
<1>2. /\ programme' \in [Programmes -> Profils]
      /\ Phase(c)' = "fini" /\ Pseudo(c)' = Pseudo(c)
      /\ \A d \in Programmes : d # c => programme'[d] = programme[d]
      /\ entree' \in [Programmes -> Seq(Requetes)]
      /\ \A d \in Programmes : d # c => entree'[d] = entree[d]
      /\ \A k \in 1 .. Len(entree'[c]) :
           (k \in 1 .. Len(entree[c]) /\ entree'[c][k] = entree[c][k])
           \/ entree'[c][k] = [type |-> "eof"]
  BY <1>1, FinirType
<1>3. /\ sortie' \in Files /\ sortie'[c] = <<>>
      /\ \A d \in Programmes : d # c => sortie'[d] = sortie[d]
  <2>1. <<>> \in Seq(Messages) /\ sortie \in Files
    BY EmptySeq, FilesType
  <2> QED BY <1>1, <2>1 DEF Files
<1>4. TypeCompteurs' /\ compteurs'.departs # 0
  <2> DEFINE n1 == compteurs.departs + 1
  <2>1. TypeCompteurs /\ MaxDeparts \in Nat
    BY AnnuaireAssumption DEF IInv, Types
  <2>2. compteurs.departs \in 0..MaxDeparts
    BY <2>1 DEF TypeCompteurs
  <2>3. n1 \in 0..MaxDeparts /\ n1 # 0
    BY <1>1, <2>1, <2>2
  <2>4. compteurs' = [compteurs EXCEPT !.departs = n1]
    BY <1>1
  <2> HIDE DEF n1
  <2> QED BY <2>1, <2>3, <2>4 DEF TypeCompteurs
<1>5. Types'
  <2>1. TypeHistorique'
    BY <1>1 DEF IInv, Types, TypeHistorique
  <2> QED BY <1>1, <1>2, <1>3, <1>4, <2>1, ClientTypes
<1>6. ~PersonneParti'
  BY <1>4 DEF PersonneParti
<1>7. \A k \in 1 .. Len(entree'[c]) :
        \/ k \in 1 .. Len(entree[c]) /\ entree'[c][k] = entree[c][k]
        \/ /\ entree'[c][k].type = "eof" => Phase(c)' = "fini"
           /\ Calme /\ entree'[c][k].type = "DEFI/accept" => entree'[c][k].cible \in Inscrits
  BY <1>2
<1>8. SortieReste(c)
  <2>1. Len(sortie'[c]) = 0 /\ 0 \in Nat
    BY <1>3
  <2> QED BY <2>1 DEF SortieReste
<1>9. Phase(c) \notin {"hors", "fini"}
  BY <1>1 DEF Vivant
<1> QED BY <1>1, <1>2, <1>3, <1>4, <1>5, <1>6, <1>7, <1>8, <1>9, ClientPas

-----------------------------------------------------------------------------
(* The specification. *)

\* Nothing is connected.
LEMMA InitIInv == Init => IInv
<1> SUFFICES ASSUME Init PROVE IInv
  OBVIOUS
<1>1. MaxClients \in Nat /\ NbProgrammes \in Nat /\ {MaxDemandes, MaxJonctions, MaxDeparts} \subseteq Nat
  BY AnnuaireAssumption DEF MaxClients
<1>2. /\ ecoute = <<>> /\ ecoute \in Seq(Programmes) /\ Len(ecoute) = 0
      /\ nbClients = 0 /\ principal = Select
      /\ entree = [c \in Programmes |-> <<>>] /\ sortie = [c \in Programmes |-> <<>>]
  BY EmptySeq DEF Init
<1>3. \A c \in Programmes : /\ entree[c] = <<>> /\ sortie[c] = <<>>
                            /\ Len(entree[c]) = 0 /\ Len(sortie[c]) = 0
                            /\ Phase(c) = "hors"
  BY <1>2 DEF Init, Phase
<1>4. \A t \in Threads : thread[t].pc = "neuf"
  BY DEF Init, Neuf
<1>5. principal.pc = "select" /\ principal.c = Aucun
  BY <1>2 DEF Select
<1>6. Connectes = {} /\ \A c \in Programmes : ~EnAttente(c) /\ ~EnFile(c) /\ ~EnProfil(c) /\ ~Accueil(c)
  <2>1. 1..nbClients = {} /\ 1 .. Len(ecoute) = {}
    BY <1>2
  <2> QED BY <1>5, <2>1 DEF Connectes, EnAttente, EnFile, EnProfil, Accueil
<1>7. TypesServeur
  <2>1. clients \in [Places -> Inscriptions] /\ clientsInGame \in [Places -> Threads \cup {Aucun}]
    <3>1. Libre \in Inscriptions
      BY DEF Libre, Inscriptions
    <3> QED BY <3>1 DEF Init
  <2>2. thread \in [Threads -> Taches]
    <3>1. Neuf \in Taches
      BY DEF Neuf, Taches
    <3> QED BY <3>1 DEF Init
  <2>3. principal \in Positions
    BY <1>2, SelectType
  <2>4. nbClients \in 0..MaxClients /\ \A i \in 1..nbClients : clients[i].sock \in Programmes
    BY <1>1, <1>2
  <2> QED BY <1>2, <1>4, <2>1, <2>2, <2>3, <2>4 DEF TypesServeur, TypesClients, TypesThreads
<1>8. programme \in [Programmes -> Profils]
  <2>1. <<>> \in Seq(Fiches) /\ Aucun \in Pseudos
    BY EmptySeq DEF Pseudos
  <2>2. [phase |-> "hors", pseudo |-> Aucun, joueurs |-> <<>>, defieur |-> Aucun] \in Profils
    BY <2>1 DEF Profils, Phases
  <2> QED BY <2>2 DEF Init
<1>9. TypeHistorique /\ TypeCompteurs
  BY <1>1 DEF Init, TypeHistorique, TypeCompteurs
<1>10. entree \in [Programmes -> Seq(Requetes)] /\ sortie \in [Programmes -> Seq(Messages)]
  BY <1>2, EmptySeq
<1>11. Types
  BY <1>7, <1>8, <1>9, <1>10 DEF Types
<1>12. SocketsDistincts /\ FileDistincte
  BY <1>2, <1>6 DEF SocketsDistincts, FileDistincte
<1>13. Poste
  BY <1>5 DEF Poste, EtapesJoueur, EtapesDefi
<1>14. Connexion /\ AccuseSeul /\ FinAnnoncee
  <2>1. \A c \in Programmes : 1 .. Len(entree[c]) = {} /\ 1 .. Len(sortie[c]) = {}
    BY <1>3
  <2> QED BY <1>3, <1>5, <1>6, <2>1 DEF Connexion, AccuseSeul, FinAnnoncee, EtapesDepart
<1>15. Calme
  <2>1. \A c \in Programmes : 1 .. Len(entree[c]) = {} /\ 1 .. Len(sortie[c]) = {}
    BY <1>3
  <2> QED BY <1>3, <1>4, <1>5, <1>6, <2>1 DEF Calme, EtapesDepart, EtapesDefi
<1> QED BY <1>11, <1>12, <1>13, <1>14, <1>15 DEF IInv

\* Every step, of the server, of its threads and of the programs.
LEMMA NextIInv == IInv /\ [Next]_vars => IInv'
<1> SUFFICES ASSUME IInv, [Next]_vars PROVE IInv'
  OBVIOUS
<1>1. CASE EnVie /\ Principal
  <2>1. CASE Accepter
    BY <2>1, AccepterPas
  <2>2. CASE ProfilAbsent
    BY <2>2, ProfilAbsentPas
  <2>3. CASE \E c \in Programmes : RefuserPseudo(c) \/ Enregistrer(c)
    BY <2>3, RefuserPseudoPas, EnregistrerPas
  <2>4. ASSUME NEW i \in Places, PreparerListe(i) \/ Relayer(i) \/ TransmettreAuJeu(i)
                                 \/ Deconnecter(i) \/ DeconnecterEnJeu(i)
        PROVE  IInv'
    BY <2>4, PreparerListePas, RelayerPas, TransmettreAuJeuPas, DeconnecterPas, DeconnecterEnJeuPas
  <2>5. CASE Annoncer \/ EnvoyerACK \/ EnvoyerListe
    BY <2>5, AnnoncerPas, EnvoyerACKPas, EnvoyerListePas
  <2>6. CASE Changer \/ Composer \/ PasserAuteur \/ FinDefi \/ DemarrerPartie
    BY <2>6, ChangerPas, ComposerPas, PasserAuteurPas, FinDefiPas, DemarrerPartiePas
  <2>7. CASE Joindre \/ Fermer \/ Retirer \/ DecalerJeux
    BY <2>7, JoindrePas, FermerPas, RetirerPas, DecalerJeuxPas
  <2> QED BY <1>1, <2>1, <2>2, <2>3, <2>4, <2>5, <2>6, <2>7 DEF Principal, Poursuivre
<1>2. ASSUME NEW t \in Threads, FinirPartie(t) \/ AvancerThread(t)
      PROVE  IInv'
  BY <1>2, FinirPartiePas, ParcourirPas, LibererJoueurPas, EnvoyerMajPas, FinDiffusionPas,
     MourirPas, FinThreadPas DEF AvancerThread
<1>3. ASSUME NEW c \in Programmes, Lancer(c) \/ SeConnecter(c)
      PROVE  IInv'
  BY <1>3, LancerPas, EnvoyerProfilPas, LireACKPas, LireListePas DEF SeConnecter
<1>4. ASSUME NEW c \in Programmes, Ecouter(c)
      PROVE  IInv'
  BY <1>4, AjouterJoueurPas, SupprimerJoueurPas, MettreAJourPas, RecevoirDefiPas,
     RecevoirReponsePas, IgnorerListePas DEF Ecouter
<1>5. ASSUME NEW c \in Programmes, Defier(c) \/ Repondre(c) \/ QuitterJeu(c) \/ Partir(c)
      PROVE  IInv'
  BY <1>5, DefierPas, RepondrePas, QuitterJeuPas, PartirPas
<1>6. CASE UNCHANGED vars
  <2>1. UNCHANGED <<ecoute, clients, nbClients, clientsInGame, principal, thread, entree, sortie,
                    programme, historique, compteurs>>
    BY <1>6 DEF vars, varsServeur
  <2>2. Types' /\ SocketsDistincts' /\ FileDistincte' /\ Poste'
    BY <2>1 DEF IInv, Types, TypesServeur, TypesClients, TypesThreads, TypeHistorique, TypeCompteurs,
                SocketsDistincts, FileDistincte, EnFile, EnProfil, Poste, ThreadNeuf, Connectes
  <2>3. Connexion' /\ AccuseSeul' /\ FinAnnoncee'
    BY <2>1 DEF IInv, Connexion, AccuseSeul, FinAnnoncee, Phase, EnAttente, EnFile, EnProfil,
                Accueil, Connectes
  <2>4. PersonneParti' => Calme'
    BY <2>1 DEF IInv, PersonneParti, Calme, Phase, EnAttente, EnFile, EnProfil, Connectes,
                Inscrits, Pseudo
  <2> QED BY <2>2, <2>3, <2>4 DEF IInv
<1> QED BY <1>1, <1>2, <1>3, <1>4, <1>5, <1>6 DEF Next

\* What always holds of the lists, the queues and the connections.
THEOREM InvariantAnnuaire == Spec => []IInv
<1>1. Init => IInv
  BY InitIInv
<1>2. IInv /\ [Next]_vars => IInv'
  BY NextIInv
<1> QED BY <1>1, <1>2, PTL DEF Spec

\* Every variable has the type that Annuaire says; in particular the lists of
\* the clients hold players, whatever the messages that init_list_joueur reads.
THEOREM TypeAnnuaire == Spec => []TypeInvariant
<1>1. IInv => TypeInvariant
  <2> SUFFICES ASSUME IInv PROVE TypeInvariant
    OBVIOUS
  <2>1. nbClients \in 0..MaxClients /\ principal.pc \in Etapes
    BY PosteType DEF IInv, Types, TypesServeur, TypesClients
  <2>2. \A i \in Places : clients[i].sock \in Programmes \cup {Aucun} /\ clients[i].etat \in 0..3
                          /\ clientsInGame[i] \in Threads \cup {Aucun}
    BY DEF IInv, Types, TypesServeur, TypesClients, Inscriptions
  <2>3. \A t \in Threads : thread[t].pc \in {"neuf", "jeu", "fin", "diffuse", "mort"}
    BY DEF IInv, Types, TypesServeur, TypesThreads, Taches
  <2>4. ASSUME NEW c \in Programmes
        PROVE  /\ Phase(c) \in Phases
               /\ \A k \in DOMAIN programme[c].joueurs :
                    programme[c].joueurs[k] \in [pseudo : Noms \cup {Aucun}, etat : 0..3]
    <3>1. programme[c] \in Profils
      BY DEF IInv, Types
    <3>2. programme[c].joueurs \in Seq(Fiches) /\ Phase(c) \in Phases
      BY <3>1 DEF Profils, Phase
    <3>3. \A k \in DOMAIN programme[c].joueurs : programme[c].joueurs[k] \in Fiches
      BY <3>2, ElementOfSeq, LenProperties
    <3> QED BY <3>2, <3>3 DEF Fiches, Pseudos
  <2>5. compteurs \in [demandes : 0..MaxDemandes, jonctions : 0..MaxJonctions, departs : 0..MaxDeparts]
    BY DEF IInv, Types, TypeCompteurs
  <2> QED BY <2>1, <2>2, <2>3, <2>4, <2>5 DEF TypeInvariant, Phases, Etapes
<1> QED BY <1>1, InvariantAnnuaire, PTL

\* As long as nobody leaves and no registered program is stopped by a state
\* that reaches it before its ACK or joined to it, the server lives: refusals,
\* challenges and games that overlap do not stop it.
THEOREM MortAnnuaire == Spec => []MortApresDepart
<1>1. IInv => MortApresDepart
  BY DEF IInv, MortApresDepart, Calme, EnVie
<1> QED BY <1>1, InvariantAnnuaire, PTL

\* No program is registered twice, and none that is still to be registered.
THEOREM InscritUneFois == Spec => [](SocketsDistincts /\ FileDistincte)
<1>1. IInv => SocketsDistincts /\ FileDistincte
  BY DEF IInv
<1> QED BY <1>1, InvariantAnnuaire, PTL

=============================================================================
