----------------------- MODULE ServeurDialogue_proofs -----------------------
(***************************************************************************)
(* Proof of Serveur's property DialogueIntact, for any number of clients,  *)
(* slots, threads and moves.  The property speaks of the states where at   *)
(* most one challenge was ever sent, nobody has left and both players are  *)
(* still in the dialogue: there, one answer at a time is under way, and it *)
(* answers the question that game() asked last.  What two challenges, a    *)
(* departure or a player back in its menu do to the mailbox is not said.   *)
(***************************************************************************)
EXTENDS Serveur_proofs

-----------------------------------------------------------------------------
(* The types of the messages and of the client programs. *)

Listees  == {PartieVide} \cup Games
EnPartie == {"attend", "jeu", "q_fin", "q_coup"}
Modes    == EnPartie \cup {"hors", "menu", "sollicite", "liste", "observe"}
Defis    == {"defi", "accord", "refus"}

Requetes ==
  [type : {"eof", "fin0", "fin1", "coup", "get_parties"}]
  \cup [type : Defis, cible : Clients \cup {Aucun}]
  \cup [type : {"add_observer", "remove_observer"}, partie : Listees]

Avis ==
  [type : {"demande_fin", "demande_coup", "abandon", "terminer", "obs_terminer"}]
  \cup [type : Defis, cible : Clients]
  \cup [type : {"liste"}, parties : SUBSET Listees]

Profils == [mode : Modes, defieur : Clients \cup {Aucun}, retour : {"menu", "jeu"}, partie : Listees]

TypesDialogue ==
  /\ entree \in [Clients -> Seq(Requetes)]
  /\ sortie \in [Clients -> Seq(Avis)]
  /\ programme \in [Clients -> Profils]

\* The mailboxes hold requests.
TypeBoites ==
  messagesParties \in [Slots -> [sock : Clients \cup {Aucun}, message : Requetes \cup {Message("vide")}]]

\* A queue has no message, or one at most, of these types.
Vierge(q, types) == \A k \in 1 .. Len(q) : q[k].type \notin types
Unique(q, types) == \A k, r \in 1 .. Len(q) : q[k].type \in types /\ q[r].type \in types => k = r

\* No message of these types is on its way to, or from, a client.
Exempt(file, c, types) == Vierge(file[c], types)
Exempts(file, types)   == \A c \in Clients : Vierge(file[c], types)

\* Nobody has left.
Presents ==
  /\ Exempts(entree, {"eof"})
  /\ \A t \in Threads : ~thread[t].annule
  /\ principal.pc \notin {"annuler", "join", "jeux", "vues"}

\* No game has been created.
AvantJeu ==
  /\ principal.pc # "demarrer"
  /\ \A t \in Threads : thread[t].pc = "neuf"
  /\ \A s \in Slots : semParties[s] = 0
  /\ Exempts(entree, {"refus"})
  /\ Exempts(sortie, {"accord", "refus", "demande_fin", "demande_coup", "abandon", "terminer"})
  /\ \A c \in Clients : programme[c].partie = PartieVide /\ Mode(c) \notin {"q_fin", "q_coup"}
  /\ \A c \in Clients : \A k \in 1 .. Len(sortie[c]) :
       sortie[c][k].type = "liste" => sortie[c][k].parties = {}

\* The challenge of a to b, from its sending to the accept that the server reads.
Attente(a, b, etape) ==
  /\ AvantJeu
  /\ compteurs.defis = 0 <=> etape = "aucun"
  /\ etape # "aucun" => a \in Clients /\ b \in Clients /\ a # b /\ Mode(a) = "attend"
  /\ etape \in {"transmis", "sollicite", "accepte"} => entree[a] = <<>>
  /\ etape = "accepte" => Mode(b) = "jeu"
  /\ \A c \in Clients : \A k \in 1 .. Len(entree[c]) : entree[c][k].type \in {"defi", "accord"} =>
       /\ k = Len(entree[c])
       /\ \/ etape = "envoye" /\ c = a /\ entree[c][k] = [type |-> "defi", cible |-> b]
          \/ etape = "accepte" /\ c = b /\ entree[c][k] = [type |-> "accord", cible |-> a]
  /\ \A c \in Clients : \A k \in 1 .. Len(sortie[c]) : sortie[c][k].type = "defi" =>
       etape = "transmis" /\ c = b /\ sortie[c][k].cible = a
  /\ \A c \in Clients : Unique(sortie[c], {"defi"})
  /\ \A c \in Clients : Mode(c) = "sollicite" =>
       etape = "sollicite" /\ c = b /\ programme[c].defieur = a

\* The challenge has been answered, and cannot be answered again.
SansDefi ==
  /\ compteurs.defis = 1
  /\ Exempts(entree, {"defi", "accord"})
  /\ Exempts(sortie, {"defi"})
  /\ \A c \in Clients : Mode(c) # "sollicite"

\* Nothing is asked of a player, and nothing it sent is under way.
Rien(c) ==
  /\ Exempt(sortie, c, {"demande_fin", "demande_coup"})
  /\ Mode(c) \notin {"q_fin", "q_coup"}
  /\ entree[c] = <<>>

\* The question, and the answers that go on with the game.
Question(t)  == IF thread[t].pc = "attenteFin" THEN "demande_fin" ELSE "demande_coup"
Demande(t)   == IF thread[t].pc = "attenteFin" THEN "q_fin" ELSE "q_coup"
Suite(t)     == IF thread[t].pc = "attenteFin" THEN "fin0" ELSE "coup"

\* What was asked of the mover is in one place at most: on its way, on the
\* screen, on its way back, in the mailbox.
Pose(t) ==
  LET m == Mover(t) IN
  /\ Exempt(sortie, m, {"demande_fin", "demande_coup"} \ {Question(t)})
  /\ Unique(sortie[m], {"demande_fin", "demande_coup"})
  /\ Mode(m) \notin {"q_fin", "q_coup"} /\ entree[m] = <<>>
  /\ semParties[thread[t].slot] = 0

Affiche(t) ==
  LET m == Mover(t) IN
  /\ Exempt(sortie, m, {"demande_fin", "demande_coup"})
  /\ Mode(m) = Demande(t) /\ entree[m] = <<>>
  /\ semParties[thread[t].slot] = 0

Repondu(t) ==
  LET m == Mover(t) IN
  /\ Exempt(sortie, m, {"demande_fin", "demande_coup"})
  /\ Mode(m) \notin {"q_fin", "q_coup"}
  /\ entree[m] = <<Message(Suite(t))>>
  /\ semParties[thread[t].slot] = 0

Depose(t) ==
  /\ Rien(Mover(t))
  /\ semParties[thread[t].slot] = 1
  /\ messagesParties[thread[t].slot] = [sock |-> Mover(t), message |-> Message(Suite(t))]

Echange(t) ==
  IF thread[t].pc \in {"attenteFin", "attenteCoup"}
  THEN Rien(Oppose(t)) /\ (Pose(t) \/ Affiche(t) \/ Repondu(t) \/ Depose(t))
  ELSE /\ thread[t].pc \in {"tour", "resultat", "terminer"}
       /\ \A c \in Joueurs(t) : Rien(c)
       /\ semParties[thread[t].slot] = 0

\* The two players of a game that is about to be created: nothing was asked of
\* them yet, and neither can leave the dialogue.
Invite(c) ==
  /\ Mode(c) \in EnPartie
  /\ programme[c].partie = PartieVide
  /\ Exempt(sortie, c, {"refus", "abandon", "terminer"})
  /\ Mode(c) # "attend" => Exempt(sortie, c, {"accord"})
  /\ Unique(sortie[c], {"accord"})
  /\ Rien(c)

\* The accept of b to a is handled, start_game is yet to run.
Demarre(a, b) ==
  /\ SansDefi
  /\ Exempts(entree, {"refus"})
  /\ principal.pc = "demarrer" /\ principal.defieur = a
  /\ principal.i \in 1..nbClients /\ clients[principal.i].sock = b
  /\ \A t \in Threads : thread[t].pc = "neuf"
  /\ \A s \in Slots : semParties[s] = 0
  /\ a \in Clients /\ b \in Clients /\ a # b
  /\ \A c \in {a, b} : Invite(c)

\* The one game, and its two players.
Jeu(t) ==
  /\ SansDefi
  /\ principal.pc # "demarrer"
  /\ Exempts(entree, {"refus"})
  /\ \A u \in Threads \ {t} : thread[u].pc = "neuf"
  /\ thread[t].j1 \in Clients /\ thread[t].j2 \in Clients /\ thread[t].j1 # thread[t].j2
  /\ \A i \in 1..nbClients : clientsInGame[i] # Aucun <=> clients[i].sock \in Joueurs(t)
  /\ \A c \in Joueurs(t) :
       /\ Mode(c) \in EnPartie
       /\ programme[c].partie = PartieVide
       /\ Exempt(sortie, c, {"refus"})
       /\ Mode(c) # "attend" => Exempt(sortie, c, {"accord"})
       /\ Unique(sortie[c], {"accord"})
  /\ Echange(t)

\* A player has left the dialogue of the game that goes on, for good.
Sorti(t) ==
  \E c \in Clients \cap Joueurs(t) : Mode(c) \notin EnPartie /\ Exempt(sortie, c, {"accord"})

Clos == SansDefi /\ principal.pc # "demarrer" /\ \A t \in Threads : Actif(t) => Sorti(t)

\* Where the dialogue stands.
Etapes == {"aucun", "envoye", "transmis", "sollicite", "accepte"}

Stade ==
  \/ \E a, b \in Clients \cup {Aucun}, etape \in Etapes : Attente(a, b, etape)
  \/ \E a, b \in Clients : Demarre(a, b)
  \/ \E t \in Threads : Jeu(t)
  \/ Clos

Tranquille == compteurs.defis <= 1 /\ compteurs.departs = 0

DInv ==
  /\ TypesDialogue
  /\ TypeBoites
  /\ Tranquille => Presents /\ Stade

-----------------------------------------------------------------------------
(* Queues of messages. *)

\* A queue after some messages were read at its head and some of T added.
Glisse(q, r, T) ==
  \E d \in Nat :
    /\ Len(q) <= Len(r) + d
    /\ \A k \in 1 .. Len(r) : IF k + d <= Len(q) THEN r[k] = q[k + d] ELSE r[k] \in T

\* What Append leaves of a queue.
LEMMA AjoutFile ==
  ASSUME NEW S, NEW q \in Seq(S), NEW m \in S
  PROVE  /\ Append(q, m) \in Seq(S)
         /\ Len(q) \in Nat /\ Len(Append(q, m)) = Len(q) + 1
         /\ \A k \in 1 .. Len(q) : Append(q, m)[k] = q[k]
         /\ Append(q, m)[Len(q) + 1] = m
BY AppendProperties, LenProperties

\* What a read takes from a queue.
LEMMA QueueFile ==
  ASSUME NEW S, NEW q \in Seq(S), q # <<>>
  PROVE  /\ Tail(q) \in Seq(S)
         /\ Len(q) \in Nat \ {0} /\ Len(Tail(q)) = Len(q) - 1
         /\ \A k \in 1 .. Len(q) - 1 : Tail(q)[k] = q[k + 1]
         /\ Head(q) = q[1] /\ Head(q) \in S
<1>1. Len(q) \in Nat
  BY LenProperties
<1>2. Len(q) # 0
  BY EmptySeq
<1> QED BY <1>1, <1>2, HeadTailProperties, ElementOfSeq

\* A queue of one message is empty once it is read.
LEMMA FileVide ==
  ASSUME NEW S, NEW q \in Seq(S)
  PROVE  q = <<>> <=> Len(q) = 0
BY EmptySeq

\* A queue left alone.
LEMMA GlisseMeme ==
  ASSUME NEW S, NEW q \in Seq(S), NEW T
  PROVE  Glisse(q, q, T)
<1>1. Len(q) \in Nat
  BY LenProperties
<1>2. /\ Len(q) <= Len(q) + 0
      /\ \A k \in 1 .. Len(q) : IF k + 0 <= Len(q) THEN q[k] = q[k + 0] ELSE q[k] \in T
  BY <1>1
<1> QED BY <1>2 DEF Glisse

\* A message is added.
LEMMA GlisseAjout ==
  ASSUME NEW S, NEW q \in Seq(S), NEW T, NEW m \in S, m \in T
  PROVE  Glisse(q, Append(q, m), T)
<1> DEFINE r == Append(q, m)
<1>1. /\ Len(q) \in Nat /\ Len(r) = Len(q) + 1
      /\ \A k \in 1 .. Len(q) : r[k] = q[k]
      /\ r[Len(q) + 1] = m
  BY AjoutFile
<1> HIDE DEF r
<1>2. /\ Len(q) <= Len(r) + 0
      /\ \A k \in 1 .. Len(r) : IF k + 0 <= Len(q) THEN r[k] = q[k + 0] ELSE r[k] \in T
  BY <1>1
<1>3. Glisse(q, r, T)
  BY <1>2 DEF Glisse
<1> QED BY <1>3 DEF r

\* A message is read.
LEMMA GlisseQueue ==
  ASSUME NEW S, NEW q \in Seq(S), NEW T, q # <<>>
  PROVE  Glisse(q, Tail(q), T)
<1>1. /\ Len(q) \in Nat \ {0} /\ Len(Tail(q)) = Len(q) - 1
      /\ \A k \in 1 .. Len(q) - 1 : Tail(q)[k] = q[k + 1]
  BY QueueFile
<1>2. /\ Len(q) <= Len(Tail(q)) + 1
      /\ \A k \in 1 .. Len(Tail(q)) :
           IF k + 1 <= Len(q) THEN Tail(q)[k] = q[k + 1] ELSE Tail(q)[k] \in T
  BY <1>1
<1> QED BY <1>2 DEF Glisse

\* Two steps in a row.
LEMMA GlissePuis ==
  ASSUME NEW S, NEW q \in Seq(S), NEW r \in Seq(S), NEW s \in Seq(S), NEW T,
         Glisse(q, r, T), Glisse(r, s, T)
  PROVE  Glisse(q, s, T)
<1>1. Len(q) \in Nat /\ Len(r) \in Nat /\ Len(s) \in Nat
  BY LenProperties
<1>2. PICK d \in Nat :
        /\ Len(q) <= Len(r) + d
        /\ \A k \in 1 .. Len(r) : IF k + d <= Len(q) THEN r[k] = q[k + d] ELSE r[k] \in T
  BY DEF Glisse
<1>3. PICK e \in Nat :
        /\ Len(r) <= Len(s) + e
        /\ \A k \in 1 .. Len(s) : IF k + e <= Len(r) THEN s[k] = r[k + e] ELSE s[k] \in T
  BY DEF Glisse
<1>4. Len(q) <= Len(s) + (e + d)
  BY <1>1, <1>2, <1>3
<1>5. ASSUME NEW k \in 1 .. Len(s)
      PROVE  IF k + (e + d) <= Len(q) THEN s[k] = q[k + (e + d)] ELSE s[k] \in T
  <2>1. CASE k + e <= Len(r)
    <3>1. k + e \in 1 .. Len(r) /\ s[k] = r[k + e]
      BY <1>1, <1>3, <2>1
    <3>2. (k + e) + d = k + (e + d)
      OBVIOUS
    <3> QED BY <1>2, <3>1, <3>2
  <2>2. CASE ~(k + e <= Len(r))
    <3>1. s[k] \in T
      BY <1>3, <2>2
    <3>2. ~(k + (e + d) <= Len(q))
      BY <1>1, <1>2, <2>2
    <3> QED BY <3>1, <3>2
  <2> QED BY <2>1, <2>2
<1>6. e + d \in Nat
  OBVIOUS
<1> QED BY <1>4, <1>5, <1>6 DEF Glisse

\* The types of the messages that may be added.
Etrangers(T, X) == \A m \in T : m.type \notin X

\* A queue that had no message of some types and got none has none; one that
\* had one at most has one at most.
LEMMA GlisseVierge ==
  ASSUME NEW S, NEW q \in Seq(S), NEW r \in Seq(S), NEW T, NEW X, Glisse(q, r, T), Etrangers(T, X)
  PROVE  (Vierge(q, X) => Vierge(r, X)) /\ (Unique(q, X) => Unique(r, X))
<1>1. Len(q) \in Nat /\ Len(r) \in Nat
  BY LenProperties
<1>2. \E d \in Nat : \A k \in 1 .. Len(r) : r[k].type \in X =>
           k + d \in 1 .. Len(q) /\ r[k] = q[k + d]
  <2>1. PICK d \in Nat :
          \A k \in 1 .. Len(r) : IF k + d <= Len(q) THEN r[k] = q[k + d] ELSE r[k] \in T
    BY DEF Glisse
  <2>2. ASSUME NEW k \in 1 .. Len(r), r[k].type \in X
        PROVE  k + d \in 1 .. Len(q) /\ r[k] = q[k + d]
    BY <1>1, <2>1, <2>2 DEF Etrangers
  <2> QED BY <2>2
<1>3. ASSUME Vierge(q, X)
      PROVE  Vierge(r, X)
  BY <1>2, <1>3 DEF Vierge
<1>5. PICK d \in Nat : \A k \in 1 .. Len(r) : r[k].type \in X =>
           k + d \in 1 .. Len(q) /\ r[k] = q[k + d]
  BY <1>2
<1>4. ASSUME NEW k \in 1 .. Len(r), NEW j \in 1 .. Len(r), r[k].type \in X, r[j].type \in X,
             Unique(q, X)
      PROVE  k = j
  <2>1. /\ k + d \in 1 .. Len(q) /\ q[k + d].type \in X
        /\ j + d \in 1 .. Len(q) /\ q[j + d].type \in X
    BY <1>5, <1>4
  <2>2. k + d = j + d
    BY <2>1, <1>4 DEF Unique
  <2> QED BY <2>2
<1> QED BY <1>3, <1>4 DEF Unique

\* The files of the clients: what happens to each.
Glissent(f, g, T) == \A c \in Clients : Glisse(f[c], g[c], T)

\* Nothing happens.
LEMMA GlissentMeme ==
  ASSUME NEW S, NEW f \in [Clients -> Seq(S)], NEW T
  PROVE  Glissent(f, f, T)
BY GlisseMeme DEF Glissent

\* One message is read.
LEMMA GlissentQueue ==
  ASSUME NEW S, NEW f \in [Clients -> Seq(S)], NEW T, NEW c \in Clients, f[c] # <<>>
  PROVE  /\ [f EXCEPT ![c] = Tail(@)] \in [Clients -> Seq(S)]
         /\ Glissent(f, [f EXCEPT ![c] = Tail(@)], T)
<1> DEFINE g == [f EXCEPT ![c] = Tail(@)]
<1>1. Tail(f[c]) \in Seq(S)
  BY QueueFile
<1>2. g \in [Clients -> Seq(S)]
  BY <1>1
<1>3. ASSUME NEW d \in Clients
      PROVE  Glisse(f[d], g[d], T)
  <2>1. CASE d = c
    BY <2>1, GlisseQueue
  <2>2. CASE d # c
    BY <2>2, GlisseMeme
  <2> QED BY <2>1, <2>2
<1> QED BY <1>2, <1>3 DEF Glissent

\* One message is added.
LEMMA GlissentAjout ==
  ASSUME NEW S, NEW f \in [Clients -> Seq(S)], NEW T, NEW c \in Clients, NEW m \in S, m \in T
  PROVE  /\ [f EXCEPT ![c] = Append(@, m)] \in [Clients -> Seq(S)]
         /\ Glissent(f, [f EXCEPT ![c] = Append(@, m)], T)
<1> DEFINE g == [f EXCEPT ![c] = Append(@, m)]
<1>1. Append(f[c], m) \in Seq(S)
  BY AjoutFile
<1>2. g \in [Clients -> Seq(S)]
  BY <1>1
<1>3. ASSUME NEW d \in Clients
      PROVE  Glisse(f[d], g[d], T)
  <2>1. CASE d = c
    BY <2>1, GlisseAjout
  <2>2. CASE d # c
    BY <2>2, GlisseMeme
  <2> QED BY <2>1, <2>2
<1> QED BY <1>2, <1>3 DEF Glissent

\* send() to a client.
LEMMA PosterGlisse ==
  ASSUME NEW f \in [Clients -> Seq(Avis)], NEW c, NEW m \in Avis, NEW T, m \in T
  PROVE  /\ Poster(f, c, m) \in [Clients -> Seq(Avis)]
         /\ Glissent(f, Poster(f, c, m), T)
         /\ \A d \in Clients : d # c => Poster(f, c, m)[d] = f[d]
<1>1. CASE c \in Clients /\ programme[c].mode # "hors"
  <2>1. Poster(f, c, m) = [f EXCEPT ![c] = Append(@, m)]
    BY <1>1 DEF Poster
  <2>2. /\ c \in Clients
        /\ [f EXCEPT ![c] = Append(@, m)] \in [Clients -> Seq(Avis)]
        /\ Glissent(f, [f EXCEPT ![c] = Append(@, m)], T)
    BY <1>1, GlissentAjout
  <2> QED BY <2>1, <2>2
<1>2. CASE ~(c \in Clients /\ programme[c].mode # "hors")
  <2>1. Poster(f, c, m) = f
    BY <1>2 DEF Poster
  <2> QED BY <2>1, GlissentMeme
<1> QED BY <1>1, <1>2

\* Two messages are sent.
LEMMA GlissentPuis ==
  ASSUME NEW S, NEW f \in [Clients -> Seq(S)], NEW g \in [Clients -> Seq(S)],
         NEW h \in [Clients -> Seq(S)], NEW T, Glissent(f, g, T), Glissent(g, h, T)
  PROVE  Glissent(f, h, T)
<1>1. ASSUME NEW c \in Clients
      PROVE  Glisse(f[c], h[c], T)
  <2>1. f[c] \in Seq(S) /\ g[c] \in Seq(S) /\ h[c] \in Seq(S)
    OBVIOUS
  <2>2. Glisse(f[c], g[c], T) /\ Glisse(g[c], h[c], T)
    BY DEF Glissent
  <2> QED BY <2>1, <2>2, GlissePuis
<1> QED BY <1>1 DEF Glissent

\* What the two facts about queues say of all of them.
LEMMA GlissentVierges ==
  ASSUME NEW S, NEW f \in [Clients -> Seq(S)], NEW g \in [Clients -> Seq(S)], NEW T, NEW X,
         Glissent(f, g, T), Etrangers(T, X)
  PROVE  /\ \A c \in Clients : Vierge(f[c], X) => Vierge(g[c], X)
         /\ \A c \in Clients : Unique(f[c], X) => Unique(g[c], X)
         /\ Exempts(f, X) => Exempts(g, X)
<1>1. ASSUME NEW c \in Clients
      PROVE  (Vierge(f[c], X) => Vierge(g[c], X)) /\ (Unique(f[c], X) => Unique(g[c], X))
  <2>1. f[c] \in Seq(S) /\ g[c] \in Seq(S) /\ Glisse(f[c], g[c], T)
    BY DEF Glissent
  <2> QED BY <2>1, GlisseVierge
<1> QED BY <1>1 DEF Exempts

-----------------------------------------------------------------------------
(* What the steps do to the queues and to the client programs. *)

\* The messages of a game thread and of the main thread.
AvisDeJeu == [type : {"demande_fin", "demande_coup", "abandon", "terminer", "obs_terminer"}]
AvisDeListe == [type : {"liste"}, parties : SUBSET Listees]

\* The sockets of the places in use.
LEMMA SocketType ==
  ASSUME IInv, NEW i \in 1..nbClients
  PROVE  clients[i].sock \in Clients /\ clients[i].sock \in Connectes /\ i \in Places
BY ClientsType DEF IInv, EntreesClients, Connectes

\* The main thread reads a message.
LEMMA LireType ==
  ASSUME IInv, TypesDialogue, NEW i, Pret(i), Lire(i), NEW T
  PROVE  LET c == clients[i].sock IN
         /\ i \in 1..nbClients /\ c \in Clients
         /\ entree[c] # <<>> /\ Len(entree[c]) \in Nat \ {0}
         /\ Lu(i) = entree[c][1] /\ Lu(i) \in Requetes
         /\ entree' \in [Clients -> Seq(Requetes)]
         /\ Glissent(entree, entree', T)
         /\ entree'[c] = Tail(entree[c])
         /\ \A d \in Clients : d # c => entree'[d] = entree[d]
<1> DEFINE c == clients[i].sock
<1>1. i \in 1..nbClients /\ c \in Clients /\ entree[c] # <<>>
  BY SocketType DEF Pret
<1>2. entree \in [Clients -> Seq(Requetes)]
  BY DEF TypesDialogue
<1>3. entree[c] \in Seq(Requetes)
  BY <1>1, <1>2
<1>4. /\ Len(entree[c]) \in Nat \ {0}
      /\ Head(entree[c]) = entree[c][1] /\ Head(entree[c]) \in Requetes
  BY <1>1, <1>3, QueueFile
<1>5. entree' = [entree EXCEPT ![c] = Tail(@)]
  BY DEF Lire
<1>6. entree' \in [Clients -> Seq(Requetes)] /\ Glissent(entree, entree', T)
  BY <1>1, <1>2, <1>5, GlissentQueue
<1>7. entree'[c] = Tail(entree[c]) /\ \A d \in Clients : d # c => entree'[d] = entree[d]
  BY <1>1, <1>2, <1>5
<1> QED BY <1>1, <1>4, <1>6, <1>7 DEF Lu

\* A client program sends a message.
LEMMA EnvoyerType ==
  ASSUME TypesDialogue, NEW c \in Clients, NEW m \in Requetes, Envoyer(c, m), NEW T, m \in T
  PROVE  /\ entree' \in [Clients -> Seq(Requetes)]
         /\ Glissent(entree, entree', T)
         /\ entree'[c] = Append(entree[c], m)
         /\ \A d \in Clients : d # c => entree'[d] = entree[d]
<1>1. entree \in [Clients -> Seq(Requetes)]
  BY DEF TypesDialogue
<1>2. entree' = [entree EXCEPT ![c] = Append(@, m)]
  BY DEF Envoyer
<1>3. entree' \in [Clients -> Seq(Requetes)] /\ Glissent(entree, entree', T)
  BY <1>1, <1>2, GlissentAjout
<1> QED BY <1>1, <1>2, <1>3

\* A client program handles a message.
LEMMA RecoitType ==
  ASSUME TypesDialogue, NEW c \in Clients, NEW type, Recoit(c, type), NEW T
  PROVE  /\ sortie' \in [Clients -> Seq(Avis)]
         /\ Glissent(sortie, sortie', T)
         /\ Len(sortie[c]) \in Nat \ {0}
         /\ sortie[c][1] = Head(sortie[c]) /\ sortie[c][1] \in Avis /\ sortie[c][1].type = type
         /\ sortie'[c] = Tail(sortie[c])
         /\ \A d \in Clients : d # c => sortie'[d] = sortie[d]
         /\ Mode(c) \notin {"hors", "sollicite", "q_fin", "q_coup"}
<1>1. sortie \in [Clients -> Seq(Avis)] /\ sortie[c] # <<>>
  BY DEF TypesDialogue, Recoit
<1>2. sortie[c] \in Seq(Avis)
  BY <1>1
<1>3. /\ Len(sortie[c]) \in Nat \ {0}
      /\ Head(sortie[c]) = sortie[c][1] /\ Head(sortie[c]) \in Avis
  BY <1>1, <1>2, QueueFile
<1>4. sortie' = [sortie EXCEPT ![c] = Tail(@)]
  BY DEF Recoit
<1>5. sortie' \in [Clients -> Seq(Avis)] /\ Glissent(sortie, sortie', T)
  BY <1>1, <1>4, GlissentQueue
<1> QED BY <1>1, <1>3, <1>4, <1>5 DEF Recoit

\* A client program that goes on to another dialogue.
LEMMA PasserType ==
  ASSUME TypesDialogue, NEW c \in Clients, NEW mode \in Modes, Passer(c, mode)
  PROVE  /\ programme' \in [Clients -> Profils]
         /\ programme'[c].mode = mode
         /\ programme'[c].defieur = programme[c].defieur
         /\ programme'[c].partie = programme[c].partie
         /\ \A d \in Clients : d # c => programme'[d] = programme[d]
<1>1. programme \in [Clients -> Profils] /\ programme[c] \in Profils
  BY DEF TypesDialogue
<1>2. programme' = [programme EXCEPT ![c] = [programme[c] EXCEPT !.mode = mode]]
  BY <1>1 DEF Passer
<1>3. [programme[c] EXCEPT !.mode = mode] \in Profils
  BY <1>1 DEF Profils
<1> QED BY <1>1, <1>2, <1>3 DEF Profils

\* The dialogue of a client program is one of the modes.
LEMMA ModeType ==
  ASSUME TypesDialogue, NEW c \in Clients
  PROVE  programme[c] \in Profils /\ Mode(c) \in Modes
BY DEF TypesDialogue, Profils, Mode

\* A client program that has answered a challenge.
LEMMA RepondreType ==
  ASSUME TypesDialogue, NEW c \in Clients, NEW mode \in Modes, Repondre(c, mode)
  PROVE  /\ programme' \in [Clients -> Profils]
         /\ programme'[c].mode = mode
         /\ programme'[c].partie = programme[c].partie
         /\ \A d \in Clients : d # c => programme'[d] = programme[d]
<1> DEFINE r == [Programme(mode) EXCEPT !.partie = programme[c].partie]
<1>1. programme \in [Clients -> Profils] /\ programme[c] \in Profils
  BY DEF TypesDialogue
<1>2. r \in Profils /\ r.mode = mode /\ r.partie = programme[c].partie
  BY <1>1 DEF Programme, Profils, Modes, Listees
<1>3. programme' = [programme EXCEPT ![c] = r]
  BY DEF Repondre
<1> HIDE DEF r
<1> QED BY <1>1, <1>2, <1>3

\* A client that stops watching a game.
LEMMA FinObservationType ==
  ASSUME TypesDialogue, NEW c \in Clients, FinObservation(c)
  PROVE  /\ programme' \in [Clients -> Profils]
         /\ programme'[c].mode = IF Mode(c) = "observe" THEN "menu" ELSE Mode(c)
         /\ programme'[c].defieur = programme[c].defieur
         /\ programme'[c].partie = PartieVide
         /\ \A d \in Clients : d # c => programme'[d] = programme[d]
<1> DEFINE r == [programme[c] EXCEPT !.mode = IF @ = "observe" THEN "menu" ELSE @,
                                     !.partie = PartieVide]
<1>1. programme \in [Clients -> Profils] /\ programme[c] \in Profils
  BY DEF TypesDialogue
<1>2. programme' = [programme EXCEPT ![c] = r]
  BY <1>1 DEF FinObservation
<1>3. "menu" \in Modes /\ PartieVide \in Listees
  BY DEF Modes, Listees
<1>4. r \in Profils
  BY <1>1, <1>3 DEF Profils
<1>5. r.mode = (IF Mode(c) = "observe" THEN "menu" ELSE Mode(c))
      /\ r.defieur = programme[c].defieur /\ r.partie = PartieVide
  BY <1>1 DEF Profils, Mode
<1> HIDE DEF r
<1> QED BY <1>1, <1>2, <1>4, <1>5

\* The other clients do not notice what one of them does.
Seul(c) ==
  \A d \in Clients : d # c =>
    entree'[d] = entree[d] /\ sortie'[d] = sortie[d] /\ programme'[d] = programme[d]

\* A client program changes its own queues and its own dialogue only.
LEMMA ClientDialoguePas ==
  ASSUME TypesDialogue, NEW c \in Clients, AvancerClient(c)
  PROVE  TypesDialogue' /\ Seul(c)
<1>1. /\ entree \in [Clients -> Seq(Requetes)]
      /\ sortie \in [Clients -> Seq(Avis)]
      /\ programme \in [Clients -> Profils]
      /\ programme[c] \in Profils
  BY DEF TypesDialogue
<1>2. {"menu", "attend", "liste", "sollicite", "jeu", "q_fin", "q_coup", "observe", "hors"} \subseteq Modes
  BY DEF Modes, EnPartie
<1>3. Mode(c) \in Modes
  BY ModeType
<1>4. ASSUME NEW d \in Clients, Defier(c, d)
      PROVE  TypesDialogue' /\ Seul(c)
  <2>1. [type |-> "defi", cible |-> d] \in Requetes
    BY DEF Requetes, Defis
  <2>2. Envoyer(c, [type |-> "defi", cible |-> d]) /\ Passer(c, "attend") /\ UNCHANGED sortie
    BY <1>4 DEF Defier
  <2>3. entree' \in [Clients -> Seq(Requetes)] /\ \A e \in Clients : e # c => entree'[e] = entree[e]
    BY <2>1, <2>2, EnvoyerType
  <2>4. programme' \in [Clients -> Profils] /\ \A e \in Clients : e # c => programme'[e] = programme[e]
    BY <1>2, <2>2, PasserType
  <2> QED BY <1>1, <2>2, <2>3, <2>4 DEF TypesDialogue, Seul
<1>5. CASE DemanderParties(c)
  <2>1. Message("get_parties") \in Requetes
    BY DEF Requetes, Message
  <2>2. Envoyer(c, Message("get_parties")) /\ Passer(c, "liste") /\ UNCHANGED sortie
    BY <1>5 DEF DemanderParties
  <2>3. entree' \in [Clients -> Seq(Requetes)] /\ \A e \in Clients : e # c => entree'[e] = entree[e]
    BY <2>1, <2>2, EnvoyerType
  <2>4. programme' \in [Clients -> Profils] /\ \A e \in Clients : e # c => programme'[e] = programme[e]
    BY <1>2, <2>2, PasserType
  <2> QED BY <1>1, <2>2, <2>3, <2>4 DEF TypesDialogue, Seul
<1>6. CASE RecoitDefi(c)
  <2>1. Recoit(c, "defi") /\ UNCHANGED entree
    BY <1>6 DEF RecoitDefi
  <2>2. /\ sortie' \in [Clients -> Seq(Avis)] /\ \A e \in Clients : e # c => sortie'[e] = sortie[e]
        /\ Head(sortie[c]) \in Avis /\ Head(sortie[c]).type = "defi"
    BY <2>1, RecoitType
  <2>3. Head(sortie[c]).cible \in Clients
    BY <2>2 DEF Avis
  <2> DEFINE r == [programme[c] EXCEPT !.mode = "sollicite", !.defieur = Head(sortie[c]).cible,
                     !.retour = IF Mode(c) = "jeu" THEN "jeu" ELSE "menu"]
  <2>4. r \in Profils
    BY <1>1, <1>2, <2>3 DEF Profils
  <2>5. programme' = [programme EXCEPT ![c] = r]
    BY <1>1, <1>6 DEF RecoitDefi
  <2> HIDE DEF r
  <2>6. programme' \in [Clients -> Profils] /\ \A e \in Clients : e # c => programme'[e] = programme[e]
    BY <1>1, <2>4, <2>5
  <2> QED BY <1>1, <2>1, <2>2, <2>6 DEF TypesDialogue, Seul
<1>7. CASE Accepter(c) \/ Refuser(c)
  <2>1. PICK type \in {"accord", "refus"}, mode \in Modes :
          Envoyer(c, [type |-> type, cible |-> programme[c].defieur]) /\ Repondre(c, mode)
    <3>1. programme[c].retour \in Modes
      BY <1>1, <1>2 DEF Profils
    <3> QED BY <1>2, <1>7, <3>1 DEF Accepter, Refuser
  <2>2. [type |-> type, cible |-> programme[c].defieur] \in Requetes /\ UNCHANGED sortie
    BY <1>1, <1>7 DEF Requetes, Defis, Profils, Accepter, Refuser
  <2>3. entree' \in [Clients -> Seq(Requetes)] /\ \A e \in Clients : e # c => entree'[e] = entree[e]
    BY <2>1, <2>2, EnvoyerType
  <2>4. programme' \in [Clients -> Profils] /\ \A e \in Clients : e # c => programme'[e] = programme[e]
    BY <2>1, RepondreType
  <2> QED BY <1>1, <2>2, <2>3, <2>4 DEF TypesDialogue, Seul
<1>8. CASE RecoitAccord(c) \/ RecoitRefus(c) \/ RecoitQuestion(c) \/ RecoitFinDePartie(c)
  <2>1. /\ UNCHANGED entree
        /\ \E type \in {"accord", "refus", "demande_fin", "demande_coup", "abandon", "terminer"} :
             Recoit(c, type)
        /\ \E mode \in Modes : Passer(c, mode)
    <3>1. (IF Mode(c) = "attend" THEN "menu" ELSE Mode(c)) \in Modes
      BY <1>2, <1>3
    <3>2. (IF Mode(c) = "jeu" THEN "menu" ELSE Mode(c)) \in Modes
      BY <1>2, <1>3
    <3>3. (IF Mode(c) = "jeu" THEN "q_fin" ELSE Mode(c)) \in Modes
          /\ (IF Mode(c) = "jeu" THEN "q_coup" ELSE Mode(c)) \in Modes
      BY <1>2, <1>3
    <3>4. "jeu" \in Modes
      BY <1>2
    <3> QED BY <1>8, <3>1, <3>2, <3>3, <3>4
            DEF RecoitAccord, RecoitRefus, RecoitQuestion, RecoitFinDePartie
  <2>2. sortie' \in [Clients -> Seq(Avis)] /\ \A e \in Clients : e # c => sortie'[e] = sortie[e]
    BY <2>1, RecoitType
  <2>3. programme' \in [Clients -> Profils] /\ \A e \in Clients : e # c => programme'[e] = programme[e]
    BY <2>1, PasserType
  <2> QED BY <1>1, <2>1, <2>2, <2>3 DEF TypesDialogue, Seul
<1>9. CASE RepondreFin(c) \/ RepondreCoup(c)
  <2>1. PICK type \in {"fin0", "fin1", "coup"}, mode \in Modes :
          Envoyer(c, Message(type)) /\ Passer(c, mode) /\ UNCHANGED sortie
    BY <1>2, <1>9 DEF RepondreFin, RepondreCoup
  <2>2. Message(type) \in Requetes
    BY DEF Requetes, Message
  <2>3. entree' \in [Clients -> Seq(Requetes)] /\ \A e \in Clients : e # c => entree'[e] = entree[e]
    BY <2>1, <2>2, EnvoyerType
  <2>4. programme' \in [Clients -> Profils] /\ \A e \in Clients : e # c => programme'[e] = programme[e]
    BY <2>1, PasserType
  <2> QED BY <1>1, <2>1, <2>3, <2>4 DEF TypesDialogue, Seul
<1>10. CASE RecoitListe(c)
  <2>1. Recoit(c, "liste")
    BY <1>10 DEF RecoitListe
  <2>2. /\ sortie' \in [Clients -> Seq(Avis)] /\ \A e \in Clients : e # c => sortie'[e] = sortie[e]
        /\ Head(sortie[c]) \in Avis /\ Head(sortie[c]).type = "liste"
    BY <2>1, RecoitType
  <2>3. Head(sortie[c]).parties \subseteq Listees
    BY <2>2 DEF Avis, Defis
  <2>4. CASE \E p \in Head(sortie[c]).parties :
               /\ Envoyer(c, [type |-> "add_observer", partie |-> p])
               /\ programme' = [programme EXCEPT ![c].mode = "observe", ![c].partie = p]
    <3>1. PICK p \in Head(sortie[c]).parties :
               /\ Envoyer(c, [type |-> "add_observer", partie |-> p])
               /\ programme' = [programme EXCEPT ![c].mode = "observe", ![c].partie = p]
      BY <2>4
    <3>2. p \in Listees
      BY <2>3
    <3>3. [type |-> "add_observer", partie |-> p] \in Requetes
      BY <3>2 DEF Requetes
    <3>4. entree' \in [Clients -> Seq(Requetes)] /\ \A e \in Clients : e # c => entree'[e] = entree[e]
      BY <3>1, <3>3, EnvoyerType
    <3>5. [programme[c] EXCEPT !.mode = "observe", !.partie = p] \in Profils
      BY <1>1, <1>2, <3>2 DEF Profils
    <3>6. programme' = [programme EXCEPT ![c] = [programme[c] EXCEPT !.mode = "observe", !.partie = p]]
      BY <1>1, <3>1
    <3>7. programme' \in [Clients -> Profils] /\ \A e \in Clients : e # c => programme'[e] = programme[e]
      BY <1>1, <3>5, <3>6
    <3> QED BY <2>2, <3>4, <3>7 DEF TypesDialogue, Seul
  <2>5. CASE Passer(c, IF Mode(c) = "liste" THEN "menu" ELSE Mode(c)) /\ UNCHANGED entree
    <3>1. (IF Mode(c) = "liste" THEN "menu" ELSE Mode(c)) \in Modes
      BY <1>2, <1>3
    <3>2. programme' \in [Clients -> Profils] /\ \A e \in Clients : e # c => programme'[e] = programme[e]
      BY <2>5, <3>1, PasserType
    <3> QED BY <1>1, <2>2, <2>5, <3>2 DEF TypesDialogue, Seul
  <2> QED BY <1>10, <2>4, <2>5 DEF RecoitListe
<1>11. ASSUME FinObservation(c)
       PROVE  /\ entree' \in [Clients -> Seq(Requetes)]
              /\ programme' \in [Clients -> Profils]
              /\ \A e \in Clients : e # c => entree'[e] = entree[e] /\ programme'[e] = programme[e]
  <2>1. [type |-> "remove_observer", partie |-> programme[c].partie] \in Requetes
    BY <1>1 DEF Requetes, Profils
  <2>2. Envoyer(c, [type |-> "remove_observer", partie |-> programme[c].partie])
    BY <1>11 DEF FinObservation
  <2>3. entree' \in [Clients -> Seq(Requetes)] /\ \A e \in Clients : e # c => entree'[e] = entree[e]
    BY <2>1, <2>2, EnvoyerType
  <2> QED BY <1>11, <2>3, FinObservationType
<1>12. CASE RecoitFinObservation(c)
  <2>1. Recoit(c, "obs_terminer")
    BY <1>12 DEF RecoitFinObservation
  <2>2. /\ sortie' \in [Clients -> Seq(Avis)] /\ \A e \in Clients : e # c => sortie'[e] = sortie[e]
    BY <2>1, RecoitType
  <2> QED BY <1>1, <1>11, <1>12, <2>2 DEF RecoitFinObservation, TypesDialogue, Seul
<1>13. CASE QuitterObservation(c)
  BY <1>1, <1>11, <1>13 DEF QuitterObservation, TypesDialogue, Seul
<1>14. CASE Fermer(c)
  <2>1. Message("eof") \in Requetes
    BY DEF Requetes, Message
  <2>2. Envoyer(c, Message("eof"))
    BY <1>14 DEF Fermer
  <2>3. entree' \in [Clients -> Seq(Requetes)] /\ \A e \in Clients : e # c => entree'[e] = entree[e]
    BY <2>1, <2>2, EnvoyerType
  <2>4. Programme("hors") \in Profils /\ <<>> \in Seq(Avis)
    BY <1>2, EmptySeq DEF Profils, Programme, Listees
  <2>5. programme' = [programme EXCEPT ![c] = Programme("hors")] /\ sortie' = [sortie EXCEPT ![c] = <<>>]
    BY <1>14 DEF Fermer
  <2>6. programme' \in [Clients -> Profils] /\ sortie' \in [Clients -> Seq(Avis)]
    BY <1>1, <2>4, <2>5
  <2> QED BY <1>1, <2>3, <2>5, <2>6 DEF TypesDialogue, Seul
<1> QED BY <1>4, <1>5, <1>6, <1>7, <1>8, <1>9, <1>10, <1>12, <1>13, <1>14 DEF AvancerClient

\* Nothing of the server.
LEMMA ClientServeur ==
  ASSUME NEW c \in Clients, AvancerClient(c)
  PROVE  UNCHANGED varsServeur
BY DEF AvancerClient, Defier, DemanderParties, RecoitDefi, Accepter, Refuser, RecoitAccord,
   RecoitRefus, RecoitQuestion, RepondreFin, RepondreCoup, RecoitFinDePartie, RecoitListe,
   RecoitFinObservation, QuitterObservation, Fermer

\* A game thread writes neither to the server nor for the programs.
LEMMA ThreadReste ==
  ASSUME NEW t \in Threads, AvancerThread(t)
  PROVE  UNCHANGED <<entree, programme, compteurs, messagesParties, principal>>
BY DEF AvancerThread, Tour, MessageIgnore, LireFin, LireCoup, ContinuerPartie, TerminerPartie,
       AnnoncerVainqueur, FinirAbandon, Annulation, Parcourir, AnnoncerFin, Effacer, Reconnaitre,
       Detacher, Reprendre, FinThread, varsClients, varsMessages

\* The main thread in the middle of a handler has nothing left to send.
LEMMA PoursuivreReste ==
  ASSUME Poursuivre
  PROVE  UNCHANGED <<varsClients, varsMessages>>
BY DEF Poursuivre, DecalerJeux, DecalerVues, Annuler, Joindre, DemarrerPartie, varsClients

\* A game thread writes to the players and to the observers.
LEMMA ThreadDialoguePas ==
  ASSUME IInv, TypesDialogue, NEW t \in Threads, AvancerThread(t)
  PROVE  /\ UNCHANGED <<entree, programme, compteurs>>
         /\ sortie' \in [Clients -> Seq(Avis)]
         /\ Glissent(sortie, sortie', AvisDeJeu)
<1>1. UNCHANGED <<entree, programme, compteurs>>
  BY ThreadReste
<1>2. sortie \in [Clients -> Seq(Avis)]
  BY DEF TypesDialogue
<1>3. \A type \in {"demande_fin", "demande_coup", "abandon", "terminer", "obs_terminer"} :
        Message(type) \in Avis /\ Message(type) \in AvisDeJeu
  BY DEF Message, Avis, AvisDeJeu
<1>4. ASSUME NEW c, NEW type \in {"demande_fin", "demande_coup", "abandon", "terminer", "obs_terminer"},
             sortie' = Poster(sortie, c, Message(type))
      PROVE  sortie' \in [Clients -> Seq(Avis)] /\ Glissent(sortie, sortie', AvisDeJeu)
  <2>1. Message(type) \in Avis /\ Message(type) \in AvisDeJeu
    BY <1>3
  <2> QED BY <1>2, <1>4, <2>1, PosterGlisse
<1>5. ASSUME UNCHANGED sortie
      PROVE  sortie' \in [Clients -> Seq(Avis)] /\ Glissent(sortie, sortie', AvisDeJeu)
  BY <1>2, <1>5, GlissentMeme
<1>6. CASE Tour(t)
  <2>1. PICK type \in {"demande_coup", "demande_fin"} : sortie' = Poster(sortie, Mover(t), Message(type))
    BY <1>6 DEF Tour
  <2> QED BY <1>1, <1>4, <2>1
<1>7. CASE LireFin(t)
  <2>1. \/ sortie' = Poster(sortie, Oppose(t), Message("abandon"))
        \/ sortie' = Poster(sortie, Mover(t), Message("demande_coup"))
    BY <1>7 DEF LireFin
  <2> QED BY <1>1, <1>4, <2>1
<1>8. CASE TerminerPartie(t) \/ AnnoncerVainqueur(t)
  <2>1. \E c : sortie' = Poster(sortie, c, Message("terminer"))
    BY <1>8 DEF TerminerPartie, AnnoncerVainqueur
  <2> QED BY <1>1, <1>4, <2>1
<1>9. CASE AnnoncerFin(t)
  <2>1. \E c : sortie' = Poster(sortie, c, Message("obs_terminer"))
    BY <1>9 DEF AnnoncerFin
  <2> QED BY <1>1, <1>4, <2>1
<1>10. CASE MessageIgnore(t) \/ LireCoup(t) \/ ContinuerPartie(t) \/ FinirAbandon(t)
            \/ Annulation(t) \/ Parcourir(t) \/ Effacer(t) \/ Reconnaitre(t) \/ Detacher(t)
            \/ Reprendre(t) \/ FinThread(t)
  <2>1. UNCHANGED sortie
    BY <1>10 DEF MessageIgnore, LireCoup, ContinuerPartie, FinirAbandon, Annulation, Parcourir,
                 Effacer, Reconnaitre, Detacher, Reprendre, FinThread, varsClients
  <2> QED BY <1>1, <1>5, <2>1
<1> QED BY <1>6, <1>7, <1>8, <1>9, <1>10 DEF AvancerThread

\* What a challenge, an accept or a refusal posts.
LEMMA TransmettreDialogue ==
  ASSUME IInv, TypesDialogue, NEW i, NEW type \in Defis, NEW etat, Transmettre(i, type, etat)
  PROVE  /\ Pret(i) /\ Lire(i) /\ clientsInGame[i] = Aucun /\ Lu(i).type = type
         /\ sortie' \in [Clients -> Seq(Avis)]
         /\ Glissent(sortie, sortie', {[type |-> type, cible |-> clients[i].sock]})
         /\ \A d \in Clients : d # Lu(i).cible => sortie'[d] = sortie[d]
<1> DEFINE m == [type |-> type, cible |-> clients[i].sock]
<1>1. Pret(i) /\ Lire(i) /\ clientsInGame[i] = Aucun /\ Lu(i).type = type
  BY DEF Transmettre, Recu
<1>2. clients[i].sock \in Clients
  BY <1>1, SocketType DEF Pret
<1>3. m \in Avis /\ m \in {m}
  BY <1>2 DEF Avis
<1>4. sortie' = Poster(sortie, Lu(i).cible, m) \/ UNCHANGED sortie
  BY DEF Transmettre
<1>5. sortie \in [Clients -> Seq(Avis)]
  BY DEF TypesDialogue
<1> HIDE DEF m
<1>6. /\ sortie' \in [Clients -> Seq(Avis)]
      /\ Glissent(sortie, sortie', {m})
      /\ \A d \in Clients : d # Lu(i).cible => sortie'[d] = sortie[d]
  <2>1. CASE UNCHANGED sortie
    BY <1>5, <2>1, GlissentMeme
  <2>2. CASE sortie' = Poster(sortie, Lu(i).cible, m)
    BY <1>3, <1>5, <2>2, PosterGlisse
  <2> QED BY <1>4, <2>1, <2>2
<1> QED BY <1>1, <1>6 DEF m

\* The main thread reads one message and posts.
LEMMA ServirDialoguePas ==
  ASSUME IInv, TypesDialogue, NEW i \in Places, Servir(i)
  PROVE  /\ Pret(i) /\ Lire(i) /\ UNCHANGED <<programme, compteurs>>
         /\ sortie' \in [Clients -> Seq(Avis)]
         /\ Glissent(sortie, sortie', Avis)
<1>1. UNCHANGED <<programme, compteurs>>
  BY DEF Servir, IgnorerReponse, QuitterHorsJeu, QuitterEnJeu, TransmettreAuJeu, TransmettreDefi,
         AccepterDefi, RefuserDefi, EnvoyerListe, AjouterObservateur, RetirerObservateur
<1>2. sortie \in [Clients -> Seq(Avis)]
  BY DEF TypesDialogue
<1>3. ASSUME NEW c, NEW m \in Avis, sortie' = Poster(sortie, c, m)
      PROVE  sortie' \in [Clients -> Seq(Avis)] /\ Glissent(sortie, sortie', Avis)
  BY <1>2, <1>3, PosterGlisse
<1>4. ASSUME UNCHANGED sortie
      PROVE  sortie' \in [Clients -> Seq(Avis)] /\ Glissent(sortie, sortie', Avis)
  BY <1>2, <1>4, GlissentMeme
<1>5. CASE IgnorerReponse(i) \/ QuitterHorsJeu(i) \/ TransmettreAuJeu(i) \/ AjouterObservateur(i)
           \/ RetirerObservateur(i)
  <2>1. UNCHANGED sortie /\ Pret(i) /\ Lire(i)
    BY <1>5 DEF IgnorerReponse, QuitterHorsJeu, TransmettreAuJeu, AjouterObservateur,
                RetirerObservateur, Recu
  <2> QED BY <1>1, <1>4, <2>1
<1>6. CASE QuitterEnJeu(i)
  <2>1. Message("abandon") \in Avis
    BY DEF Message, Avis
  <2>2. /\ Pret(i) /\ Lire(i)
        /\ UNCHANGED sortie \/ \E c : sortie' = Poster(sortie, c, Message("abandon"))
    BY <1>6 DEF QuitterEnJeu
  <2> QED BY <1>1, <1>3, <1>4, <2>1, <2>2
<1>7. CASE EnvoyerListe(i)
  <2> DEFINE m == [type |-> "liste", parties |-> {parties[s] : s \in Slots \ threadsLibres}]
  <2>1. m \in Avis
    BY DEF IInv, Types, Avis, Listees
  <2>2. Pret(i) /\ Lire(i) /\ sortie' = Poster(sortie, clients[i].sock, m)
    BY <1>7 DEF EnvoyerListe, Recu
  <2> QED BY <1>1, <1>3, <2>1, <2>2
<1>8. CASE TransmettreDefi(i) \/ AccepterDefi(i) \/ RefuserDefi(i)
  <2>1. Transmettre(i, "defi", 1) \/ Transmettre(i, "accord", 2) \/ Transmettre(i, "refus", 0)
    BY <1>8, Zenon DEF TransmettreDefi, AccepterDefi, RefuserDefi
  <2>2. Pret(i) /\ Lire(i) /\ clients[i].sock \in Clients
    BY <2>1, SocketType DEF Transmettre, Recu, Pret
  <2>3. \A type \in Defis : [type |-> type, cible |-> clients[i].sock] \in Avis
    BY <2>2 DEF Avis
  <2>4. \/ UNCHANGED sortie
        \/ \E type \in Defis :
             sortie' = Poster(sortie, Lu(i).cible, [type |-> type, cible |-> clients[i].sock])
    BY <2>1 DEF Transmettre, Defis
  <2> QED BY <1>1, <1>3, <1>4, <2>2, <2>3, <2>4
<1> QED BY <1>5, <1>6, <1>7, <1>8 DEF Servir

\* The steps of a client program that open no dialogue with another one.
Ordinaire(c) ==
  \/ DemanderParties(c)
  \/ RecoitAccord(c)
  \/ RecoitRefus(c)
  \/ RecoitQuestion(c)
  \/ RepondreFin(c)
  \/ RepondreCoup(c)
  \/ RecoitFinDePartie(c)
  \/ RecoitListe(c)
  \/ RecoitFinObservation(c)
  \/ QuitterObservation(c)

RequetesCalmes == {m \in Requetes : m.type \notin {"eof", "defi", "accord", "refus"}}

\* They send requests that concern no other client.
LEMMA ClientOrdinaire ==
  ASSUME IInv, TypesDialogue, NEW c \in Clients, Ordinaire(c)
  PROVE  /\ Glissent(entree, entree', RequetesCalmes)
         /\ Glissent(sortie, sortie', {})
         /\ compteurs'.defis = compteurs.defis /\ compteurs'.departs = compteurs.departs
         /\ Mode(c) # "sollicite" /\ programme'[c].mode # "sollicite"
<1>1. entree \in [Clients -> Seq(Requetes)] /\ sortie \in [Clients -> Seq(Avis)]
      /\ programme[c] \in Profils
  BY DEF TypesDialogue
<1>2. ASSUME NEW m \in RequetesCalmes, Envoyer(c, m)
      PROVE  Glissent(entree, entree', RequetesCalmes)
  <2>1. m \in Requetes
    BY DEF RequetesCalmes
  <2> QED BY <1>2, <2>1, EnvoyerType
<1>3. UNCHANGED entree => Glissent(entree, entree', RequetesCalmes)
  BY <1>1, GlissentMeme
<1>4. UNCHANGED sortie => Glissent(sortie, sortie', {})
  BY <1>1, GlissentMeme
<1>5. ASSUME NEW type, Recoit(c, type)
      PROVE  Glissent(sortie, sortie', {}) /\ Mode(c) # "sollicite"
  BY <1>5, RecoitType
<1>6. ASSUME NEW mode \in Modes, mode # "sollicite", Passer(c, mode)
      PROVE  programme'[c].mode # "sollicite"
  BY <1>6, PasserType
<1>7. {"menu", "liste", "jeu", "q_fin", "q_coup"} \subseteq Modes /\ Mode(c) \in Modes
  BY ModeType DEF Modes, EnPartie
<1>8. \A type \in {"fin0", "fin1", "coup", "get_parties"} : Message(type) \in RequetesCalmes
  BY DEF RequetesCalmes, Requetes, Message
<1>9. ASSUME FinObservation(c), Mode(c) # "sollicite"
      PROVE  Glissent(entree, entree', RequetesCalmes) /\ programme'[c].mode # "sollicite"
  <2>1. [type |-> "remove_observer", partie |-> programme[c].partie] \in RequetesCalmes
    BY <1>1 DEF RequetesCalmes, Requetes, Profils
  <2>2. Envoyer(c, [type |-> "remove_observer", partie |-> programme[c].partie])
    BY <1>9 DEF FinObservation
  <2>3. programme'[c].mode = IF Mode(c) = "observe" THEN "menu" ELSE Mode(c)
    BY <1>9, FinObservationType
  <2>4. programme'[c].mode # "sollicite"
    BY <1>9, <2>3
  <2>5. Glissent(entree, entree', RequetesCalmes)
    BY <1>2, <2>1, <2>2
  <2> QED BY <2>4, <2>5
<1>10. CASE DemanderParties(c)
  <2>1. /\ Envoyer(c, Message("get_parties")) /\ Passer(c, "liste") /\ UNCHANGED sortie
        /\ compteurs' = [compteurs EXCEPT !.listes = @ + 1] /\ Mode(c) = "menu"
    BY <1>10 DEF DemanderParties, Est
  <2>2. Message("get_parties") \in RequetesCalmes /\ "liste" \in Modes
    BY <1>7, <1>8
  <2>3. Glissent(entree, entree', RequetesCalmes) /\ programme'[c].mode # "sollicite"
    BY <1>2, <1>6, <2>1, <2>2
  <2>4. compteurs'.defis = compteurs.defis /\ compteurs'.departs = compteurs.departs
    BY <2>1 DEF IInv, Types, TypeInvariant
  <2> QED BY <1>4, <2>1, <2>3, <2>4
<1>11. CASE RecoitAccord(c) \/ RecoitRefus(c) \/ RecoitQuestion(c) \/ RecoitFinDePartie(c)
  <2>1. UNCHANGED <<entree, compteurs>>
    BY <1>11 DEF RecoitAccord, RecoitRefus, RecoitQuestion, RecoitFinDePartie
  <2>2. Glissent(sortie, sortie', {}) /\ Mode(c) # "sollicite"
    BY <1>5, <1>11 DEF RecoitAccord, RecoitRefus, RecoitQuestion, RecoitFinDePartie
  <2>3. PICK mode \in Modes : mode # "sollicite" /\ Passer(c, mode)
    BY <1>7, <1>11, <2>2 DEF RecoitAccord, RecoitRefus, RecoitQuestion, RecoitFinDePartie
  <2> QED BY <1>3, <1>6, <2>1, <2>2, <2>3
<1>12. CASE RepondreFin(c) \/ RepondreCoup(c)
  <2>1. PICK type \in {"fin0", "fin1", "coup"}, mode \in {"jeu", "menu"} :
          Envoyer(c, Message(type)) /\ Passer(c, mode)
    BY <1>12 DEF RepondreFin, RepondreCoup
  <2>2. UNCHANGED <<sortie, compteurs>> /\ Mode(c) # "sollicite"
    BY <1>12 DEF RepondreFin, RepondreCoup, Est
  <2>3. Message(type) \in RequetesCalmes /\ mode \in Modes
    BY <1>7, <1>8
  <2> QED BY <1>2, <1>4, <1>6, <2>1, <2>2, <2>3
<1>13. CASE RecoitListe(c)
  <2>1. Recoit(c, "liste") /\ UNCHANGED compteurs
    BY <1>13 DEF RecoitListe
  <2>2. /\ Glissent(sortie, sortie', {}) /\ Mode(c) # "sollicite"
        /\ Head(sortie[c]) \in Avis /\ Head(sortie[c]).type = "liste"
    BY <1>5, <2>1, RecoitType
  <2>3. Head(sortie[c]).parties \subseteq Listees
    BY <2>2 DEF Avis, Defis
  <2>4. ASSUME NEW p \in Head(sortie[c]).parties,
               Envoyer(c, [type |-> "add_observer", partie |-> p]),
               programme' = [programme EXCEPT ![c].mode = "observe", ![c].partie = p]
        PROVE  Glissent(entree, entree', RequetesCalmes) /\ programme'[c].mode # "sollicite"
    <3>1. [type |-> "add_observer", partie |-> p] \in RequetesCalmes
      BY <2>3 DEF RequetesCalmes, Requetes
    <3>2. programme'[c].mode = "observe"
      BY <1>1, <2>4 DEF TypesDialogue, Profils
    <3> QED BY <1>2, <2>4, <3>1, <3>2
  <2>5. ASSUME Passer(c, IF Mode(c) = "liste" THEN "menu" ELSE Mode(c)), UNCHANGED entree
        PROVE  Glissent(entree, entree', RequetesCalmes) /\ programme'[c].mode # "sollicite"
    <3>1. (IF Mode(c) = "liste" THEN "menu" ELSE Mode(c)) \in Modes \ {"sollicite"}
      BY <1>7, <2>2
    <3> QED BY <1>3, <1>6, <2>5, <3>1
  <2>6. Glissent(entree, entree', RequetesCalmes) /\ programme'[c].mode # "sollicite"
    BY <1>13, <2>4, <2>5 DEF RecoitListe
  <2> QED BY <2>1, <2>2, <2>6
<1>14. CASE RecoitFinObservation(c)
  <2>1. Recoit(c, "obs_terminer") /\ UNCHANGED compteurs
    BY <1>14 DEF RecoitFinObservation
  <2>2. Glissent(sortie, sortie', {}) /\ Mode(c) # "sollicite"
    BY <1>5, <2>1
  <2>3. FinObservation(c) \/ UNCHANGED <<entree, programme>>
    BY <1>14 DEF RecoitFinObservation
  <2> QED BY <1>3, <1>9, <2>1, <2>2, <2>3 DEF Mode
<1>15. CASE QuitterObservation(c)
  <2>1. FinObservation(c) /\ Mode(c) = "observe" /\ UNCHANGED <<sortie, compteurs>>
    BY <1>15 DEF QuitterObservation, Est
  <2> QED BY <1>4, <1>9, <2>1
<1> QED BY <1>10, <1>11, <1>12, <1>13, <1>14, <1>15 DEF Ordinaire

\* What the sets of messages leave out.
LEMMA EtrangersType ==
  /\ \A X : Etrangers({}, X)
  /\ Etrangers(RequetesCalmes, {"eof"}) /\ Etrangers(RequetesCalmes, {"refus"})
  /\ Etrangers(RequetesCalmes, {"defi", "accord"})
  /\ Etrangers(AvisDeJeu, {"defi"}) /\ Etrangers(AvisDeJeu, {"accord"}) /\ Etrangers(AvisDeJeu, {"refus"})
BY DEF Etrangers, RequetesCalmes, AvisDeJeu

\* The bounds count up.
LEMMA TranquilleAvant ==
  ASSUME IInv, [Next]_vars, Tranquille'
  PROVE  Tranquille
<1>1. compteurs \in [defis : 0..MaxDefis, listes : 0..MaxListes, departs : 0..MaxDeparts]
  BY DEF IInv, Types, TypeInvariant
<1> DEFINE Compte == \/ UNCHANGED compteurs
                     \/ compteurs' = [compteurs EXCEPT !.defis = @ + 1]
                     \/ compteurs' = [compteurs EXCEPT !.listes = @ + 1]
                     \/ compteurs' = [compteurs EXCEPT !.departs = @ + 1]
<1>2. Compte
  <2>1. ASSUME NEW t \in Threads, AvancerThread(t)
        PROVE  UNCHANGED compteurs
    BY <2>1, ThreadReste
  <2>2. ASSUME NEW i \in Places, Servir(i)
        PROVE  UNCHANGED compteurs
    BY <2>2 DEF Servir, IgnorerReponse, QuitterHorsJeu, QuitterEnJeu, TransmettreAuJeu, TransmettreDefi,
         AccepterDefi, RefuserDefi, EnvoyerListe, AjouterObservateur, RetirerObservateur
  <2>3. Poursuivre => UNCHANGED compteurs
    BY PoursuivreReste DEF varsClients
  <2>4. \A c \in Clients : Connecter(c) => UNCHANGED compteurs
    BY DEF Connecter
  <2>5. ASSUME NEW c \in Clients, AvancerClient(c)
        PROVE  Compte
    BY <2>5 DEF AvancerClient, Defier, DemanderParties, RecoitDefi, Accepter, Refuser, RecoitAccord,
         RecoitRefus, RecoitQuestion, RepondreFin, RepondreCoup, RecoitFinDePartie, RecoitListe,
         RecoitFinObservation, QuitterObservation, Fermer
  <2>6. UNCHANGED vars => UNCHANGED compteurs
    BY DEF vars, varsClients
  <2> QED BY <2>1, <2>2, <2>3, <2>4, <2>5, <2>6 DEF Next
<1> QED BY <1>1, <1>2, ServeurAssumption DEF Tranquille

\* The steps of a client program.
LEMMA ClientSortes ==
  ASSUME NEW c \in Clients, AvancerClient(c)
  PROVE  \/ Ordinaire(c)
         \/ \E d \in Clients : Defier(c, d)
         \/ RecoitDefi(c) \/ Accepter(c) \/ Refuser(c)
         \/ Fermer(c)
BY DEF AvancerClient, Ordinaire

\* Nobody leaves.
LEMMA FermerNon ==
  ASSUME IInv, Tranquille', NEW c
  PROVE  ~Fermer(c)
<1>1. compteurs.departs \in Nat
  BY ServeurAssumption DEF IInv, Types, TypeInvariant
<1>2. Fermer(c) => compteurs'.departs = compteurs.departs + 1
  BY DEF Fermer, IInv, Types, TypeInvariant
<1> QED BY <1>1, <1>2 DEF Tranquille

\* As long as nobody leaves nothing is cancelled.
LEMMA PresentsPas ==
  ASSUME IInv, TypesDialogue, TypesDialogue', Presents, [Next]_vars, Tranquille'
  PROVE  Presents'
<1>1. entree \in [Clients -> Seq(Requetes)] /\ entree' \in [Clients -> Seq(Requetes)]
  BY DEF TypesDialogue
<1>2. ASSUME NEW T, Glissent(entree, entree', T), Etrangers(T, {"eof"})
      PROVE  Exempts(entree', {"eof"})
  BY <1>1, <1>2, GlissentVierges DEF Presents
<1>3. UNCHANGED entree => Exempts(entree', {"eof"})
  BY DEF Presents
<1>4. thread \in [Threads -> ThreadType]
  BY DEF IInv, Types, TypeInvariant, ThreadType
<1>5. \A mode : Repos(mode).annule = FALSE
  BY DEF Repos
<1>6. UNCHANGED <<thread, principal>> =>
        (\A t \in Threads : ~thread'[t].annule)
        /\ principal'.pc \notin {"annuler", "join", "jeux", "vues"}
  BY DEF Presents
<1>7. CASE UNCHANGED vars
  BY <1>3, <1>6, <1>7 DEF vars, varsServeur, varsClients, Presents
<1>8. ASSUME NEW t \in Threads, AvancerThread(t)
      PROVE  Presents'
  <2>1. UNCHANGED <<entree, principal>>
    BY <1>8, ThreadReste
  <2>2. \A u \in Threads : ~thread'[u].annule
    <3>1. CASE Tour(t) \/ MessageIgnore(t) \/ LireFin(t) \/ LireCoup(t) \/ ContinuerPartie(t)
               \/ TerminerPartie(t)
      BY <1>4, <3>1 DEF Presents, Tour, MessageIgnore, LireFin, LireCoup, ContinuerPartie,
         TerminerPartie, ThreadType
    <3>2. CASE AnnoncerVainqueur(t) \/ FinirAbandon(t)
      BY <1>4, <3>2 DEF Presents, AnnoncerVainqueur, FinirAbandon, DebutNettoyage, ThreadType
    <3>3. CASE FinThread(t)
      BY <1>4, <1>5, <3>3 DEF Presents, FinThread
    <3>4. ~Annulation(t)
      BY DEF Presents, Annulation
    <3>5. CASE Parcourir(t) \/ AnnoncerFin(t) \/ Effacer(t) \/ Reconnaitre(t) \/ Detacher(t)
               \/ Reprendre(t)
      <4>1. PICK pc, k : Etape(t, pc, k)
        BY <3>5 DEF Parcourir, AnnoncerFin, Effacer, Reconnaitre, Detacher, Reprendre
      <4> QED BY <1>4, <4>1 DEF Presents, Etape, ThreadType
    <3> QED BY <1>8, <3>1, <3>2, <3>3, <3>4, <3>5 DEF AvancerThread
  <2> QED BY <1>3, <2>1, <2>2 DEF Presents
<1>9. ASSUME NEW i \in Places, Servir(i)
      PROVE  Presents'
  <2>1. Pret(i) /\ Lire(i)
    BY <1>9, ServirDialoguePas
  <2>2. /\ clients[i].sock \in Clients /\ Lu(i) = entree[clients[i].sock][1]
        /\ Len(entree[clients[i].sock]) \in Nat \ {0}
        /\ Glissent(entree, entree', {})
    BY <2>1, LireType
  <2>3. Lu(i).type # "eof"
    BY <2>2 DEF Presents, Exempts, Vierge
  <2>4. Exempts(entree', {"eof"})
    BY <1>2, <2>2, EtrangersType
  <2>5. ~QuitterHorsJeu(i) /\ ~QuitterEnJeu(i)
    BY <2>3 DEF QuitterHorsJeu, QuitterEnJeu, Recu
  <2>6. CASE IgnorerReponse(i) \/ TransmettreAuJeu(i) \/ TransmettreDefi(i) \/ RefuserDefi(i)
             \/ EnvoyerListe(i) \/ RetirerObservateur(i)
    <3>1. UNCHANGED <<thread, principal>>
      BY <2>6 DEF IgnorerReponse, TransmettreAuJeu, TransmettreDefi, RefuserDefi, EnvoyerListe,
                  RetirerObservateur
    <3> QED BY <1>6, <2>4, <3>1 DEF Presents
  <2>7. CASE AjouterObservateur(i)
    <3>1. UNCHANGED thread /\ (UNCHANGED principal \/ principal' = [principal EXCEPT !.pc = "plante"])
      BY <2>7 DEF AjouterObservateur
    <3>2. principal'.pc \notin {"annuler", "join", "jeux", "vues"}
      BY <3>1 DEF Presents, IInv, Types, EstPrincipal
    <3> QED BY <2>4, <3>1, <3>2 DEF Presents
  <2>8. CASE AccepterDefi(i)
    <3>1. UNCHANGED thread /\ principal'.pc = "demarrer"
      BY <2>8 DEF AccepterDefi, Select
    <3> QED BY <2>4, <3>1 DEF Presents
  <2> QED BY <1>9, <2>5, <2>6, <2>7, <2>8 DEF Servir
<1>10. CASE Poursuivre
  <2>1. DemarrerPartie /\ UNCHANGED entree
    BY <1>10, PoursuivreReste
    DEF Presents, Poursuivre, DecalerJeux, DecalerVues, Annuler, Joindre, varsClients
  <2>2. principal'.pc \in {"select", "plante"}
    <3>1. principal' = Select \/ principal' = [principal EXCEPT !.pc = "plante"]
      BY <2>1, Zenon DEF DemarrerPartie
    <3> QED BY <3>1 DEF Select, IInv, Types, EstPrincipal
  <2>3. \/ UNCHANGED thread
        \/ \E s \in threadsLibres, t \in Threads :
             thread' = [thread EXCEPT ![t] =
                          [Repos("tour") EXCEPT !.slot = s, !.j1 = principal.defieur,
                                                !.j2 = clients[principal.i].sock]]
    BY <2>1, Zenon DEF DemarrerPartie
  <2>4. ASSUME NEW t \in Threads, NEW r, r.annule = FALSE, thread' = [thread EXCEPT ![t] = r]
        PROVE  \A u \in Threads : ~thread'[u].annule
    BY <1>4, <2>4 DEF Presents
  <2>5. ASSUME NEW s, NEW t \in Threads,
               thread' = [thread EXCEPT ![t] =
                            [Repos("tour") EXCEPT !.slot = s, !.j1 = principal.defieur,
                                                  !.j2 = clients[principal.i].sock]]
        PROVE  \A u \in Threads : ~thread'[u].annule
    <3> DEFINE r == [Repos("tour") EXCEPT !.slot = s, !.j1 = principal.defieur,
                                          !.j2 = clients[principal.i].sock]
    <3>1. r.annule = FALSE
      BY DEF Repos
    <3>2. thread' = [thread EXCEPT ![t] = r]
      BY <2>5
    <3> HIDE DEF r
    <3> QED BY <2>4, <3>1, <3>2
  <2>6. \A u \in Threads : ~thread'[u].annule
    BY <2>3, <2>5 DEF Presents
  <2> QED BY <1>3, <2>1, <2>2, <2>6 DEF Presents
<1>11. ASSUME NEW c \in Clients, Connecter(c)
       PROVE  Presents'
  BY <1>3, <1>6, <1>11 DEF Connecter, Presents
<1>12. ASSUME NEW c \in Clients, AvancerClient(c)
       PROVE  Presents'
  <2>1. UNCHANGED <<thread, principal>>
    BY <1>12, ClientServeur DEF varsServeur
  <2>2. CASE Ordinaire(c)
    BY <1>2, <1>6, <2>1, <2>2, ClientOrdinaire, EtrangersType DEF Presents
  <2>3. CASE RecoitDefi(c)
    BY <1>3, <1>6, <2>1, <2>3 DEF RecoitDefi, Presents
  <2>4. ASSUME NEW m \in Requetes, m.type # "eof", Envoyer(c, m)
        PROVE  Presents'
    <3>1. Glissent(entree, entree', {m})
      BY <2>4, EnvoyerType
    <3>2. Etrangers({m}, {"eof"})
      BY <2>4 DEF Etrangers
    <3> QED BY <1>2, <1>6, <2>1, <3>1, <3>2 DEF Presents
  <2>5. ASSUME NEW d \in Clients, Defier(c, d)
        PROVE  Presents'
    <3>1. [type |-> "defi", cible |-> d] \in Requetes
      BY DEF Requetes, Defis
    <3> QED BY <2>4, <2>5, <3>1 DEF Defier
  <2>6. CASE Accepter(c) \/ Refuser(c)
    <3>1. programme[c].defieur \in Clients \cup {Aucun}
      BY DEF TypesDialogue, Profils
    <3>2. [type |-> "accord", cible |-> programme[c].defieur] \in Requetes
          /\ [type |-> "refus", cible |-> programme[c].defieur] \in Requetes
      BY <3>1 DEF Requetes, Defis
    <3> QED BY <2>4, <2>6, <3>2 DEF Accepter, Refuser
  <2>7. ~Fermer(c)
    BY FermerNon
  <2> QED BY <1>12, <2>2, <2>3, <2>5, <2>6, <2>7, ClientSortes
<1> QED BY <1>7, <1>8, <1>9, <1>10, <1>11, <1>12 DEF Next

-----------------------------------------------------------------------------
(* Before the game. *)

\* A message of a type that is not added was there.
LEMMA GlisseVient ==
  ASSUME NEW S, NEW q \in Seq(S), NEW r \in Seq(S), NEW T, NEW X, Glisse(q, r, T), Etrangers(T, X),
         NEW k \in 1 .. Len(r), r[k].type \in X
  PROVE  \E j \in 1 .. Len(q) : r[k] = q[j]
<1>1. Len(q) \in Nat /\ Len(r) \in Nat
  BY LenProperties
<1>2. PICK d \in Nat :
        \A e \in 1 .. Len(r) : IF e + d <= Len(q) THEN r[e] = q[e + d] ELSE r[e] \in T
  BY DEF Glisse
<1>3. k + d \in 1 .. Len(q) /\ r[k] = q[k + d]
  BY <1>1, <1>2 DEF Etrangers
<1> QED BY <1>3

\* What the messages of no game may be.
Anodins == {"accord", "refus", "demande_fin", "demande_coup", "abandon", "terminer"}
ListesVides(T) == \A m \in T : m.type = "liste" => m.parties = {}

\* A step that creates no game and only adds messages of before a game.
LEMMA AvantJeuPas ==
  ASSUME TypesDialogue, TypesDialogue', AvantJeu, UNCHANGED <<thread, semParties>>,
         principal'.pc # "demarrer",
         NEW E, Glissent(entree, entree', E), Etrangers(E, {"refus"}),
         NEW T, Glissent(sortie, sortie', T), Etrangers(T, Anodins), ListesVides(T),
         \A c \in Clients : programme'[c].partie = PartieVide
                            /\ programme'[c].mode \notin {"q_fin", "q_coup"}
  PROVE  AvantJeu'
<1>1. /\ entree \in [Clients -> Seq(Requetes)] /\ entree' \in [Clients -> Seq(Requetes)]
      /\ sortie \in [Clients -> Seq(Avis)] /\ sortie' \in [Clients -> Seq(Avis)]
  BY DEF TypesDialogue
<1>2. Exempts(entree', {"refus"})
  BY <1>1, GlissentVierges DEF AvantJeu
<1>3. Exempts(sortie', {"accord", "refus", "demande_fin", "demande_coup", "abandon", "terminer"})
  <2>1. Exempts(sortie, Anodins)
    BY DEF AvantJeu, Anodins
  <2>2. Exempts(sortie', Anodins)
    BY <1>1, <2>1, GlissentVierges
  <2> QED BY <2>2 DEF Anodins
<1>4. ASSUME NEW c \in Clients, NEW k \in 1 .. Len(sortie'[c]), sortie'[c][k].type = "liste"
      PROVE  sortie'[c][k].parties = {}
  <2>1. sortie[c] \in Seq(Avis) /\ sortie'[c] \in Seq(Avis) /\ Glisse(sortie[c], sortie'[c], T)
    BY <1>1 DEF Glissent
  <2>2. Len(sortie[c]) \in Nat /\ Len(sortie'[c]) \in Nat
    BY <2>1, LenProperties
  <2>3. PICK d \in Nat :
          \A e \in 1 .. Len(sortie'[c]) :
            IF e + d <= Len(sortie[c]) THEN sortie'[c][e] = sortie[c][e + d] ELSE sortie'[c][e] \in T
    BY <2>1 DEF Glisse
  <2>4. CASE k + d <= Len(sortie[c])
    <3>1. k + d \in 1 .. Len(sortie[c]) /\ sortie'[c][k] = sortie[c][k + d]
      BY <2>2, <2>3, <2>4
    <3> QED BY <1>4, <3>1 DEF AvantJeu
  <2>5. CASE ~(k + d <= Len(sortie[c]))
    BY <1>4, <2>3, <2>5 DEF ListesVides
  <2> QED BY <2>4, <2>5
<1> QED BY <1>2, <1>3, <1>4 DEF AvantJeu, Mode

\* Nothing of the challenge changes.
LEMMA AttenteCalme ==
  ASSUME TypesDialogue, TypesDialogue', NEW a, NEW b, NEW etape \in Etapes, Attente(a, b, etape),
         AvantJeu', compteurs'.defis = compteurs.defis,
         NEW E, Glissent(entree, entree', E), Etrangers(E, {"defi", "accord"}),
         NEW T, Glissent(sortie, sortie', T), Etrangers(T, {"defi"}),
         \A c \in Clients : Mode(c) \in {"attend", "jeu"} =>
           /\ programme'[c].mode = Mode(c)
           /\ \/ entree'[c] = entree[c]
              \/ entree[c] # <<>> /\ entree'[c] = Tail(entree[c]),
         \A c \in Clients : programme'[c].mode = "sollicite" =>
           Mode(c) = "sollicite" /\ programme'[c].defieur = programme[c].defieur
  PROVE  Attente(a, b, etape)'
<1>1. /\ entree \in [Clients -> Seq(Requetes)] /\ entree' \in [Clients -> Seq(Requetes)]
      /\ sortie \in [Clients -> Seq(Avis)] /\ sortie' \in [Clients -> Seq(Avis)]
  BY DEF TypesDialogue
<1>2. etape # "aucun" => a \in Clients /\ b \in Clients /\ a # b /\ programme'[a].mode = "attend"
  BY DEF Attente
<1>3. etape \in {"transmis", "sollicite", "accepte"} => entree'[a] = <<>>
  BY DEF Attente
<1>4. etape = "accepte" => programme'[b].mode = "jeu"
  BY DEF Attente
<1>5. ASSUME NEW c \in Clients, NEW k \in 1 .. Len(entree'[c]), entree'[c][k].type \in {"defi", "accord"}
      PROVE  /\ k = Len(entree'[c])
             /\ \/ etape = "envoye" /\ c = a /\ entree'[c][k] = [type |-> "defi", cible |-> b]
                \/ etape = "accepte" /\ c = b /\ entree'[c][k] = [type |-> "accord", cible |-> a]
  <2>1. entree[c] \in Seq(Requetes) /\ entree'[c] \in Seq(Requetes) /\ Glisse(entree[c], entree'[c], E)
    BY <1>1 DEF Glissent
  <2>2. PICK j \in 1 .. Len(entree[c]) : entree'[c][k] = entree[c][j]
    BY <1>5, <2>1, GlisseVient
  <2>3. entree[c][j].type \in {"defi", "accord"}
    BY <1>5, <2>2
  <2>4. /\ j = Len(entree[c])
        /\ \/ etape = "envoye" /\ c = a /\ entree[c][j] = [type |-> "defi", cible |-> b]
           \/ etape = "accepte" /\ c = b /\ entree[c][j] = [type |-> "accord", cible |-> a]
    BY <2>3 DEF Attente
  <2>5. Mode(c) \in {"attend", "jeu"}
    BY <2>4 DEF Attente
  <2>6. k = Len(entree'[c])
    <3>1. CASE entree'[c] = entree[c]
      BY <1>5, <3>1 DEF Attente
    <3>2. CASE entree[c] # <<>> /\ entree'[c] = Tail(entree[c])
      <4>1. /\ Len(entree[c]) \in Nat \ {0} /\ Len(entree'[c]) = Len(entree[c]) - 1
            /\ \A e \in 1 .. Len(entree[c]) - 1 : Tail(entree[c])[e] = entree[c][e + 1]
        BY <2>1, <3>2, QueueFile
      <4>2. k + 1 \in 1 .. Len(entree[c]) /\ entree[c][k + 1].type \in {"defi", "accord"}
        BY <1>5, <3>2, <4>1
      <4>3. k + 1 = Len(entree[c])
        BY <4>2 DEF Attente
      <4> QED BY <4>1, <4>3
    <3> QED BY <2>5, <3>1, <3>2
  <2> QED BY <2>2, <2>4, <2>6
<1>6. ASSUME NEW c \in Clients, NEW k \in 1 .. Len(sortie'[c]), sortie'[c][k].type = "defi"
      PROVE  etape = "transmis" /\ c = b /\ sortie'[c][k].cible = a
  <2>1. sortie[c] \in Seq(Avis) /\ sortie'[c] \in Seq(Avis) /\ Glisse(sortie[c], sortie'[c], T)
    BY <1>1 DEF Glissent
  <2>2. sortie'[c][k].type \in {"defi"}
    BY <1>6
  <2>3. PICK j \in 1 .. Len(sortie[c]) : sortie'[c][k] = sortie[c][j]
    BY <2>1, <2>2, GlisseVient
  <2> QED BY <1>6, <2>3 DEF Attente
<1>7. \A c \in Clients : Unique(sortie'[c], {"defi"})
  BY <1>1, GlissentVierges DEF Attente
<1>8. \A c \in Clients : programme'[c].mode = "sollicite" =>
        etape = "sollicite" /\ c = b /\ programme'[c].defieur = a
  BY DEF Attente
<1>9. compteurs'.defis = 0 <=> etape = "aucun"
  BY DEF Attente
<1> QED BY <1>2, <1>3, <1>4, <1>5, <1>6, <1>7, <1>8, <1>9 DEF Attente, Mode

\* A thread that was not created does not run.
LEMMA ThreadNeuf ==
  ASSUME Presents, NEW t \in Threads, thread[t].pc = "neuf"
  PROVE  ~AvancerThread(t)
BY DEF Presents, AvancerThread, Tour, MessageIgnore, LireFin, LireCoup, ContinuerPartie,
   TerminerPartie, AnnoncerVainqueur, FinirAbandon, Annulation, Parcourir, AnnoncerFin, Effacer,
   Reconnaitre, Detacher, Reprendre, FinThread, AuTour

\* No thread runs.
LEMMA AttenteThread ==
  ASSUME AvantJeu, Presents, NEW t \in Threads
  PROVE  ~AvancerThread(t)
BY ThreadNeuf DEF AvantJeu

\* Before the first game no client is routed to a game, and every slot is free.
LEMMA ToutLibre ==
  ASSUME IInv, \A t \in Threads : thread[t].pc = "neuf"
  PROVE  /\ \A i \in Places : clientsInGame[i] = Aucun
         /\ threadsLibres = Slots
         /\ \A t \in Threads : ~Actif(t)
<1>1. \A s \in Slots : threads_partie[s] \in Threads \cup {Aucun}
  BY DEF IInv, Types, TypeInvariant
<1>2. \A s \in Slots : threads_partie[s] = Aucun
  BY <1>1 DEF IInv, SlotsEnRoute
<1>3. \A i \in Places : clientsInGame[i] \in Slots \cup {Aucun}
  BY DEF IInv, Types, TypeInvariant
<1>4. Aucun \notin Threads
  BY DEF Aucun, Threads
<1>5. \A i \in Places : clientsInGame[i] = Aucun
  BY <1>2, <1>3, <1>4 DEF IInv, Routage
<1>6. threadsLibres = Slots
  BY <1>2 DEF IInv, UnePartieParSlot, Types, TypeInvariant
<1> QED BY <1>5, <1>6 DEF Actif

\* In particular before the accept is handled.
LEMMA AttenteLibre ==
  ASSUME IInv, AvantJeu
  PROVE  /\ \A i \in Places : clientsInGame[i] = Aucun
         /\ threadsLibres = Slots
         /\ \A t \in Threads : ~Actif(t)
BY ToutLibre DEF AvantJeu

\* An ordinary step of a client program, before the game.
LEMMA AttenteOrdinaire ==
  ASSUME IInv, TypesDialogue, TypesDialogue', NEW a, NEW b, NEW etape \in Etapes,
         Attente(a, b, etape), NEW c \in Clients, Ordinaire(c), AvancerClient(c)
  PROVE  Attente(a, b, etape)'
<1>1. AvantJeu
  BY DEF Attente
<1>2. Mode(c) \notin {"q_fin", "q_coup"} /\ programme[c].partie = PartieVide /\ programme[c] \in Profils
  BY <1>1 DEF AvantJeu, TypesDialogue
<1>3. /\ Glissent(entree, entree', RequetesCalmes) /\ Glissent(sortie, sortie', {})
      /\ compteurs'.defis = compteurs.defis
      /\ Mode(c) # "sollicite" /\ programme'[c].mode # "sollicite"
  BY ClientOrdinaire
<1>4. Seul(c) /\ UNCHANGED <<thread, semParties>> /\ principal'.pc # "demarrer"
  BY <1>1, ClientDialoguePas, ClientServeur DEF varsServeur, varsMessages, AvantJeu
<1> DEFINE Calme ==
      /\ programme'[c].partie = PartieVide
      /\ programme'[c].mode \notin {"q_fin", "q_coup"}
      /\ Mode(c) \in {"attend", "jeu"} => programme'[c].mode = Mode(c) /\ entree'[c] = entree[c]
<1>5. ASSUME NEW type, Recoit(c, type)
      PROVE  type \notin Anodins /\ sortie[c][1].type = type /\ Head(sortie[c]) = sortie[c][1]
             /\ 1 \in 1 .. Len(sortie[c])
  <2>1. sortie[c][1].type = type /\ Len(sortie[c]) \in Nat \ {0} /\ Head(sortie[c]) = sortie[c][1]
    BY <1>5, RecoitType
  <2>2. 1 \in 1 .. Len(sortie[c])
    BY <2>1
  <2> QED BY <1>1, <2>1, <2>2 DEF AvantJeu, Exempts, Vierge, Anodins
<1>6. ~RecoitAccord(c) /\ ~RecoitRefus(c) /\ ~RecoitQuestion(c) /\ ~RecoitFinDePartie(c)
  BY <1>5 DEF RecoitAccord, RecoitRefus, RecoitQuestion, RecoitFinDePartie, Anodins
<1>7. ~RepondreFin(c) /\ ~RepondreCoup(c)
  BY <1>2 DEF RepondreFin, RepondreCoup, Est
<1>8. ASSUME DemanderParties(c)
      PROVE  Calme
  <2>1. Mode(c) = "menu" /\ Passer(c, "liste") /\ "liste" \in Modes
    BY <1>8 DEF DemanderParties, Est, Modes
  <2>2. programme'[c].mode = "liste" /\ programme'[c].partie = programme[c].partie
    BY <2>1, PasserType
  <2>3. Calme
    BY <1>2, <2>1, <2>2
  <2> QED BY <2>3
<1>9. ASSUME RecoitListe(c)
      PROVE  Calme
  <2>1. Recoit(c, "liste")
    BY <1>9 DEF RecoitListe
  <2>2. Head(sortie[c]).parties = {}
    BY <1>1, <1>5, <2>1 DEF AvantJeu
  <2>3. Passer(c, IF Mode(c) = "liste" THEN "menu" ELSE Mode(c)) /\ UNCHANGED entree
    BY <1>9, <2>2 DEF RecoitListe
  <2>4. (IF Mode(c) = "liste" THEN "menu" ELSE Mode(c)) \in Modes
    BY ModeType DEF Modes
  <2>5. /\ programme'[c].mode = IF Mode(c) = "liste" THEN "menu" ELSE Mode(c)
        /\ programme'[c].partie = programme[c].partie
    BY <2>3, <2>4, PasserType
  <2>6. Calme
    BY <1>2, <2>3, <2>5
  <2> QED BY <2>6
<1>10. ASSUME RecoitFinObservation(c)
       PROVE  Calme
  <2>1. UNCHANGED <<entree, programme>>
    BY <1>2, <1>10 DEF RecoitFinObservation
  <2>2. Calme
    BY <1>2, <2>1 DEF Mode
  <2> QED BY <2>2
<1>11. ASSUME QuitterObservation(c)
       PROVE  Calme
  <2>1. Mode(c) = "observe" /\ FinObservation(c)
    BY <1>11 DEF QuitterObservation, Est
  <2>2. programme'[c].mode = "menu" /\ programme'[c].partie = PartieVide
    BY <2>1, FinObservationType
  <2>3. Calme
    BY <2>1, <2>2
  <2> QED BY <2>3
<1>12. Calme
  BY <1>6, <1>7, <1>8, <1>9, <1>10, <1>11 DEF Ordinaire
<1>13. \A d \in Clients : programme'[d].partie = PartieVide /\ programme'[d].mode \notin {"q_fin", "q_coup"}
  BY <1>1, <1>4, <1>12 DEF AvantJeu, Seul, Mode
<1>14. \A d \in Clients : Mode(d) \in {"attend", "jeu"} =>
         programme'[d].mode = Mode(d) /\ entree'[d] = entree[d]
  BY <1>4, <1>12 DEF Seul, Mode
<1>15. \A d \in Clients : programme'[d].mode = "sollicite" =>
         Mode(d) = "sollicite" /\ programme'[d].defieur = programme[d].defieur
  BY <1>3, <1>4 DEF Seul, Mode
<1>16. Etrangers({}, Anodins) /\ ListesVides({}) /\ Etrangers({}, {"defi"})
  BY DEF Etrangers, ListesVides
<1>17. AvantJeu'
  BY <1>1, <1>3, <1>4, <1>13, <1>16, EtrangersType, AvantJeuPas
<1> QED BY <1>3, <1>14, <1>15, <1>16, <1>17, EtrangersType, AttenteCalme

\* A client connects.
LEMMA AttenteConnecter ==
  ASSUME IInv, TypesDialogue, TypesDialogue', NEW a, NEW b, NEW etape \in Etapes,
         Attente(a, b, etape), NEW c \in Clients, Connecter(c)
  PROVE  Attente(a, b, etape)'
<1>1. AvantJeu
  BY DEF Attente
<1>2. /\ Mode(c) = "hors" /\ programme' = [programme EXCEPT ![c] = Programme("menu")]
      /\ UNCHANGED <<entree, sortie, compteurs, thread, semParties, principal>>
  BY DEF Connecter, Mode, varsMessages
<1>3. /\ Programme("menu").mode = "menu" /\ Programme("menu").partie = PartieVide
  BY DEF Programme
<1>4. /\ programme'[c].mode = "menu" /\ programme'[c].partie = PartieVide
      /\ \A d \in Clients : d # c => programme'[d] = programme[d]
  BY <1>2, <1>3 DEF TypesDialogue
<1>5. Etrangers({}, {"refus"}) /\ Etrangers({}, Anodins) /\ ListesVides({})
      /\ Etrangers({}, {"defi"}) /\ Etrangers({}, {"defi", "accord"})
  BY DEF Etrangers, ListesVides
<1>6. Glissent(entree, entree', {}) /\ Glissent(sortie, sortie', {})
  BY <1>2, GlissentMeme DEF TypesDialogue
<1>7. \A d \in Clients : programme'[d].partie = PartieVide /\ programme'[d].mode \notin {"q_fin", "q_coup"}
  BY <1>1, <1>4 DEF AvantJeu, Mode
<1>8. /\ UNCHANGED <<thread, semParties>> /\ compteurs'.defis = compteurs.defis
      /\ principal'.pc # "demarrer"
  BY <1>1, <1>2 DEF AvantJeu
<1>9. AvantJeu'
  BY <1>1, <1>5, <1>6, <1>7, <1>8, AvantJeuPas
<1>10. \A d \in Clients : Mode(d) \in {"attend", "jeu"} =>
           /\ programme'[d].mode = Mode(d)
           /\ entree'[d] = entree[d]
  BY <1>2, <1>4 DEF Mode
<1>11. \A d \in Clients : programme'[d].mode = "sollicite" =>
           Mode(d) = "sollicite" /\ programme'[d].defieur = programme[d].defieur
  BY <1>4 DEF Mode
<1> QED BY <1>5, <1>6, <1>8, <1>9, <1>10, <1>11, AttenteCalme

\* A client sends a message other than a refusal, before the game.
LEMMA AvantJeuEnvoyer ==
  ASSUME TypesDialogue, TypesDialogue', AvantJeu, UNCHANGED <<thread, semParties, principal, sortie>>,
         NEW c \in Clients, NEW m \in Requetes, m.type # "refus", Envoyer(c, m),
         programme'[c].partie = programme[c].partie, programme'[c].mode \notin {"q_fin", "q_coup"},
         \A d \in Clients : d # c => programme'[d] = programme[d]
  PROVE  AvantJeu'
<1>1. Glissent(entree, entree', {m}) /\ Etrangers({m}, {"refus"})
  BY EnvoyerType DEF Etrangers
<1>2. Glissent(sortie, sortie', {}) /\ Etrangers({}, Anodins) /\ ListesVides({})
  BY GlissentMeme DEF TypesDialogue, Etrangers, ListesVides
<1>3. \A d \in Clients : programme'[d].partie = PartieVide /\ programme'[d].mode \notin {"q_fin", "q_coup"}
  BY DEF AvantJeu, Mode
<1>4. principal'.pc # "demarrer"
  BY DEF AvantJeu
<1> QED BY <1>1, <1>2, <1>3, <1>4, AvantJeuPas

\* The challenge is sent.
LEMMA AttenteDefier ==
  ASSUME IInv, TypesDialogue, TypesDialogue', Tranquille', NEW a, NEW b, NEW etape \in Etapes,
         Attente(a, b, etape), NEW c \in Clients, NEW d \in Clients, Defier(c, d)
  PROVE  Attente(c, d, "envoye")'
<1> DEFINE m == [type |-> "defi", cible |-> d]
<1>1. m \in Requetes /\ m.type = "defi"
  BY DEF Requetes, Defis
<1>2. /\ Mode(c) = "menu" /\ Envoyer(c, m) /\ Passer(c, "attend")
      /\ compteurs' = [compteurs EXCEPT !.defis = @ + 1] /\ c # d
      /\ UNCHANGED <<thread, semParties, principal, sortie>>
  BY DEF Defier, Est, varsServeur, varsMessages
<1>3. "attend" \in Modes
  BY DEF Modes, EnPartie
<1>4. /\ programme'[c].mode = "attend" /\ programme'[c].partie = programme[c].partie
      /\ \A e \in Clients : e # c => programme'[e] = programme[e]
  BY <1>2, <1>3, PasserType
<1>5. AvantJeu
  BY DEF Attente
<1>6. AvantJeu'
  <2>1. m.type # "refus" /\ programme'[c].mode \notin {"q_fin", "q_coup"}
    BY <1>1, <1>4
  <2> HIDE DEF m
  <2> QED BY <1>1, <1>2, <1>4, <1>5, <2>1, AvantJeuEnvoyer
<1>7. compteurs.defis \in Nat /\ compteurs'.defis = compteurs.defis + 1 /\ compteurs'.defis <= 1
  BY <1>2, ServeurAssumption DEF IInv, Types, TypeInvariant, Tranquille
<1>8. etape = "aucun" /\ compteurs'.defis # 0
  BY <1>7 DEF Attente
<1>9. \A e \in Clients : \A k \in 1 .. Len(entree[e]) : entree[e][k].type \notin {"defi", "accord"}
  BY <1>8 DEF Attente
<1>10. /\ entree'[c] = Append(entree[c], m)
       /\ \A e \in Clients : e # c => entree'[e] = entree[e]
  <2> HIDE DEF m
  <2> QED BY <1>1, <1>2, EnvoyerType
<1>11. /\ Len(entree[c]) \in Nat /\ Len(entree'[c]) = Len(entree[c]) + 1
       /\ \A k \in 1 .. Len(entree[c]) : entree'[c][k] = entree[c][k]
       /\ entree'[c][Len(entree[c]) + 1] = m
  <2>1. entree[c] \in Seq(Requetes)
    BY DEF TypesDialogue
  <2> HIDE DEF m
  <2> QED BY <1>1, <1>10, <2>1, AjoutFile
<1>12. ASSUME NEW e \in Clients, NEW k \in 1 .. Len(entree'[e]), entree'[e][k].type \in {"defi", "accord"}
       PROVE  k = Len(entree'[e]) /\ e = c /\ entree'[e][k] = m
  <2>1. e = c
    BY <1>9, <1>10, <1>12
  <2>2. k \notin 1 .. Len(entree[c])
    BY <1>9, <1>11, <1>12, <2>1
  <2>3. k = Len(entree[c]) + 1
    BY <1>11, <2>1, <2>2
  <2> QED BY <1>11, <2>1, <2>3
<1>13. /\ \A e \in Clients : \A k \in 1 .. Len(sortie'[e]) : sortie'[e][k].type # "defi"
       /\ \A e \in Clients : Unique(sortie'[e], {"defi"})
  BY <1>2, <1>8 DEF Attente
<1>14. \A e \in Clients : programme'[e].mode # "sollicite"
  BY <1>4, <1>8 DEF Attente, Mode
<1> QED BY <1>2, <1>4, <1>6, <1>8, <1>12, <1>13, <1>14 DEF Attente, Mode

\* The challenge is shown.
LEMMA AttenteRecoitDefi ==
  ASSUME IInv, TypesDialogue, TypesDialogue', NEW a, NEW b, NEW etape \in Etapes,
         Attente(a, b, etape), NEW c \in Clients, RecoitDefi(c)
  PROVE  Attente(a, b, "sollicite")'
<1>1. /\ Recoit(c, "defi") /\ UNCHANGED <<thread, semParties, principal, entree, compteurs>>
      /\ programme' = [programme EXCEPT
             ![c].mode = "sollicite", ![c].defieur = Head(sortie[c]).cible,
             ![c].retour = IF Mode(c) = "jeu" THEN "jeu" ELSE "menu"]
  BY DEF RecoitDefi, varsServeur, varsMessages
<1>2. /\ sortie' \in [Clients -> Seq(Avis)] /\ Glissent(sortie, sortie', {})
      /\ Len(sortie[c]) \in Nat \ {0} /\ Head(sortie[c]) = sortie[c][1] /\ sortie[c][1].type = "defi"
      /\ sortie'[c] = Tail(sortie[c])
      /\ \A d \in Clients : d # c => sortie'[d] = sortie[d]
      /\ Mode(c) # "sollicite"
  BY <1>1, RecoitType
<1>3. etape = "transmis" /\ c = b /\ sortie[c][1].cible = a
  BY <1>2 DEF Attente
<1>4. /\ programme'[c].mode = "sollicite" /\ programme'[c].defieur = a
      /\ programme'[c].partie = programme[c].partie
      /\ \A d \in Clients : d # c => programme'[d] = programme[d]
  BY <1>1, <1>2, <1>3 DEF TypesDialogue, Profils
<1>5. AvantJeu
  BY DEF Attente
<1>6. AvantJeu'
  <2>1. Glissent(entree, entree', {}) /\ Etrangers({}, {"refus"}) /\ Etrangers({}, Anodins) /\ ListesVides({})
    BY <1>1, GlissentMeme DEF TypesDialogue, Etrangers, ListesVides
  <2>2. \A d \in Clients : programme'[d].partie = PartieVide
                           /\ programme'[d].mode \notin {"q_fin", "q_coup"}
    BY <1>4, <1>5 DEF AvantJeu, Mode
  <2>3. principal'.pc # "demarrer"
    BY <1>1, <1>5 DEF AvantJeu
  <2> QED BY <1>1, <1>2, <1>5, <2>1, <2>2, <2>3, AvantJeuPas
<1>7. \A k \in 1 .. Len(sortie'[c]) : sortie'[c][k].type # "defi"
  <2>1. sortie[c] \in Seq(Avis) /\ sortie[c] # <<>>
    BY <1>1 DEF TypesDialogue, Recoit
  <2>2. /\ Len(sortie'[c]) = Len(sortie[c]) - 1
        /\ \A k \in 1 .. Len(sortie[c]) - 1 : sortie'[c][k] = sortie[c][k + 1]
    BY <1>2, <2>1, QueueFile
  <2>3. ASSUME NEW k \in 1 .. Len(sortie'[c]), sortie'[c][k].type = "defi"
        PROVE  FALSE
    <3>1. k + 1 \in 1 .. Len(sortie[c]) /\ 1 \in 1 .. Len(sortie[c]) /\ k + 1 # 1
          /\ sortie[c][k + 1].type = "defi"
      BY <1>2, <2>2, <2>3
    <3>2. Unique(sortie[c], {"defi"})
      BY DEF Attente
    <3> QED BY <1>2, <3>1, <3>2 DEF Unique
  <2> QED BY <2>3
<1>8. /\ \A d \in Clients : \A k \in 1 .. Len(sortie'[d]) : sortie'[d][k].type # "defi"
  BY <1>2, <1>3, <1>7 DEF Attente
<1>9. /\ \A d \in Clients : Unique(sortie'[d], {"defi"})
  BY <1>8 DEF Unique
<1>10. \A d \in Clients : \A k \in 1 .. Len(entree'[d]) : entree'[d][k].type \notin {"defi", "accord"}
  BY <1>1, <1>3 DEF Attente
<1>11. /\ a \in Clients /\ b \in Clients /\ a # b /\ Mode(a) = "attend" /\ entree'[a] = <<>>
       /\ compteurs'.defis # 0
  BY <1>1, <1>3 DEF Attente
<1>12. \A d \in Clients : programme'[d].mode = "sollicite" => d = b /\ programme'[d].defieur = a
  BY <1>3, <1>4 DEF Attente, Mode
<1> QED BY <1>3, <1>4, <1>6, <1>8, <1>9, <1>10, <1>11, <1>12 DEF Attente, Mode

\* The user accepts.
LEMMA AttenteAccepter ==
  ASSUME IInv, TypesDialogue, TypesDialogue', NEW a, NEW b, NEW etape \in Etapes,
         Attente(a, b, etape), NEW c \in Clients, Accepter(c)
  PROVE  Attente(a, b, "accepte")'
<1> DEFINE m == [type |-> "accord", cible |-> a]
<1>1. /\ Mode(c) = "sollicite" /\ Envoyer(c, [type |-> "accord", cible |-> programme[c].defieur])
      /\ Repondre(c, "jeu") /\ UNCHANGED <<thread, semParties, principal, sortie, compteurs>>
  BY DEF Accepter, Est, varsServeur, varsMessages
<1>2. etape = "sollicite" /\ c = b /\ programme[c].defieur = a
  BY <1>1 DEF Attente
<1>3. /\ a \in Clients /\ b \in Clients /\ a # b /\ Mode(a) = "attend" /\ entree[a] = <<>>
      /\ compteurs.defis # 0
  BY <1>2 DEF Attente
<1>4. Envoyer(c, m) /\ m \in Requetes /\ m.type = "accord"
  BY <1>1, <1>2, <1>3 DEF Requetes, Defis
<1>5. "jeu" \in Modes
  BY DEF Modes, EnPartie
<1>6. /\ programme'[c].mode = "jeu" /\ programme'[c].partie = programme[c].partie
      /\ \A e \in Clients : e # c => programme'[e] = programme[e]
  BY <1>1, <1>5, RepondreType
<1>7. AvantJeu
  BY DEF Attente
<1>8. AvantJeu'
  <2>1. m.type # "refus" /\ programme'[c].mode \notin {"q_fin", "q_coup"}
    BY <1>4, <1>6
  <2> HIDE DEF m
  <2> QED BY <1>1, <1>4, <1>6, <1>7, <2>1, AvantJeuEnvoyer
<1>9. \A e \in Clients : \A k \in 1 .. Len(entree[e]) : entree[e][k].type \notin {"defi", "accord"}
  BY <1>2 DEF Attente
<1>10. /\ entree'[c] = Append(entree[c], m)
       /\ \A e \in Clients : e # c => entree'[e] = entree[e]
  <2> HIDE DEF m
  <2> QED BY <1>4, EnvoyerType
<1>11. /\ Len(entree[c]) \in Nat /\ Len(entree'[c]) = Len(entree[c]) + 1
       /\ \A k \in 1 .. Len(entree[c]) : entree'[c][k] = entree[c][k]
       /\ entree'[c][Len(entree[c]) + 1] = m
  <2>1. entree[c] \in Seq(Requetes)
    BY DEF TypesDialogue
  <2> HIDE DEF m
  <2> QED BY <1>4, <1>10, <2>1, AjoutFile
<1>12. ASSUME NEW e \in Clients, NEW k \in 1 .. Len(entree'[e]), entree'[e][k].type \in {"defi", "accord"}
       PROVE  k = Len(entree'[e]) /\ e = b /\ entree'[e][k] = m
  <2>1. e = c
    BY <1>9, <1>10, <1>12
  <2>2. k \notin 1 .. Len(entree[c])
    BY <1>9, <1>11, <1>12, <2>1
  <2>3. k = Len(entree[c]) + 1
    BY <1>11, <2>1, <2>2
  <2> QED BY <1>2, <1>11, <2>1, <2>3
<1>13. /\ \A e \in Clients : \A k \in 1 .. Len(sortie'[e]) : sortie'[e][k].type # "defi"
       /\ \A e \in Clients : Unique(sortie'[e], {"defi"})
  BY <1>1, <1>2 DEF Attente
<1>14. \A e \in Clients : programme'[e].mode # "sollicite"
  BY <1>2, <1>6 DEF Attente, Mode
<1>15. entree'[a] = <<>> /\ programme'[a].mode = "attend"
  BY <1>2, <1>3, <1>6, <1>10 DEF Mode
<1> QED BY <1>1, <1>2, <1>3, <1>6, <1>8, <1>12, <1>13, <1>14, <1>15 DEF Attente, Mode

\* Nothing of the challenge is left once it is answered.
LEMMA AttenteClos ==
  ASSUME TypesDialogue', AvantJeu, Tranquille', UNCHANGED <<thread, principal>>, compteurs'.defis # 0, compteurs'.defis \in Nat,
         Exempts(entree', {"defi", "accord"}), Exempts(sortie', {"defi"}),
         \A c \in Clients : programme'[c].mode # "sollicite"
  PROVE  Clos'
<1>1. compteurs'.defis = 1
  BY DEF Tranquille
<1>2. \A t \in Threads : ~Actif(t)'
  BY DEF AvantJeu, Actif
<1>3. principal'.pc # "demarrer"
  BY DEF AvantJeu
<1> QED BY <1>1, <1>2, <1>3 DEF Clos, SansDefi, Mode

\* The user refuses.
LEMMA AttenteRefuser ==
  ASSUME IInv, TypesDialogue, TypesDialogue', Tranquille', NEW a, NEW b, NEW etape \in Etapes,
         Attente(a, b, etape), NEW c \in Clients, Refuser(c)
  PROVE  Clos'
<1> DEFINE m == [type |-> "refus", cible |-> programme[c].defieur]
<1>1. /\ Mode(c) = "sollicite" /\ Envoyer(c, m) /\ Repondre(c, programme[c].retour)
      /\ UNCHANGED <<thread, principal, sortie, compteurs>>
  BY DEF Refuser, Est, varsServeur
<1>2. etape = "sollicite" /\ c = b
  BY <1>1 DEF Attente
<1>3. programme[c] \in Profils
  BY DEF TypesDialogue
<1>4. m \in Requetes /\ m.type = "refus"
  BY <1>3 DEF Requetes, Defis, Profils
<1>5. programme[c].retour \in {"menu", "jeu"} /\ programme[c].retour \in Modes
  BY <1>3 DEF Profils, Modes, EnPartie
<1>6. /\ programme'[c].mode # "sollicite"
      /\ \A e \in Clients : e # c => programme'[e] = programme[e]
  BY <1>1, <1>5, RepondreType
<1>7. Exempts(entree', {"defi", "accord"})
  <2>1. Glissent(entree, entree', {m}) /\ Etrangers({m}, {"defi", "accord"})
    <3>1. Etrangers({m}, {"defi", "accord"})
      BY <1>4 DEF Etrangers
    <3> HIDE DEF m
    <3>2. Glissent(entree, entree', {m})
      BY <1>1, <1>4, EnvoyerType
    <3> QED BY <3>1, <3>2
  <2>2. Exempts(entree, {"defi", "accord"})
    BY <1>2 DEF Attente, Exempts, Vierge
  <2>3. entree \in [Clients -> Seq(Requetes)] /\ entree' \in [Clients -> Seq(Requetes)]
    BY DEF TypesDialogue
  <2> HIDE DEF m
  <2> QED BY <2>1, <2>2, <2>3, GlissentVierges
<1>8. Exempts(sortie', {"defi"})
  BY <1>1, <1>2 DEF Attente, Exempts, Vierge
<1>9. \A d \in Clients : programme'[d].mode # "sollicite"
  BY <1>2, <1>6 DEF Attente, Mode
<1>10. AvantJeu /\ compteurs'.defis # 0 /\ compteurs'.defis \in Nat
  BY <1>1, <1>2 DEF Attente, IInv, Types, TypeInvariant
<1> QED BY <1>1, <1>7, <1>8, <1>9, <1>10, AttenteClos

\* A challenge or an accept that is read is the only message of its sender.
LEMMA DernierLu ==
  ASSUME IInv, TypesDialogue, NEW a, NEW b, NEW etape \in Etapes, Attente(a, b, etape),
         NEW i \in Places, Pret(i), Lire(i), Lu(i).type \in {"defi", "accord"}
  PROVE  LET c == clients[i].sock IN
         /\ c \in Clients /\ i \in 1..nbClients
         /\ \/ etape = "envoye" /\ c = a /\ Lu(i) = [type |-> "defi", cible |-> b]
            \/ etape = "accepte" /\ c = b /\ Lu(i) = [type |-> "accord", cible |-> a]
         /\ entree'[c] = <<>>
         /\ \A d \in Clients : d # c => entree'[d] = entree[d]
         /\ Exempts(entree', {"defi", "accord"})
<1> DEFINE c == clients[i].sock
<1>1. /\ i \in 1..nbClients /\ c \in Clients /\ entree[c] # <<>> /\ Len(entree[c]) \in Nat \ {0}
      /\ Lu(i) = entree[c][1] /\ entree' \in [Clients -> Seq(Requetes)]
      /\ entree'[c] = Tail(entree[c]) /\ \A d \in Clients : d # c => entree'[d] = entree[d]
  BY LireType
<1>2. /\ 1 = Len(entree[c])
      /\ \/ etape = "envoye" /\ c = a /\ entree[c][1] = [type |-> "defi", cible |-> b]
         \/ etape = "accepte" /\ c = b /\ entree[c][1] = [type |-> "accord", cible |-> a]
  <2>1. 1 \in 1 .. Len(entree[c]) /\ entree[c][1].type \in {"defi", "accord"}
    BY <1>1
  <2> QED BY <1>1, <2>1 DEF Attente
<1>3. entree'[c] = <<>>
  <2>1. entree[c] \in Seq(Requetes)
    BY <1>1 DEF TypesDialogue
  <2>2. Tail(entree[c]) \in Seq(Requetes) /\ Len(Tail(entree[c])) = Len(entree[c]) - 1
    BY <1>1, <2>1, QueueFile
  <2>3. Len(Tail(entree[c])) = 0
    BY <1>1, <1>2, <2>2
  <2>4. Tail(entree[c]) = <<>>
    BY <2>2, <2>3, FileVide
  <2> QED BY <1>1, <2>4
<1>4. Exempts(entree', {"defi", "accord"})
  <2>1. ASSUME NEW d \in Clients, d # c, NEW k \in 1 .. Len(entree[d]), entree[d][k].type \in {"defi", "accord"}
        PROVE  FALSE
    <3>1. \/ etape = "envoye" /\ d = a
          \/ etape = "accepte" /\ d = b
      BY <2>1 DEF Attente
    <3> QED BY <1>2, <2>1, <3>1
  <2>2. Len(entree'[c]) = 0
    BY <1>3
  <2>3. ASSUME NEW d \in Clients
        PROVE  Vierge(entree'[d], {"defi", "accord"})
    <3>1. CASE d = c
      BY <2>2, <3>1 DEF Vierge
    <3>2. CASE d # c
      <4>1. entree'[d] = entree[d]
        BY <1>1, <3>2
      <4> QED BY <2>1, <3>2, <4>1 DEF Vierge
    <3> QED BY <3>1, <3>2
  <2> QED BY <2>3 DEF Exempts
<1> QED BY <1>1, <1>2, <1>3, <1>4

\* The server passes the challenge on.
LEMMA AttenteTransmettre ==
  ASSUME IInv, TypesDialogue, TypesDialogue', Tranquille', NEW a, NEW b, NEW etape \in Etapes,
         Attente(a, b, etape), NEW i \in Places, TransmettreDefi(i)
  PROVE  Attente(a, b, "transmis")' \/ Clos'
<1> DEFINE c == clients[i].sock
           m == [type |-> "defi", cible |-> c]
<1>1. Transmettre(i, "defi", 1) /\ UNCHANGED <<thread, semParties, principal, programme, compteurs>>
  BY DEF TransmettreDefi, varsMessages
<1>2. Pret(i) /\ Lire(i) /\ Lu(i).type = "defi" /\ Glissent(sortie, sortie', {m})
  <2>1. "defi" \in Defis
    BY DEF Defis
  <2> QED BY <1>1, <2>1, TransmettreDialogue
<1>3. /\ etape = "envoye" /\ c = a /\ Lu(i).cible = b
      /\ entree'[a] = <<>> /\ Exempts(entree', {"defi", "accord"})
  BY <1>2, DernierLu
<1>4. /\ a \in Clients /\ b \in Clients /\ a # b /\ Mode(a) = "attend" /\ AvantJeu /\ compteurs.defis # 0
      /\ \A d \in Clients : \A k \in 1 .. Len(sortie[d]) : sortie[d][k].type # "defi"
      /\ \A d \in Clients : Mode(d) # "sollicite"
  BY <1>3 DEF Attente
<1>5. AvantJeu'
  <2>1. Glissent(entree, entree', {}) /\ Etrangers({}, {"refus"})
    BY <1>2, LireType DEF Etrangers
  <2>2. Etrangers({m}, Anodins) /\ ListesVides({m})
    BY DEF Etrangers, Anodins, ListesVides
  <2>3. \A d \in Clients : programme'[d].partie = PartieVide /\ programme'[d].mode \notin {"q_fin", "q_coup"}
    BY <1>1, <1>4 DEF AvantJeu, Mode
  <2>4. principal'.pc # "demarrer"
    BY <1>1, <1>4 DEF AvantJeu
  <2> HIDE DEF m
  <2> QED BY <1>1, <1>2, <1>4, <2>1, <2>2, <2>3, <2>4, AvantJeuPas
<1>6. CASE UNCHANGED sortie
  <2>1. Exempts(sortie', {"defi"})
    BY <1>4, <1>6 DEF Exempts, Vierge
  <2>2. compteurs'.defis # 0 /\ compteurs'.defis \in Nat
    BY <1>1, <1>4 DEF IInv, Types, TypeInvariant
  <2>3. \A d \in Clients : programme'[d].mode # "sollicite"
    BY <1>1, <1>4 DEF Mode
  <2> QED BY <1>1, <1>3, <1>4, <2>1, <2>2, <2>3, AttenteClos
<1>7. CASE sortie' = [sortie EXCEPT ![b] = Append(@, m)]
  <2>1. m \in Avis /\ m.type = "defi" /\ m.cible = a /\ sortie \in [Clients -> Seq(Avis)]
    BY <1>3, <1>4 DEF Avis, Defis, TypesDialogue
  <2> HIDE DEF m
  <2>2. /\ sortie'[b] = Append(sortie[b], m) /\ sortie[b] \in Seq(Avis)
        /\ \A d \in Clients : d # b => sortie'[d] = sortie[d]
    BY <1>4, <1>7, <2>1
  <2>3. /\ Len(sortie[b]) \in Nat /\ Len(sortie'[b]) = Len(sortie[b]) + 1
        /\ \A k \in 1 .. Len(sortie[b]) : sortie'[b][k] = sortie[b][k]
        /\ sortie'[b][Len(sortie[b]) + 1] = m
    BY <2>1, <2>2, AjoutFile
  <2>4. ASSUME NEW d \in Clients, NEW k \in 1 .. Len(sortie'[d]), sortie'[d][k].type = "defi"
        PROVE  d = b /\ k = Len(sortie[b]) + 1 /\ sortie'[d][k].cible = a
    <3>1. d = b
      BY <1>4, <2>2, <2>4
    <3>2. k \notin 1 .. Len(sortie[b])
      BY <1>4, <2>3, <2>4, <3>1
    <3>3. k = Len(sortie[b]) + 1
      BY <2>3, <3>1, <3>2
    <3> QED BY <2>1, <2>3, <3>1, <3>3
  <2>5. \A d \in Clients : Unique(sortie'[d], {"defi"})
    BY <2>4 DEF Unique
  <2>6. \A d \in Clients : \A k \in 1 .. Len(entree'[d]) : entree'[d][k].type \notin {"defi", "accord"}
    BY <1>3 DEF Exempts, Vierge
  <2>7. programme'[a].mode = "attend" /\ compteurs'.defis # 0
        /\ \A d \in Clients : programme'[d].mode # "sollicite"
    BY <1>1, <1>4 DEF Mode
  <2>8. Attente(a, b, "transmis")'
    BY <1>3, <1>4, <1>5, <2>4, <2>5, <2>6, <2>7 DEF Attente, Mode
  <2> QED BY <2>8
<1>8. UNCHANGED sortie \/ sortie' = [sortie EXCEPT ![b] = Append(@, m)]
  BY <1>1, <1>3 DEF Transmettre, Poster
<1> QED BY <1>6, <1>7, <1>8

\* The server reads the accept, and is about to start the game.
LEMMA AttenteAccord ==
  ASSUME IInv, TypesDialogue, TypesDialogue', Tranquille', NEW a, NEW b, NEW etape \in Etapes,
         Attente(a, b, etape), NEW i \in Places, AccepterDefi(i)
  PROVE  a \in Clients /\ b \in Clients /\ Demarre(a, b)'
<1> DEFINE c == clients[i].sock
           m == [type |-> "accord", cible |-> c]
<1>1. /\ Transmettre(i, "accord", 2) /\ UNCHANGED <<thread, programme, compteurs, semParties>>
      /\ principal' = [Select EXCEPT !.pc = "demarrer", !.i = i, !.defieur = Lu(i).cible]
  BY Zenon DEF AccepterDefi, varsMessages
<1>2. Pret(i) /\ Lire(i) /\ Lu(i).type = "accord" /\ clientsInGame[i] = Aucun /\ Glissent(sortie, sortie', {m})
      /\ \A d \in Clients : d # Lu(i).cible => sortie'[d] = sortie[d]
  <2>1. "accord" \in Defis
    BY DEF Defis
  <2> QED BY <1>1, <2>1, TransmettreDialogue
<1>3. /\ etape = "accepte" /\ c = b /\ Lu(i).cible = a /\ i \in 1..nbClients
      /\ entree'[b] = <<>> /\ Exempts(entree', {"defi", "accord"})
      /\ \A d \in Clients : d # b => entree'[d] = entree[d]
  BY <1>2, DernierLu
<1>4. /\ a \in Clients /\ b \in Clients /\ a # b /\ Mode(a) = "attend" /\ Mode(b) = "jeu" /\ AvantJeu
      /\ compteurs.defis # 0 /\ entree[a] = <<>>
      /\ \A d \in Clients : \A k \in 1 .. Len(sortie[d]) : sortie[d][k].type # "defi"
      /\ \A d \in Clients : Mode(d) # "sollicite"
  BY <1>3 DEF Attente
<1>5. /\ sortie \in [Clients -> Seq(Avis)] /\ sortie' \in [Clients -> Seq(Avis)]
      /\ entree \in [Clients -> Seq(Requetes)] /\ entree' \in [Clients -> Seq(Requetes)]
  BY DEF TypesDialogue
<1>6. ASSUME NEW X, "accord" \notin X, Exempts(sortie, X)
      PROVE  Exempts(sortie', X)
  <2>1. Etrangers({m}, X)
    BY <1>6 DEF Etrangers
  <2> HIDE DEF m
  <2> QED BY <1>2, <1>5, <1>6, <2>1, GlissentVierges
<1>7. Exempts(sortie', {"defi"})
  <2>1. Exempts(sortie, {"defi"})
    BY <1>4 DEF Exempts, Vierge
  <2> QED BY <1>6, <2>1
<1>8. \A d \in Clients : programme'[d] = programme[d] /\ programme'[d].mode # "sollicite"
  BY <1>1, <1>4 DEF Mode
<1>9. compteurs'.defis # 0 /\ compteurs'.defis \in Nat /\ compteurs'.defis = 1
  BY <1>1, <1>4 DEF IInv, Types, TypeInvariant, Tranquille
<1>10. SansDefi'
  BY <1>3, <1>7, <1>8, <1>9 DEF SansDefi, Mode
<1>11. Exempts(entree', {"refus"})
  <2>1. Glissent(entree, entree', {}) /\ Etrangers({}, {"refus"})
    BY <1>2, LireType DEF Etrangers
  <2> QED BY <1>4, <1>5, <2>1, GlissentVierges DEF AvantJeu
<1>12. Exempts(sortie', {"refus"}) /\ Exempts(sortie', {"demande_fin", "demande_coup"})
  <2>1. Exempts(sortie, {"refus"}) /\ Exempts(sortie, {"demande_fin", "demande_coup"})
    BY <1>4 DEF AvantJeu, Exempts, Vierge
  <2>2. "accord" \notin {"refus"} /\ "accord" \notin {"demande_fin", "demande_coup"}
    OBVIOUS
  <2> QED BY <1>6, <2>1, <2>2
<1>13. Vierge(sortie'[b], {"accord"})
  BY <1>2, <1>3, <1>4 DEF AvantJeu, Exempts, Vierge
<1>14. Unique(sortie'[b], {"accord"})
  BY <1>13 DEF Unique, Vierge
<1>15. Unique(sortie'[a], {"accord"})
  <2>1. m \in Avis
    BY <1>3, <1>4 DEF Avis, Defis
  <2> HIDE DEF m
  <2>2. sortie'[a] = sortie[a] \/ sortie'[a] = Append(sortie[a], m)
    <3>1. UNCHANGED sortie \/ sortie' = Poster(sortie, a, m)
      BY <1>1, <1>3 DEF Transmettre, m
    <3> QED BY <1>4, <1>5, <3>1 DEF Poster
  <2>3. \A k \in 1 .. Len(sortie[a]) : sortie[a][k].type # "accord"
    BY <1>4 DEF AvantJeu, Exempts, Vierge
  <2>4. CASE sortie'[a] = sortie[a]
    BY <2>3, <2>4 DEF Unique
  <2>5. CASE sortie'[a] = Append(sortie[a], m)
    <3>1. /\ Len(sortie[a]) \in Nat /\ Len(sortie'[a]) = Len(sortie[a]) + 1
          /\ \A k \in 1 .. Len(sortie[a]) : sortie'[a][k] = sortie[a][k]
      BY <1>4, <1>5, <2>1, <2>5, AjoutFile
    <3>2. ASSUME NEW k \in 1 .. Len(sortie'[a]), sortie'[a][k].type \in {"accord"}
          PROVE  k = Len(sortie[a]) + 1
      <4>1. k \notin 1 .. Len(sortie[a])
        BY <2>3, <3>1, <3>2
      <4> QED BY <3>1, <4>1
    <3> QED BY <3>2 DEF Unique
  <2> QED BY <2>2, <2>4, <2>5
<1>16. /\ programme'[a].mode = "attend" /\ programme'[b].mode = "jeu"
       /\ programme'[a].partie = PartieVide /\ programme'[b].partie = PartieVide
  BY <1>4, <1>8 DEF AvantJeu, Mode
<1>17. entree'[a] = <<>>
  BY <1>3, <1>4
<1>18. \A d \in {a, b} : Rien(d)'
  BY <1>3, <1>4, <1>12, <1>16, <1>17 DEF Rien, Exempt, Exempts, Mode
<1>19. /\ principal'.pc = "demarrer" /\ principal'.defieur = a /\ principal'.i = i
       /\ i \in 1 .. nbClients' /\ clients'[i].sock = b
  <2>1. MemesSockets
    <3>1. 2 \in 0..3
      OBVIOUS
    <3> QED BY <1>1, <3>1, TransmettreType
  <2>2. nbClients' = nbClients /\ clients'[i].sock = clients[i].sock
    BY <1>3, <2>1 DEF MemesSockets, nbClients
  <2> QED BY <1>1, <1>3, <2>2 DEF Select
<1>20. (\A t \in Threads : thread'[t].pc = "neuf") /\ \A s \in Slots : semParties'[s] = 0
  BY <1>1, <1>4 DEF AvantJeu
<1>21. Exempts(sortie', {"refus", "abandon", "terminer"})
  <2>1. Exempts(sortie, {"refus", "abandon", "terminer"})
    BY <1>4 DEF AvantJeu, Exempts, Vierge
  <2>2. "accord" \notin {"refus", "abandon", "terminer"}
    OBVIOUS
  <2> QED BY <1>6, <2>1, <2>2
<1>22. \A d \in {a, b} : Invite(d)'
  BY <1>4, <1>13, <1>14, <1>15, <1>16, <1>18, <1>21 DEF Invite, Exempt, Exempts, Mode, EnPartie
<1> QED BY <1>4, <1>10, <1>11, <1>19, <1>20, <1>22 DEF Demarre

\* start_game: the game of the two players, or none.
LEMMA DemarreJouer ==
  ASSUME IInv, TypesDialogue, NEW a, NEW b, Demarre(a, b), DemarrerPartie
  PROVE  (\E t \in Threads : Jeu(t)') \/ Clos'
<1> DEFINE i == principal.i
<1>1. /\ UNCHANGED <<entree, sortie, programme, compteurs, messagesParties, semParties, clients>>
      /\ principal.defieur = a /\ clients[i].sock = b /\ i \in 1..nbClients
  BY Zenon DEF DemarrerPartie, varsMessages, varsClients, Demarre
<1>2. SansDefi' /\ Exempts(entree', {"refus"})
  BY <1>1 DEF Demarre, SansDefi, Mode
<1>3. principal'.pc # "demarrer"
  <2>1. principal' = Select \/ principal' = [principal EXCEPT !.pc = "plante"]
    BY Zenon DEF DemarrerPartie
  <2> QED BY <2>1 DEF Select, IInv, Types, EstPrincipal
<1>4. CASE UNCHANGED thread
  <2>1. \A t \in Threads : ~Actif(t)'
    BY <1>4 DEF Demarre, Actif
  <2> QED BY <1>2, <1>3, <2>1 DEF Clos
<1>5. CASE a \in Connectes /\ threadsLibres # {}
  <2>1. PICK s \in threadsLibres, t \in Threads :
          /\ clientsInGame' = [clientsInGame EXCEPT ![Place(a)] = s, ![i] = s]
          /\ thread' = [thread EXCEPT ![t] =
                          [Repos("tour") EXCEPT !.slot = s, !.j1 = a, !.j2 = b]]
    <3>1. principal.defieur \in Connectes
      BY <1>1, <1>5
    <3>2. PICK s \in threadsLibres, t \in Threads :
            /\ clientsInGame' = [clientsInGame EXCEPT ![Place(principal.defieur)] = s,
                                                      ![principal.i] = s]
            /\ thread' = [thread EXCEPT ![t] =
                            [Repos("tour") EXCEPT !.slot = s, !.j1 = principal.defieur,
                                                  !.j2 = clients[principal.i].sock]]
      BY <1>5, <3>1, Zenon DEF DemarrerPartie
    <3> QED BY <1>1, <3>2
  <2> DEFINE r == [Repos("tour") EXCEPT !.slot = s, !.j1 = a, !.j2 = b]
  <2>2. r.pc = "tour" /\ r.slot = s /\ r.j1 = a /\ r.j2 = b
    BY DEF Repos
  <2>3. thread \in [Threads -> ThreadType] /\ s \in Slots
    BY DEF IInv, Types, TypeInvariant, ThreadType
  <2>4. thread'[t] = r /\ \A u \in Threads : u # t => thread'[u] = thread[u]
    BY <2>1, <2>3
  <2> HIDE DEF r
  <2>5. /\ thread'[t].pc = "tour" /\ thread'[t].slot = s /\ thread'[t].j1 = a /\ thread'[t].j2 = b
        /\ \A u \in Threads \ {t} : thread'[u].pc = "neuf"
    BY <2>2, <2>4 DEF Demarre
  <2>6. Joueurs(t)' = {a, b}
    BY <2>5 DEF Joueurs
  <2>7. \A k \in 1 .. nbClients' : clientsInGame'[k] # Aucun <=> clients'[k].sock \in {a, b}
    <3>1. nbClients' = nbClients /\ \A k \in 1..nbClients : clients'[k].sock = clients[k].sock
      BY <1>1 DEF nbClients
    <3>2. Place(a) \in 1..nbClients /\ clients[Place(a)].sock = a
      BY <1>5, PlaceType
    <3>3. 1..nbClients \subseteq Places /\ clientsInGame \in [Places -> Slots \cup {Aucun}]
      BY ClientsType DEF IInv, Types, TypeInvariant
    <3>4. \A k \in Places : clientsInGame[k] = Aucun
      BY ToutLibre DEF Demarre
    <3>5. s # Aucun
      BY <2>3 DEF Slots, Aucun
    <3>6. \A k \in 1..nbClients : clientsInGame'[k] # Aucun <=> k = Place(a) \/ k = i
      BY <1>1, <2>1, <3>2, <3>3, <3>4, <3>5
    <3>7. \A k \in 1..nbClients : clients[k].sock \in {a, b} <=> k = Place(a) \/ k = i
      BY <1>1, <3>2 DEF IInv, SocketsDistincts
    <3> QED BY <3>1, <3>6, <3>7
  <2>8. \A d \in {a, b} : Invite(d)'
    BY <1>1 DEF Demarre, Invite, Rien, Exempt, Mode
  <2>9. semParties'[thread'[t].slot] = 0
    BY <1>1, <2>3, <2>5 DEF Demarre
  <2>10. Echange(t)'
    BY <2>5, <2>6, <2>8, <2>9 DEF Echange, Invite
  <2>11. \A d \in {a, b} :
           /\ Mode(d)' \in EnPartie
           /\ programme'[d].partie = PartieVide
           /\ Exempt(sortie, d, {"refus"})'
           /\ Mode(d)' # "attend" => Exempt(sortie, d, {"accord"})'
           /\ Unique(sortie'[d], {"accord"})
    BY <2>8 DEF Invite, Exempt, Vierge
  <2>12. a \in Clients /\ b \in Clients /\ a # b
    BY DEF Demarre
  <2>13. Jeu(t)'
    BY <1>2, <1>3, <2>5, <2>6, <2>7, <2>10, <2>11, <2>12 DEF Jeu
  <2> QED BY <2>13
<1>6. UNCHANGED thread \/ (a \in Connectes /\ threadsLibres # {})
  <2>1. UNCHANGED thread \/ (principal.defieur \in Connectes /\ threadsLibres # {})
    BY Zenon DEF DemarrerPartie, varsParties
  <2> QED BY <1>1, <2>1
<1> QED BY <1>4, <1>5, <1>6

\* The other handlers of the select loop.
LEMMA AttenteServir ==
  ASSUME IInv, TypesDialogue, TypesDialogue', Presents, Tranquille', NEW a, NEW b, NEW etape \in Etapes,
         Attente(a, b, etape), NEW i \in Places, Servir(i), ~TransmettreDefi(i), ~AccepterDefi(i)
  PROVE  Attente(a, b, etape)'
<1> DEFINE c == clients[i].sock
<1>1. Pret(i) /\ Lire(i) /\ UNCHANGED <<programme, compteurs>>
  BY ServirDialoguePas
<1>2. /\ i \in 1..nbClients /\ c \in Clients /\ Glissent(entree, entree', {})
      /\ entree[c] # <<>> /\ Lu(i) = entree[c][1] /\ Len(entree[c]) \in Nat \ {0}
      /\ entree'[c] = Tail(entree[c]) /\ \A d \in Clients : d # c => entree'[d] = entree[d]
  BY <1>1, LireType
<1>3. AvantJeu
  BY DEF Attente
<1>4. clientsInGame[i] = Aucun /\ threadsLibres = Slots
  BY <1>3, AttenteLibre
<1>5. Lu(i).type # "eof" /\ Lu(i).type # "refus"
  BY <1>2, <1>3 DEF Presents, AvantJeu, Exempts, Vierge
<1>6. IgnorerReponse(i) \/ EnvoyerListe(i) \/ AjouterObservateur(i) \/ RetirerObservateur(i)
  BY <1>4, <1>5 DEF Servir, QuitterHorsJeu, QuitterEnJeu, TransmettreAuJeu, RefuserDefi, Transmettre, Recu
<1>7. UNCHANGED <<thread, semParties>> /\ principal'.pc # "demarrer"
  <2>1. /\ UNCHANGED <<thread, semParties>>
        /\ UNCHANGED principal \/ principal' = [principal EXCEPT !.pc = "plante"]
    BY <1>6 DEF IgnorerReponse, EnvoyerListe, AjouterObservateur, RetirerObservateur, varsMessages
  <2>2. principal' = [principal EXCEPT !.pc = "plante"] => principal'.pc = "plante"
    BY DEF IInv, Types, EstPrincipal
  <2>3. principal.pc # "demarrer"
    BY <1>3 DEF AvantJeu
  <2> QED BY <2>1, <2>2, <2>3
<1> DEFINE m == [type |-> "liste", parties |-> {}]
<1>8. Glissent(sortie, sortie', {m})
  <2>1. sortie \in [Clients -> Seq(Avis)]
    BY DEF TypesDialogue
  <2>2. m \in Avis
    BY DEF Avis
  <2>3. CASE EnvoyerListe(i)
    <3>1. {parties[s] : s \in Slots \ threadsLibres} = {}
      BY <1>4
    <3>2. sortie' = Poster(sortie, c, m)
      BY <2>3, <3>1 DEF EnvoyerListe
    <3> HIDE DEF m
    <3> QED BY <2>1, <2>2, <3>2, PosterGlisse
  <2>4. CASE UNCHANGED sortie
    BY <2>1, <2>4, GlissentMeme
  <2> QED BY <1>6, <2>3, <2>4 DEF IgnorerReponse, AjouterObservateur, RetirerObservateur
<1>9. /\ Etrangers({m}, Anodins) /\ ListesVides({m}) /\ Etrangers({m}, {"defi"})
      /\ Etrangers({}, {"refus"}) /\ Etrangers({}, {"defi", "accord"})
  BY DEF Etrangers, Anodins, ListesVides
<1> HIDE DEF m
<1>10. \A d \in Clients : programme'[d].partie = PartieVide /\ programme'[d].mode \notin {"q_fin", "q_coup"}
  BY <1>1, <1>3 DEF AvantJeu, Mode
<1>11. AvantJeu'
  BY <1>2, <1>3, <1>7, <1>8, <1>9, <1>10, AvantJeuPas
<1>12. \A d \in Clients : Mode(d) \in {"attend", "jeu"} =>
           /\ programme'[d].mode = Mode(d)
           /\ \/ entree'[d] = entree[d]
              \/ entree[d] # <<>> /\ entree'[d] = Tail(entree[d])
  BY <1>1, <1>2 DEF Mode
<1>13. \A d \in Clients : programme'[d].mode = "sollicite" =>
           Mode(d) = "sollicite" /\ programme'[d].defieur = programme[d].defieur
  BY <1>1 DEF Mode
<1>14. compteurs'.defis = compteurs.defis
  BY <1>1
<1> QED BY <1>2, <1>8, <1>9, <1>11, <1>12, <1>13, <1>14, AttenteCalme

\* From a step before the game to the next one, to the game or to its end.
LEMMA AttentePas ==
  ASSUME IInv, TypesDialogue, TypesDialogue', Presents, Tranquille',
         NEW a \in Clients \cup {Aucun}, NEW b \in Clients \cup {Aucun}, NEW etape \in Etapes,
         Attente(a, b, etape), Next
  PROVE  Stade'
<1>1. AvantJeu
  BY DEF Attente
<1>2. ASSUME NEW e \in Etapes, Attente(a, b, e)'
      PROVE  Stade'
  BY <1>2 DEF Stade
<1>3. {"envoye", "transmis", "sollicite", "accepte"} \subseteq Etapes
  BY DEF Etapes
<1>4. \A t \in Threads : ~AvancerThread(t)
  BY <1>1, AttenteThread
<1>5. ~Poursuivre
  BY <1>1 DEF Poursuivre, DecalerJeux, DecalerVues, Annuler, Joindre, DemarrerPartie, Presents,
              AvantJeu
<1>6. ASSUME NEW i \in Places, Servir(i)
      PROVE  Stade'
  <2>1. CASE TransmettreDefi(i)
    BY <1>2, <1>3, <2>1, AttenteTransmettre DEF Stade
  <2>2. CASE AccepterDefi(i)
    BY <2>2, AttenteAccord DEF Stade
  <2>3. CASE ~TransmettreDefi(i) /\ ~AccepterDefi(i)
    BY <1>2, <1>6, <2>3, AttenteServir
  <2> QED BY <2>1, <2>2, <2>3
<1>7. ASSUME NEW c \in Clients, Connecter(c)
      PROVE  Stade'
  BY <1>2, <1>7, AttenteConnecter
<1>8. ASSUME NEW c \in Clients, AvancerClient(c)
      PROVE  Stade'
  <2>1. CASE Ordinaire(c)
    BY <1>2, <1>8, <2>1, AttenteOrdinaire
  <2>2. ASSUME NEW d \in Clients, Defier(c, d)
        PROVE  Stade'
    <3>1. Attente(c, d, "envoye")'
      BY <2>2, AttenteDefier
    <3> QED BY <1>3, <3>1 DEF Stade
  <2>3. CASE RecoitDefi(c)
    BY <1>2, <1>3, <2>3, AttenteRecoitDefi
  <2>4. CASE Accepter(c)
    BY <1>2, <1>3, <2>4, AttenteAccepter
  <2>5. CASE Refuser(c)
    BY <2>5, AttenteRefuser DEF Stade
  <2>6. ~Fermer(c)
    BY FermerNon
  <2> QED BY <1>8, <2>1, <2>2, <2>3, <2>4, <2>5, <2>6, ClientSortes
<1> QED BY <1>4, <1>5, <1>6, <1>7, <1>8 DEF Next

-----------------------------------------------------------------------------
(* Once the challenge has been answered. *)

\* What the server sends then, and what the game threads do besides.
AvisDeServir == {m \in Avis : m.type \in {"refus", "liste"}}

\* The clients open no dialogue.
LEMMA SansDefiClient ==
  ASSUME IInv, TypesDialogue, SansDefi, Tranquille', NEW c \in Clients, AvancerClient(c)
  PROVE  Ordinaire(c)
<1>1. Mode(c) # "sollicite"
  BY DEF SansDefi
<1>2. ~Accepter(c) /\ ~Refuser(c)
  BY <1>1 DEF Accepter, Refuser, Est
<1>3. ~RecoitDefi(c)
  <2>1. ASSUME Recoit(c, "defi")
        PROVE  FALSE
    <3>1. Len(sortie[c]) \in Nat \ {0} /\ sortie[c][1].type = "defi"
      BY <2>1, RecoitType
    <3> QED BY <3>1 DEF SansDefi, Exempts, Vierge
  <2> QED BY <2>1 DEF RecoitDefi
<1>4. ASSUME NEW d \in Clients
      PROVE  ~Defier(c, d)
  <2>1. compteurs.defis = 1
    BY DEF SansDefi
  <2>2. Defier(c, d) => compteurs'.defis = 2
    BY <2>1 DEF Defier, IInv, Types, TypeInvariant
  <2> QED BY <2>2 DEF Tranquille
<1> QED BY <1>2, <1>3, <1>4, FermerNon, ClientSortes

\* The select loop starts no game and changes no route.
LEMMA SansDefiServir ==
  ASSUME IInv, TypesDialogue, Presents, SansDefi, NEW i \in Places, Servir(i)
  PROVE  /\ Pret(i) /\ Lire(i) /\ Lu(i).type \notin {"eof", "defi", "accord"}
         /\ UNCHANGED <<thread, clientsInGame, programme, compteurs>> /\ MemesSockets
         /\ principal'.pc # "demarrer"
         /\ Glissent(sortie, sortie', AvisDeServir)
<1> DEFINE c == clients[i].sock
<1>1. Pret(i) /\ Lire(i) /\ UNCHANGED <<programme, compteurs>>
  BY ServirDialoguePas
<1>2. i \in 1..nbClients /\ c \in Clients /\ Lu(i) = entree[c][1] /\ Len(entree[c]) \in Nat \ {0}
  BY <1>1, LireType
<1>3. Lu(i).type \notin {"eof", "defi", "accord"}
  BY <1>2 DEF Presents, SansDefi, Exempts, Vierge
<1>4. \/ IgnorerReponse(i) \/ TransmettreAuJeu(i) \/ RefuserDefi(i) \/ EnvoyerListe(i)
      \/ AjouterObservateur(i) \/ RetirerObservateur(i)
  <2>1. ~QuitterHorsJeu(i) /\ ~QuitterEnJeu(i)
    BY <1>3 DEF QuitterHorsJeu, QuitterEnJeu, Recu
  <2>2. ~TransmettreDefi(i)
    BY <1>3 DEF TransmettreDefi, Transmettre, Recu
  <2>3. ~AccepterDefi(i)
    <3>1. AccepterDefi(i) => Transmettre(i, "accord", 2)
      BY Zenon DEF AccepterDefi
    <3>2. ~Transmettre(i, "accord", 2)
      BY <1>3 DEF Transmettre, Recu
    <3> QED BY <3>1, <3>2
  <2> QED BY <2>1, <2>2, <2>3 DEF Servir
<1>5. UNCHANGED <<thread, clientsInGame>>
  BY <1>4 DEF IgnorerReponse, TransmettreAuJeu, RefuserDefi, EnvoyerListe, AjouterObservateur,
              RetirerObservateur, varsTables
<1>6. MemesSockets
  <2>1. CASE UNCHANGED clients
    BY <2>1, MemesSocketsSiInchange DEF IInv
  <2>2. CASE RefuserDefi(i)
    <3>1. Transmettre(i, "refus", 0) /\ 0 \in 0..3
      BY <2>2 DEF RefuserDefi
    <3> QED BY <3>1, TransmettreType
  <2>3. CASE AjouterObservateur(i) \/ RetirerObservateur(i)
    BY <2>3, ObservateursSockets
  <2> QED BY <1>4, <2>1, <2>2, <2>3 DEF IgnorerReponse, TransmettreAuJeu, EnvoyerListe, varsTables
<1>7. sortie \in [Clients -> Seq(Avis)]
  BY DEF TypesDialogue
<1>8. ASSUME NEW d, NEW m \in Avis, m.type \in {"refus", "liste"}, sortie' = Poster(sortie, d, m)
      PROVE  Glissent(sortie, sortie', AvisDeServir)
  <2>1. m \in AvisDeServir
    BY <1>8 DEF AvisDeServir
  <2> QED BY <1>7, <1>8, <2>1, PosterGlisse
<1>9. UNCHANGED sortie => Glissent(sortie, sortie', AvisDeServir)
  BY <1>7, GlissentMeme
<1>10. Glissent(sortie, sortie', AvisDeServir)
  <2>1. CASE RefuserDefi(i)
    <3> DEFINE m == [type |-> "refus", cible |-> c]
    <3>1. m \in Avis /\ m.type \in {"refus", "liste"}
      BY <1>2 DEF Avis, Defis
    <3>2. UNCHANGED sortie \/ sortie' = Poster(sortie, Lu(i).cible, m)
      BY <2>1 DEF RefuserDefi, Transmettre
    <3> HIDE DEF m
    <3> QED BY <1>8, <1>9, <3>1, <3>2
  <2>2. CASE EnvoyerListe(i)
    <3> DEFINE m == [type |-> "liste", parties |-> {parties[s] : s \in Slots \ threadsLibres}]
    <3>1. m \in Avis /\ m.type \in {"refus", "liste"}
      BY DEF IInv, Types, Avis, Listees
    <3>2. sortie' = Poster(sortie, c, m)
      BY <2>2 DEF EnvoyerListe
    <3> HIDE DEF m
    <3> QED BY <1>8, <3>1, <3>2
  <2> QED BY <1>4, <1>9, <2>1, <2>2 DEF IgnorerReponse, TransmettreAuJeu, AjouterObservateur,
                                      RetirerObservateur
<1>11. principal'.pc # "demarrer"
  <2>1. UNCHANGED principal \/ principal' = [principal EXCEPT !.pc = "plante"]
    BY <1>4 DEF IgnorerReponse, TransmettreAuJeu, RefuserDefi, EnvoyerListe, AjouterObservateur,
                RetirerObservateur
  <2>2. principal.pc = "select"
    BY <1>1 DEF Pret
  <2> QED BY <2>1, <2>2 DEF IInv, Types, EstPrincipal
<1> QED BY <1>1, <1>3, <1>5, <1>6, <1>10, <1>11

\* The messages of a step then: no challenge, no accept.
AvisApres == AvisDeJeu \cup AvisDeServir

\* The messages added once the challenge has been answered.
LEMMA ApresType ==
  /\ Etrangers(AvisApres, {"defi"}) /\ Etrangers(AvisApres, {"accord"})
  /\ Etrangers(AvisDeServir, {"demande_fin", "demande_coup"})
  /\ Etrangers(AvisDeServir, {"demande_fin"}) /\ Etrangers(AvisDeServir, {"demande_coup"})
BY DEF Etrangers, AvisApres, AvisDeJeu, AvisDeServir

\* Fewer messages.
LEMMA GlissentMoins ==
  ASSUME NEW f, NEW g, NEW T, NEW U, T \subseteq U, Glissent(f, g, T)
  PROVE  Glissent(f, g, U)
<1>1. ASSUME NEW c \in Clients
      PROVE  Glisse(f[c], g[c], U)
  <2>1. PICK d \in Nat :
          /\ Len(f[c]) <= Len(g[c]) + d
          /\ \A k \in 1 .. Len(g[c]) : IF k + d <= Len(f[c]) THEN g[c][k] = f[c][k + d] ELSE g[c][k] \in T
    BY DEF Glissent, Glisse
  <2>2. \A k \in 1 .. Len(g[c]) : IF k + d <= Len(f[c]) THEN g[c][k] = f[c][k + d] ELSE g[c][k] \in U
    BY <2>1
  <2> QED BY <2>1, <2>2 DEF Glisse
<1> QED BY <1>1 DEF Glissent

\* What any step then does: the dialogue is not opened again.
LEMMA ApresPas ==
  ASSUME IInv, TypesDialogue, TypesDialogue', Presents, SansDefi, Tranquille', Next
  PROVE  /\ SansDefi'
         /\ Glissent(entree, entree', RequetesCalmes)
         /\ Glissent(sortie, sortie', AvisApres)
<1>1. /\ entree \in [Clients -> Seq(Requetes)] /\ entree' \in [Clients -> Seq(Requetes)]
      /\ sortie \in [Clients -> Seq(Avis)] /\ sortie' \in [Clients -> Seq(Avis)]
  BY DEF TypesDialogue
<1>2. AvisDeJeu \subseteq AvisApres /\ AvisDeServir \subseteq AvisApres /\ {} \subseteq AvisApres
  BY DEF AvisApres
<1>3. Glissent(entree, entree', {}) \/ UNCHANGED entree => Glissent(entree, entree', RequetesCalmes)
  <2>1. UNCHANGED entree => Glissent(entree, entree', RequetesCalmes)
    BY <1>1, GlissentMeme
  <2>2. {} \subseteq RequetesCalmes
    OBVIOUS
  <2> QED BY <2>1, <2>2, GlissentMoins
<1> DEFINE P == /\ compteurs'.defis = compteurs.defis
                /\ \A c \in Clients : programme'[c].mode # "sollicite"
                /\ Glissent(entree, entree', RequetesCalmes)
                /\ Glissent(sortie, sortie', AvisApres)
<1>4. UNCHANGED programme => \A c \in Clients : programme'[c].mode # "sollicite"
  BY DEF SansDefi, Mode
<1>5. ASSUME NEW t \in Threads, AvancerThread(t)
      PROVE  P
  <2>1. UNCHANGED <<entree, programme, compteurs>> /\ Glissent(sortie, sortie', AvisDeJeu)
    BY <1>5, ThreadDialoguePas
  <2> QED BY <1>2, <1>3, <1>4, <2>1, GlissentMoins
<1>6. ASSUME NEW i \in Places, Servir(i)
      PROVE  P
  <2>1. Pret(i) /\ Lire(i) /\ UNCHANGED <<programme, compteurs>> /\ Glissent(sortie, sortie', AvisDeServir)
    BY <1>6, SansDefiServir
  <2>2. Glissent(entree, entree', {})
    BY <2>1, LireType
  <2> QED BY <1>2, <1>3, <1>4, <2>1, <2>2, GlissentMoins
<1>7. ASSUME Poursuivre
      PROVE  P
  <2>1. UNCHANGED <<entree, sortie, programme, compteurs>>
    BY <1>7, PoursuivreReste DEF varsClients
  <2>2. Glissent(sortie, sortie', AvisApres)
    BY <1>1, <2>1, GlissentMeme
  <2> QED BY <1>3, <1>4, <2>1, <2>2
<1>8. ASSUME NEW c \in Clients, Connecter(c)
      PROVE  P
  <2>1. /\ UNCHANGED <<entree, sortie, compteurs>>
        /\ programme' = [programme EXCEPT ![c] = Programme("menu")]
    BY <1>8 DEF Connecter
  <2>2. Programme("menu").mode = "menu"
    BY DEF Programme
  <2>3. \A d \in Clients : programme'[d].mode # "sollicite"
    BY <2>1, <2>2 DEF SansDefi, Mode, TypesDialogue
  <2>4. Glissent(sortie, sortie', AvisApres)
    BY <1>1, <2>1, GlissentMeme
  <2> QED BY <1>3, <2>1, <2>3, <2>4
<1>9. ASSUME NEW c \in Clients, AvancerClient(c)
      PROVE  P
  <2>1. Ordinaire(c)
    BY <1>9, SansDefiClient
  <2>2. /\ Glissent(entree, entree', RequetesCalmes) /\ Glissent(sortie, sortie', {})
        /\ compteurs'.defis = compteurs.defis /\ programme'[c].mode # "sollicite"
    BY <2>1, ClientOrdinaire
  <2>3. Seul(c)
    BY <1>9, ClientDialoguePas
  <2>4. \A d \in Clients : programme'[d].mode # "sollicite"
    BY <2>2, <2>3 DEF Seul, SansDefi, Mode
  <2> QED BY <1>2, <2>2, <2>4, GlissentMoins
<1>10. P
  BY <1>5, <1>6, <1>7, <1>8, <1>9 DEF Next
<1>11. Exempts(entree', {"defi", "accord"}) /\ Exempts(sortie', {"defi"})
  BY <1>1, <1>10, EtrangersType, ApresType, GlissentVierges DEF SansDefi
<1> QED BY <1>10, <1>11 DEF SansDefi, Mode

\* In particular no accept is read.
LEMMA AccordPas ==
  ASSUME IInv, TypesDialogue, Presents, SansDefi, Tranquille', principal.pc # "demarrer", Next
  PROVE  principal'.pc # "demarrer" /\ ~Poursuivre
<1>1. ~Poursuivre
  BY DEF Poursuivre, DecalerJeux, DecalerVues, Annuler, Joindre, DemarrerPartie, Presents
<1>2. ASSUME NEW t \in Threads, AvancerThread(t)
      PROVE  principal'.pc # "demarrer"
  BY <1>2, ThreadReste
<1>3. ASSUME NEW i \in Places, Servir(i)
      PROVE  principal'.pc # "demarrer"
  BY <1>3, SansDefiServir
<1>4. ASSUME NEW c \in Clients, Connecter(c) \/ AvancerClient(c)
      PROVE  principal'.pc # "demarrer"
  BY <1>4, ClientServeur DEF Connecter, varsServeur
<1> QED BY <1>1, <1>2, <1>3, <1>4 DEF Next

\* A client that is out of the dialogue of a game does not come back to it.
LEMMA HorsPartiePas ==
  ASSUME IInv, TypesDialogue, TypesDialogue', Presents, SansDefi, Tranquille', Next,
         NEW c \in Clients, Mode(c) \notin EnPartie, Exempt(sortie, c, {"accord"})
  PROVE  programme'[c].mode \notin EnPartie /\ Exempt(sortie', c, {"accord"})
<1>1. Exempt(sortie', c, {"accord"})
  BY ApresPas, ApresType, GlissentVierges DEF TypesDialogue, Exempt
<1>2. UNCHANGED programme => programme'[c].mode \notin EnPartie
  BY DEF Mode
<1>3. ASSUME NEW t \in Threads, AvancerThread(t)
      PROVE  UNCHANGED programme
  BY <1>3, ThreadDialoguePas
<1>4. ASSUME NEW i \in Places, Servir(i)
      PROVE  UNCHANGED programme
  BY <1>4, ServirDialoguePas
<1>5. Poursuivre => UNCHANGED programme
  BY PoursuivreReste DEF varsClients
<1>6. ASSUME NEW d \in Clients, Connecter(d)
      PROVE  programme'[c].mode \notin EnPartie
  <2>1. programme' = [programme EXCEPT ![d] = Programme("menu")] /\ Programme("menu").mode = "menu"
    BY <1>6 DEF Connecter, Programme
  <2>2. programme'[c].mode \in {"menu", Mode(c)}
    BY <2>1 DEF TypesDialogue, Mode
  <2> QED BY <2>2 DEF EnPartie
<1>7. ASSUME NEW d \in Clients, d # c, AvancerClient(d)
      PROVE  programme'[c].mode \notin EnPartie
  <2>1. programme'[c] = programme[c]
    BY <1>7, ClientDialoguePas DEF Seul
  <2> QED BY <2>1 DEF Mode
<1>8. ASSUME AvancerClient(c)
      PROVE  programme'[c].mode \notin EnPartie
  <2>1. Ordinaire(c)
    BY <1>8, SansDefiClient
  <2>2. Mode(c) \in Modes /\ {"menu", "liste", "observe"} \subseteq Modes
        /\ "menu" \notin EnPartie /\ "liste" \notin EnPartie /\ "observe" \notin EnPartie
    BY ModeType DEF Modes, EnPartie
  <2>3. ASSUME NEW mode \in Modes, mode \notin EnPartie, Passer(c, mode)
        PROVE  programme'[c].mode \notin EnPartie
    BY <2>3, PasserType
  <2>4. ~RecoitAccord(c)
    <3>1. ASSUME Recoit(c, "accord")
          PROVE  FALSE
      <4>1. Len(sortie[c]) \in Nat \ {0} /\ sortie[c][1].type = "accord"
        BY <3>1, RecoitType
      <4> QED BY <4>1 DEF Exempt, Vierge
    <3> QED BY <3>1 DEF RecoitAccord
  <2>5. ~RepondreFin(c) /\ ~RepondreCoup(c)
    BY DEF RepondreFin, RepondreCoup, Est, EnPartie
  <2>6. CASE DemanderParties(c)
    BY <2>2, <2>3, <2>6 DEF DemanderParties
  <2>7. CASE RecoitRefus(c) \/ RecoitQuestion(c) \/ RecoitFinDePartie(c)
    <3>1. Passer(c, Mode(c)) \/ Passer(c, "menu")
      BY <2>7 DEF RecoitRefus, RecoitQuestion, RecoitFinDePartie, EnPartie
    <3> QED BY <2>2, <2>3, <3>1
  <2>8. CASE RecoitListe(c)
    <3>1. \/ \E p : programme' = [programme EXCEPT ![c].mode = "observe", ![c].partie = p]
          \/ Passer(c, "menu") \/ Passer(c, Mode(c))
      BY <2>8 DEF RecoitListe
    <3>2. ASSUME NEW p, programme' = [programme EXCEPT ![c].mode = "observe", ![c].partie = p]
          PROVE  programme'[c].mode = "observe"
      BY <3>2 DEF TypesDialogue, Profils
    <3> QED BY <2>2, <2>3, <3>1, <3>2
  <2>9. CASE RecoitFinObservation(c) \/ QuitterObservation(c)
    <3>1. FinObservation(c) \/ UNCHANGED programme
      BY <2>9 DEF RecoitFinObservation, QuitterObservation
    <3>2. FinObservation(c) => programme'[c].mode \in {"menu", Mode(c)}
      BY FinObservationType
    <3> QED BY <1>2, <2>2, <3>1, <3>2
  <2> QED BY <2>1, <2>4, <2>5, <2>6, <2>7, <2>8, <2>9 DEF Ordinaire
<1>9. programme'[c].mode \notin EnPartie
  BY <1>2, <1>3, <1>4, <1>5, <1>6, <1>7, <1>8 DEF Next
<1> QED BY <1>1, <1>9

\* A running game keeps its players, and none starts without an accept.
LEMMA JoueursGardes ==
  ASSUME IInv, TypesDialogue, Presents, SansDefi, principal.pc # "demarrer", Tranquille', Next,
         NEW t \in Threads, Actif(t)'
  PROVE  Actif(t) /\ Joueurs(t)' = Joueurs(t)
<1>1. thread \in [Threads -> ThreadType]
  BY DEF IInv, Types, TypeInvariant, ThreadType
<1>2. UNCHANGED thread => Actif(t) /\ Joueurs(t)' = Joueurs(t)
  BY DEF Actif, Joueurs
<1>3. ASSUME NEW i \in Places, Servir(i)
      PROVE  UNCHANGED thread
  BY <1>3, SansDefiServir
<1>4. ~Poursuivre
  BY AccordPas
<1>5. ASSUME NEW c \in Clients, Connecter(c) \/ AvancerClient(c)
      PROVE  UNCHANGED thread
  BY <1>5, ClientServeur DEF Connecter, varsServeur
<1>6. ASSUME NEW u \in Threads, AvancerThread(u)
      PROVE  Actif(t) /\ Joueurs(t)' = Joueurs(t)
  <2>1. ~Annulation(u)
    BY DEF Annulation, Presents
  <2>2. CASE Tour(u) \/ LireFin(u) \/ LireCoup(u) \/ ContinuerPartie(u) \/ TerminerPartie(u)
    <3>1. thread[u].pc \in {"tour", "attenteFin", "attenteCoup", "resultat"}
      BY <2>2 DEF Tour, LireFin, LireCoup, ContinuerPartie, TerminerPartie
    <3>2. /\ thread'[u].j1 = thread[u].j1 /\ thread'[u].j2 = thread[u].j2
          /\ \A v \in Threads : v # u => thread'[v] = thread[v]
      BY <1>1, <2>2 DEF ThreadType, Tour, LireFin, LireCoup, ContinuerPartie, TerminerPartie
    <3> QED BY <3>1, <3>2 DEF Actif, Joueurs
  <2>3. CASE MessageIgnore(u)
    BY <1>2, <2>3 DEF MessageIgnore
  <2>4. CASE AnnoncerVainqueur(u) \/ FinirAbandon(u)
    <3>1. thread'[u].pc = "nettoyage" /\ \A v \in Threads : v # u => thread'[v] = thread[v]
      BY <1>1, <2>4 DEF ThreadType, AnnoncerVainqueur, FinirAbandon, DebutNettoyage
    <3> QED BY <3>1 DEF Actif, Joueurs
  <2>5. CASE Parcourir(u) \/ AnnoncerFin(u) \/ Effacer(u) \/ Reconnaitre(u) \/ Detacher(u)
             \/ Reprendre(u)
    <3>1. PICK pc \in {"nettoyage", "effacer", "detacher", "pause"} : \E k : Etape(u, pc, k)
      BY <2>5 DEF Parcourir, AnnoncerFin, Effacer, Reconnaitre, Detacher, Reprendre
    <3>2. thread'[u].pc = pc /\ \A v \in Threads : v # u => thread'[v] = thread[v]
      BY <1>1, <3>1 DEF ThreadType, Etape
    <3> QED BY <3>1, <3>2 DEF Actif, Joueurs
  <2>6. CASE FinThread(u)
    <3>1. Repos("mort").pc = "mort"
      BY DEF Repos
    <3>2. thread'[u].pc = "mort" /\ \A v \in Threads : v # u => thread'[v] = thread[v]
      BY <1>1, <2>6, <3>1 DEF FinThread
    <3> QED BY <3>2 DEF Actif, Joueurs
  <2> QED BY <1>6, <2>1, <2>2, <2>3, <2>4, <2>5, <2>6 DEF AvancerThread
<1> QED BY <1>2, <1>3, <1>4, <1>5, <1>6 DEF Next

\* A game that a player has left goes on without it.
LEMMA ClosPas ==
  ASSUME IInv, TypesDialogue, TypesDialogue', Presents, Clos, Tranquille', Next
  PROVE  Clos'
<1>1. /\ SansDefi /\ SansDefi'
      /\ principal.pc # "demarrer" /\ principal'.pc # "demarrer"
  BY ApresPas, AccordPas DEF Clos
<1>2. ASSUME NEW t \in Threads, Actif(t)'
      PROVE  Sorti(t)'
  <2>1. Actif(t) /\ Joueurs(t)' = Joueurs(t)
    BY <1>1, <1>2, JoueursGardes
  <2>2. PICK c \in Clients \cap Joueurs(t) : Mode(c) \notin EnPartie /\ Exempt(sortie, c, {"accord"})
    BY <2>1 DEF Clos, Sorti
  <2>3. programme'[c].mode \notin EnPartie /\ Exempt(sortie', c, {"accord"})
    BY <1>1, <2>2, HorsPartiePas
  <2> QED BY <2>1, <2>2, <2>3 DEF Sorti, Mode, Exempt
<1> QED BY <1>1, <1>2 DEF Clos

-----------------------------------------------------------------------------
(* The game. *)

Demandes == {"demande_fin", "demande_coup"}

\* A message is sent to a client that had none of these types.
LEMMA PosterUnique ==
  ASSUME NEW f \in [Clients -> Seq(Avis)], NEW c \in Clients, NEW m \in Avis, NEW X, Vierge(f[c], X)
  PROVE  Unique(Poster(f, c, m)[c], X)
<1> DEFINE q == f[c]
           r == Append(q, m)
<1>1. Poster(f, c, m)[c] = q \/ Poster(f, c, m)[c] = r
  BY DEF Poster
<1>2. /\ Len(q) \in Nat /\ Len(r) = Len(q) + 1
      /\ \A k \in 1 .. Len(q) : r[k] = q[k]
  BY AjoutFile
<1> HIDE DEF q, r
<1>3. \A k \in 1 .. Len(q) : q[k].type \notin X
  BY DEF Vierge, q
<1>4. ASSUME NEW k \in 1 .. Len(r), r[k].type \in X
      PROVE  k = Len(q) + 1
  <2>1. k \notin 1 .. Len(q)
    BY <1>2, <1>3, <1>4
  <2> QED BY <1>2, <2>1
<1>5. Unique(q, X) /\ Unique(r, X)
  BY <1>3, <1>4 DEF Unique
<1> QED BY <1>1, <1>5

\* The players of the game.
LEMMA JeuType ==
  ASSUME IInv, NEW t \in Threads, Jeu(t)
  PROVE  /\ Mover(t) \in Clients /\ Oppose(t) \in Clients /\ Mover(t) # Oppose(t)
         /\ Joueurs(t) = {Mover(t), Oppose(t)}
         /\ thread[t] \in ThreadType /\ thread[t].slot \in Slots /\ Actif(t)
         /\ thread[t].pc \in {"tour", "attenteFin", "attenteCoup", "resultat", "terminer"}
         /\ \A c \in Joueurs(t) : c \in Clients /\ Mode(c) \in EnPartie
<1>1. thread[t].j1 \in Clients /\ thread[t].j2 \in Clients /\ thread[t].j1 # thread[t].j2
  BY DEF Jeu
<1>2. thread[t] \in ThreadType
  BY DEF IInv, Types, TypeInvariant, ThreadType
<1>3. thread[t].pc \in {"tour", "attenteFin", "attenteCoup", "resultat", "terminer"}
  BY DEF Jeu, Echange
<1>4. Actif(t)
  BY <1>3 DEF Actif
<1>5. thread[t].slot \in Slots
  BY <1>4 DEF IInv, ThreadsEnRoute
<1>6. \A c \in Joueurs(t) : c \in Clients /\ Mode(c) \in EnPartie
  BY <1>1 DEF Jeu, Joueurs
<1> QED BY <1>1, <1>2, <1>3, <1>4, <1>5, <1>6 DEF Mover, Oppose, Joueurs

\* Its slot is the only one that a client is routed to.
LEMMA JeuRoute ==
  ASSUME IInv, NEW t \in Threads, Jeu(t), NEW i \in Places, clientsInGame[i] # Aucun
  PROVE  clientsInGame[i] = thread[t].slot
<1>1. clientsInGame[i] \in Slots
  BY DEF IInv, Types, TypeInvariant
<1>2. threads_partie[clientsInGame[i]] \in Threads
  BY DEF IInv, Routage
<1>3. threads_partie[clientsInGame[i]] # Aucun
  BY <1>2 DEF Threads, Aucun
<1>4. threads_partie[clientsInGame[i]] = t
  BY <1>1, <1>2, <1>3 DEF IInv, SlotsEnRoute, Jeu
<1> QED BY <1>1, <1>3, <1>4, JeuType DEF IInv, SlotsEnRoute

\* A step that concerns neither the thread, nor its mailbox, nor what the
\* players are asked or answer.
Neutre(t) ==
  /\ thread'[t] = thread[t]
  /\ semParties'[thread[t].slot] = semParties[thread[t].slot]
  /\ messagesParties'[thread[t].slot] = messagesParties[thread[t].slot]
  /\ \A c \in Joueurs(t) :
       /\ entree'[c] = entree[c]
       /\ Mode(c) \in {"q_fin", "q_coup"} \/ programme'[c].mode \in {"q_fin", "q_coup"} =>
            programme'[c].mode = Mode(c)

\* A step that leaves the thread of the game, its players and its mailbox
\* alone keeps the exchange.
LEMMA EchangeNeutre ==
  ASSUME IInv, TypesDialogue, TypesDialogue', NEW t \in Threads, Jeu(t), Neutre(t),
         NEW T, Glissent(sortie, sortie', T), Etrangers(T, Demandes)
  PROVE  Echange(t)'
<1>1. /\ Mover(t) \in Clients /\ Oppose(t) \in Clients /\ Joueurs(t) = {Mover(t), Oppose(t)}
  BY JeuType
<1>2. sortie \in [Clients -> Seq(Avis)] /\ sortie' \in [Clients -> Seq(Avis)]
  BY DEF TypesDialogue
<1>3. /\ Mover(t)' = Mover(t) /\ Oppose(t)' = Oppose(t) /\ Joueurs(t)' = Joueurs(t)
      /\ thread'[t] = thread[t] /\ Question(t)' = Question(t) /\ Demande(t)' = Demande(t)
      /\ Suite(t)' = Suite(t)
  BY DEF Neutre, Mover, Oppose, Joueurs, Question, Demande, Suite
<1>4. Etrangers(T, Demandes) /\ Etrangers(T, Demandes \ {Question(t)})
  BY DEF Etrangers
<1>5. \A c \in Clients : (Vierge(sortie[c], Demandes) => Vierge(sortie'[c], Demandes))
                         /\ (Unique(sortie[c], Demandes) => Unique(sortie'[c], Demandes))
  BY <1>2, GlissentVierges
<1>6. \A c \in Clients : Vierge(sortie[c], Demandes \ {Question(t)})
                         => Vierge(sortie'[c], Demandes \ {Question(t)})
  BY <1>2, <1>4, GlissentVierges
<1>7. ASSUME NEW c \in Joueurs(t), Rien(c)
      PROVE  Rien(c)'
  BY <1>1, <1>5, <1>7 DEF Rien, Exempt, Demandes, Neutre, Mode
<1>8. CASE thread[t].pc \notin {"attenteFin", "attenteCoup"}
  BY <1>3, <1>7, <1>8 DEF Jeu, Echange, Neutre
<1>9. CASE thread[t].pc \in {"attenteFin", "attenteCoup"}
  <2>1. Rien(Oppose(t))'
    BY <1>1, <1>3, <1>7, <1>9 DEF Jeu, Echange
  <2>2. ASSUME Pose(t)
        PROVE  Pose(t)'
    BY <1>1, <1>3, <1>5, <1>6, <2>2 DEF Pose, Exempt, Demandes, Neutre, Mode
  <2>3. ASSUME Affiche(t)
        PROVE  Affiche(t)'
    BY <1>1, <1>3, <1>5, <2>3 DEF Affiche, Exempt, Demandes, Neutre, Mode, Demande
  <2>4. ASSUME Repondu(t)
        PROVE  Repondu(t)'
    BY <1>1, <1>3, <1>5, <2>4 DEF Repondu, Exempt, Demandes, Neutre, Mode
  <2>5. ASSUME Depose(t)
        PROVE  Depose(t)'
    BY <1>1, <1>3, <1>7, <2>5 DEF Depose, Neutre
  <2>6. Pose(t) \/ Affiche(t) \/ Repondu(t) \/ Depose(t)
    BY <1>9 DEF Jeu, Echange
  <2>7. (Pose(t) \/ Affiche(t) \/ Repondu(t) \/ Depose(t))'
    BY <2>2, <2>3, <2>4, <2>5, <2>6
  <2> QED BY <1>3, <1>9, <2>1, <2>7 DEF Echange
<1> QED BY <1>8, <1>9

\* What else goes on with the game.
LEMMA JeuSuite ==
  ASSUME IInv, TypesDialogue, TypesDialogue', Presents, Tranquille', Next, NEW t \in Threads, Jeu(t),
         \A u \in Threads \ {t} : thread'[u] = thread[u],
         thread'[t].j1 = thread[t].j1, thread'[t].j2 = thread[t].j2,
         \A i \in 1 .. nbClients' : clientsInGame'[i] # Aucun <=> clients'[i].sock \in Joueurs(t),
         \A c \in Joueurs(t) :
           /\ programme'[c].mode \in EnPartie
           /\ programme'[c].partie = PartieVide
           /\ programme'[c].mode # "attend" => Mode(c) # "attend" \/ Vierge(sortie'[c], {"accord"}),
         Exempts(entree, {"refus"}) /\ (\A c \in Joueurs(t) : Vierge(sortie'[c], {"refus"})),
         Echange(t)'
  PROVE  Jeu(t)'
<1>1. /\ sortie \in [Clients -> Seq(Avis)] /\ sortie' \in [Clients -> Seq(Avis)]
      /\ entree \in [Clients -> Seq(Requetes)] /\ entree' \in [Clients -> Seq(Requetes)]
  BY DEF TypesDialogue
<1>2. SansDefi' /\ Glissent(entree, entree', RequetesCalmes) /\ Glissent(sortie, sortie', AvisApres)
  BY ApresPas DEF Jeu
<1>3. Exempts(entree', {"refus"})
  BY <1>1, <1>2, EtrangersType, GlissentVierges
<1>4. \A c \in Clients : (Vierge(sortie[c], {"accord"}) => Vierge(sortie'[c], {"accord"}))
                         /\ (Unique(sortie[c], {"accord"}) => Unique(sortie'[c], {"accord"}))
  BY <1>1, <1>2, ApresType, GlissentVierges
<1>5. Joueurs(t)' = Joueurs(t) /\ \A c \in Joueurs(t) : c \in Clients
  BY JeuType DEF Joueurs
<1>6. \A u \in Threads \ {t} : thread'[u].pc = "neuf"
  BY DEF Jeu
<1>7. thread'[t].j1 \in Clients /\ thread'[t].j2 \in Clients /\ thread'[t].j1 # thread'[t].j2
  BY DEF Jeu
<1>8. ASSUME NEW c \in Joueurs(t)
      PROVE  /\ programme'[c].mode # "attend" => Vierge(sortie'[c], {"accord"})
             /\ Unique(sortie'[c], {"accord"})
  BY <1>4, <1>5 DEF Jeu, Exempt
<1>9. principal'.pc # "demarrer"
  BY AccordPas DEF Jeu
<1> QED BY <1>2, <1>3, <1>5, <1>6, <1>7, <1>8, <1>9 DEF Jeu, Exempt, Mode

\* The game goes on after a step that does not concern it.
LEMMA JeuNeutre ==
  ASSUME IInv, TypesDialogue, TypesDialogue', Presents, Tranquille', Next, NEW t \in Threads, Jeu(t),
         Neutre(t), UNCHANGED thread,
         NEW T, Glissent(sortie, sortie', T), Etrangers(T, Demandes), 
         \A i \in 1 .. nbClients' : clientsInGame'[i] # Aucun <=> clients'[i].sock \in Joueurs(t),
         \A c \in Joueurs(t) :
           /\ programme'[c].mode \in EnPartie
           /\ programme'[c].partie = PartieVide
           /\ programme'[c].mode # "attend" => Mode(c) # "attend" \/ Vierge(sortie'[c], {"accord"})
           /\ Vierge(sortie'[c], {"refus"})
  PROVE  Jeu(t)'
<1>1. Echange(t)'
  BY EchangeNeutre
<1>2. Exempts(entree, {"refus"})
  BY DEF Jeu
<1> QED BY <1>1, <1>2, JeuSuite

\* What a thread asks, once nothing is under way.
LEMMA PoserQuestion ==
  ASSUME IInv, TypesDialogue, TypesDialogue', NEW t \in Threads, Jeu(t),
         Rien(Mover(t)), Rien(Oppose(t)),
         NEW p \in {"attenteFin", "attenteCoup"}, NEW q, q = IF p = "attenteFin" THEN "demande_fin" ELSE "demande_coup",
         thread' = [thread EXCEPT ![t].pc = p],
         sortie' = Poster(sortie, Mover(t), Message(q)),
         semParties'[thread[t].slot] = 0, UNCHANGED <<entree, programme>>
  PROVE  Echange(t)'
<1>1. /\ Mover(t) \in Clients /\ Oppose(t) \in Clients /\ Mover(t) # Oppose(t)
  BY JeuType
<1>2. sortie \in [Clients -> Seq(Avis)] /\ sortie' \in [Clients -> Seq(Avis)]
  BY DEF TypesDialogue
<1>3. thread \in [Threads -> ThreadType]
  BY DEF IInv, Types, TypeInvariant, ThreadType
<1>4. /\ thread'[t].pc = p /\ thread'[t].slot = thread[t].slot /\ thread'[t].joueur = thread[t].joueur
      /\ thread'[t].j1 = thread[t].j1 /\ thread'[t].j2 = thread[t].j2
  BY <1>3 DEF ThreadType
<1>5. Mover(t)' = Mover(t) /\ Oppose(t)' = Oppose(t) /\ Question(t)' = q
  BY <1>4 DEF Mover, Oppose, Question
<1> DEFINE m == Message(q)
<1>6. m \in Avis /\ m.type = q /\ q \in Demandes
  BY DEF Message, Avis, Demandes
<1> HIDE DEF m
<1>7. sortie' = Poster(sortie, Mover(t), m)
  BY DEF m
<1>8. /\ Glissent(sortie, sortie', {m}) /\ \A d \in Clients : d # Mover(t) => sortie'[d] = sortie[d]
  BY <1>2, <1>6, <1>7, PosterGlisse
<1>9. Vierge(sortie[Mover(t)], Demandes)
  BY DEF Rien, Exempt, Demandes
<1>10. Exempt(sortie', Mover(t), Demandes \ {q})
  <2> DEFINE X == Demandes \ {q}
  <2>1. Etrangers({m}, X)
    BY <1>6 DEF Etrangers
  <2>2. Vierge(sortie[Mover(t)], X)
    BY <1>9 DEF Vierge
  <2> HIDE DEF X
  <2>3. Vierge(sortie'[Mover(t)], X)
    BY <1>1, <1>2, <1>8, <2>1, <2>2, GlissentVierges
  <2> QED BY <2>3 DEF Exempt, X
<1>11. Unique(sortie'[Mover(t)], Demandes)
  BY <1>1, <1>2, <1>6, <1>7, <1>9, PosterUnique
<1>12. Mode(Mover(t)) \notin {"q_fin", "q_coup"} /\ entree[Mover(t)] = <<>>
  BY DEF Rien
<1>13. Pose(t)'
  BY <1>4, <1>5, <1>10, <1>11, <1>12 DEF Pose, Demandes, Mode, Exempt
<1>14. Rien(Oppose(t))'
  BY <1>1, <1>5, <1>8 DEF Rien, Exempt, Mode
<1> QED BY <1>4, <1>13, <1>14 DEF Echange

\* Nobody is asked anything.
LEMMA RienDemander ==
  ASSUME IInv, TypesDialogue, TypesDialogue', NEW t \in Threads, Jeu(t),
         Rien(Mover(t)), Rien(Oppose(t)),
         thread'[t].pc \in {"tour", "resultat", "terminer"}, thread'[t].slot = thread[t].slot,
         thread'[t].j1 = thread[t].j1, thread'[t].j2 = thread[t].j2,
         NEW T, Glissent(sortie, sortie', T), Etrangers(T, Demandes),
         semParties'[thread[t].slot] = 0, UNCHANGED <<entree, programme>>
  PROVE  Echange(t)'
<1>1. /\ Joueurs(t)' = Joueurs(t) /\ Joueurs(t) = {Mover(t), Oppose(t)}
      /\ \A c \in Joueurs(t) : c \in Clients
  BY JeuType DEF Joueurs
<1>3. sortie \in [Clients -> Seq(Avis)] /\ sortie' \in [Clients -> Seq(Avis)]
  BY DEF TypesDialogue
<1>4. \A c \in Clients : Vierge(sortie[c], Demandes) => Vierge(sortie'[c], Demandes)
  BY <1>3, GlissentVierges
<1>2. \A c \in Joueurs(t) : Rien(c)'
  BY <1>1, <1>4 DEF Rien, Exempt, Mode, Demandes
<1> QED BY <1>1, <1>2 DEF Echange

\* A step of the thread of the game, or the end of the game.
LEMMA JeuThread ==
  ASSUME IInv, TypesDialogue, TypesDialogue', Presents, Tranquille', Next, NEW t \in Threads, Jeu(t),
         NEW u \in Threads, AvancerThread(u)
  PROVE  Jeu(t)' \/ Clos'
<1>1. u = t
  <2>2. thread[u].pc # "neuf"
    BY ThreadNeuf
  <2> QED BY <2>2 DEF Jeu
<1>2. /\ UNCHANGED <<entree, programme>> /\ sortie' \in [Clients -> Seq(Avis)]
      /\ Glissent(sortie, sortie', AvisDeJeu)
  BY ThreadDialoguePas
<1>3. /\ Mover(t) \in Clients /\ Oppose(t) \in Clients /\ Mover(t) # Oppose(t)
      /\ Joueurs(t) = {Mover(t), Oppose(t)}
      /\ thread[t] \in ThreadType /\ thread[t].slot \in Slots
      /\ thread[t].pc \in {"tour", "attenteFin", "attenteCoup", "resultat", "terminer"}
      /\ \A c \in Joueurs(t) : c \in Clients /\ Mode(c) \in EnPartie
  BY JeuType
<1>4. thread \in [Threads -> ThreadType] /\ semParties \in [Slots -> Nat]
  BY DEF IInv, Types, TypeInvariant, ThreadType
<1>5. ASSUME Echange(t)', \A v \in Threads \ {t} : thread'[v] = thread[v],
             thread'[t].j1 = thread[t].j1, thread'[t].j2 = thread[t].j2,
             UNCHANGED <<clients, clientsInGame>>
      PROVE  Jeu(t)'
  <2>1. \A i \in 1 .. nbClients' : clientsInGame'[i] # Aucun <=> clients'[i].sock \in Joueurs(t)
    BY <1>5 DEF Jeu, nbClients
  <2>2. \A c \in Joueurs(t) : programme'[c].mode \in EnPartie /\ programme'[c].partie = PartieVide
                              /\ programme'[c].mode = Mode(c)
    BY <1>2, <1>3 DEF Jeu, Mode
  <2>3. \A c \in Joueurs(t) : Vierge(sortie'[c], {"refus"})
    BY <1>2, <1>3, EtrangersType, GlissentVierges DEF Jeu, Exempt, TypesDialogue
  <2>4. Exempts(entree, {"refus"})
    BY DEF Jeu
  <2> QED BY <1>5, <2>1, <2>2, <2>3, <2>4, JeuSuite
<1>6. thread[t].pc \in {"tour", "resultat", "terminer"} =>
        Rien(Mover(t)) /\ Rien(Oppose(t)) /\ semParties[thread[t].slot] = 0
  BY <1>3 DEF Jeu, Echange
<1>7. thread[t].pc \in {"attenteFin", "attenteCoup"} /\ Jeton(t) =>
        Rien(Oppose(t)) /\ Depose(t)
  BY DEF Jeu, Echange, Pose, Affiche, Repondu, Jeton
<1>16. Etrangers({}, Demandes) /\ (UNCHANGED sortie => Glissent(sortie, sortie', {}))
  BY EtrangersType, GlissentMeme DEF TypesDialogue
<1>8. CASE Tour(t)
  <2> DEFINE p == IF thread[t].iter < IterMax THEN "attenteCoup" ELSE "attenteFin"
             q == IF thread[t].iter < IterMax THEN "demande_coup" ELSE "demande_fin"
  <2>1. /\ thread[t].pc = "tour"
        /\ thread' = [thread EXCEPT ![t].pc = p]
        /\ sortie' = Poster(sortie, Mover(t), Message(q))
        /\ UNCHANGED <<semParties, clients, clientsInGame>>
    BY <1>8 DEF Tour, varsMessages, varsTables
  <2>2. p \in {"attenteFin", "attenteCoup"} /\ q = IF p = "attenteFin" THEN "demande_fin" ELSE "demande_coup"
    OBVIOUS
  <2>3. \A v \in Threads \ {t} : thread'[v] = thread[v]
    BY <1>4, <2>1
  <2>4. thread'[t].j1 = thread[t].j1 /\ thread'[t].j2 = thread[t].j2
    BY <1>4, <2>1 DEF ThreadType
  <2> HIDE DEF p, q
  <2>5. Echange(t)'
    BY <1>2, <1>6, <2>1, <2>2, PoserQuestion
  <2> QED BY <1>5, <2>1, <2>3, <2>4, <2>5
<1>9. ~MessageIgnore(t)
  BY <1>7 DEF MessageIgnore, Depose, PourMoi
<1>10. CASE LireFin(t)
  <2>1. thread[t].pc = "attenteFin" /\ Jeton(t)
    BY <1>10 DEF LireFin
  <2>2. Rien(Mover(t)) /\ Rien(Oppose(t)) /\ semParties[thread[t].slot] = 1
        /\ LuPar(t) = Message("fin0")
    BY <1>7, <2>1 DEF Depose, Suite, LuPar
  <2>3. LuPar(t) # Message("fin1")
    BY <2>2 DEF Message
  <2>4. /\ thread' = [thread EXCEPT ![t].pc = "attenteCoup"]
        /\ sortie' = Poster(sortie, Mover(t), Message("demande_coup"))
        /\ semParties' = [semParties EXCEPT ![thread[t].slot] = @ - 1]
        /\ UNCHANGED <<clients, clientsInGame>>
    BY <1>10, <2>3 DEF LireFin, varsTables
  <2>5. semParties'[thread[t].slot] = 0
    BY <1>3, <1>4, <2>2, <2>4
  <2>6. \A v \in Threads \ {t} : thread'[v] = thread[v]
    BY <1>4, <2>4
  <2>7. thread'[t].j1 = thread[t].j1 /\ thread'[t].j2 = thread[t].j2
    BY <1>4, <2>4 DEF ThreadType
  <2>8. Echange(t)'
    <3> DEFINE p == "attenteCoup"
               q == "demande_coup"
    <3>1. p \in {"attenteFin", "attenteCoup"} /\ q = IF p = "attenteFin" THEN "demande_fin" ELSE "demande_coup"
      OBVIOUS
    <3>2. thread' = [thread EXCEPT ![t].pc = p] /\ sortie' = Poster(sortie, Mover(t), Message(q))
      BY <2>4
    <3> HIDE DEF p, q
    <3> QED BY <1>2, <2>2, <2>5, <3>1, <3>2, PoserQuestion
  <2> QED BY <1>5, <2>4, <2>6, <2>7, <2>8
<1>11. CASE LireCoup(t)
  <2>1. /\ thread[t].pc = "attenteCoup" /\ Jeton(t)
        /\ thread' = [thread EXCEPT ![t].pc = "resultat"]
        /\ semParties' = [semParties EXCEPT ![thread[t].slot] = @ - 1]
        /\ UNCHANGED <<clients, clientsInGame, sortie>>
    BY <1>11 DEF LireCoup, varsTables, varsClients
  <2>2. Rien(Mover(t)) /\ Rien(Oppose(t)) /\ semParties[thread[t].slot] = 1
    BY <1>7, <2>1 DEF Depose
  <2>3. semParties'[thread[t].slot] = 0
    BY <1>3, <1>4, <2>1, <2>2
  <2>4. /\ thread'[t].j1 = thread[t].j1 /\ thread'[t].j2 = thread[t].j2
        /\ thread'[t].pc = "resultat" /\ thread'[t].slot = thread[t].slot
        /\ \A v \in Threads \ {t} : thread'[v] = thread[v]
    BY <1>4, <2>1 DEF ThreadType
  <2>5. Echange(t)'
    BY <1>2, <1>16, <2>1, <2>2, <2>3, <2>4, RienDemander
  <2> QED BY <1>5, <2>1, <2>4, <2>5
<1>12. CASE ContinuerPartie(t)
  <2>1. /\ thread[t].pc = "resultat"
        /\ thread' = [thread EXCEPT ![t].pc = "tour", ![t].joueur = 3 - @,
                                    ![t].iter = IF @ < IterMax THEN @ + 1 ELSE @]
        /\ UNCHANGED <<clients, clientsInGame, sortie, semParties>>
    BY <1>12 DEF ContinuerPartie, varsTables, varsClients, varsMessages
  <2>2. /\ thread'[t].j1 = thread[t].j1 /\ thread'[t].j2 = thread[t].j2
        /\ thread'[t].pc = "tour" /\ thread'[t].slot = thread[t].slot
        /\ \A v \in Threads \ {t} : thread'[v] = thread[v]
    BY <1>4, <2>1 DEF ThreadType
  <2>3. Echange(t)'
    BY <1>2, <1>6, <1>16, <2>1, <2>2, RienDemander
  <2> QED BY <1>5, <2>1, <2>2, <2>3
<1>13. CASE TerminerPartie(t)
  <2>1. /\ thread[t].pc = "resultat"
        /\ thread' = [thread EXCEPT ![t].pc = "terminer"]
        /\ sortie' = Poster(sortie, Mover(t), Message("terminer"))
        /\ UNCHANGED <<clients, clientsInGame, semParties>>
    BY <1>13 DEF TerminerPartie, varsTables, varsMessages
  <2>2. /\ thread'[t].j1 = thread[t].j1 /\ thread'[t].j2 = thread[t].j2
        /\ thread'[t].pc = "terminer" /\ thread'[t].slot = thread[t].slot
        /\ \A v \in Threads \ {t} : thread'[v] = thread[v]
    BY <1>4, <2>1 DEF ThreadType
  <2> DEFINE m == Message("terminer")
  <2>3. m \in Avis /\ Etrangers({m}, Demandes)
    BY DEF Message, Avis, Etrangers, Demandes
  <2> HIDE DEF m
  <2>4. sortie' = Poster(sortie, Mover(t), m) /\ sortie \in [Clients -> Seq(Avis)]
    BY <2>1 DEF m, TypesDialogue
  <2>5. Glissent(sortie, sortie', {m})
    BY <2>3, <2>4, PosterGlisse
  <2>6. Echange(t)'
    BY <1>2, <1>6, <2>1, <2>2, <2>3, <2>5, RienDemander
  <2> QED BY <1>5, <2>1, <2>2, <2>6
<1>17. CASE AnnoncerVainqueur(t)
  <2>1. thread'[t].pc = "nettoyage" /\ \A v \in Threads \ {t} : thread'[v] = thread[v]
    BY <1>4, <1>17 DEF ThreadType, AnnoncerVainqueur, DebutNettoyage
  <2>2. \A v \in Threads : ~Actif(v)'
    BY <2>1 DEF Jeu, Actif
  <2>3. SansDefi' /\ principal'.pc # "demarrer"
    BY ApresPas, AccordPas DEF Jeu
  <2> QED BY <2>2, <2>3 DEF Clos
<1>14. /\ ~FinirAbandon(t) /\ ~Parcourir(t) /\ ~AnnoncerFin(t) /\ ~Effacer(t) /\ ~Reconnaitre(t)
       /\ ~Detacher(t) /\ ~Reprendre(t) /\ ~FinThread(t)
  BY <1>3 DEF FinirAbandon, Parcourir, AnnoncerFin, Effacer, Reconnaitre, Detacher, Reprendre,
              FinThread, AuTour
<1>15. ~Annulation(t)
  BY DEF Annulation, Presents
<1> QED BY <1>1, <1>8, <1>9, <1>10, <1>11, <1>12, <1>13, <1>14, <1>15, <1>17 DEF AvancerThread

\* A client that does not play changes nothing of the game.
LEMMA JeuAutreClient ==
  ASSUME IInv, TypesDialogue, TypesDialogue', Presents, Tranquille', Next, NEW t \in Threads, Jeu(t),
         NEW c \in Clients, c \notin Joueurs(t), AvancerClient(c)
  PROVE  Jeu(t)'
<1>1. UNCHANGED varsServeur /\ Seul(c)
  BY ClientServeur, ClientDialoguePas
<1>2. Ordinaire(c)
  BY SansDefiClient DEF Jeu
<1>3. Glissent(sortie, sortie', {}) /\ Etrangers({}, Demandes)
  BY <1>2, ClientOrdinaire, EtrangersType
<1>4. ASSUME NEW d \in Joueurs(t)
      PROVE  entree'[d] = entree[d] /\ sortie'[d] = sortie[d] /\ programme'[d] = programme[d]
             /\ Mode(d) \in EnPartie
  BY <1>1, JeuType DEF Seul
<1>5. Neutre(t)
  BY <1>1, <1>4 DEF Neutre, Mode, varsServeur, varsMessages
<1>6. UNCHANGED <<thread, clients, clientsInGame>>
  BY <1>1 DEF varsServeur, varsTables
<1>7. \A i \in 1 .. nbClients' : clientsInGame'[i] # Aucun <=> clients'[i].sock \in Joueurs(t)
  BY <1>6 DEF Jeu, nbClients
<1>8. \A d \in Joueurs(t) :
        /\ programme'[d].mode \in EnPartie /\ programme'[d].partie = PartieVide
        /\ programme'[d].mode = Mode(d) /\ Vierge(sortie'[d], {"refus"})
  BY <1>4 DEF Jeu, Exempt, Mode
<1>9. \A d \in Joueurs(t) : programme'[d].mode # "attend" => Mode(d) # "attend" \/ Vierge(sortie'[d], {"accord"})
  BY <1>8
<1> QED BY <1>3, <1>5, <1>6, <1>7, <1>8, <1>9, JeuNeutre

\* A client that connects does not play.
LEMMA JeuConnecter ==
  ASSUME IInv, TypesDialogue, TypesDialogue', Presents, Tranquille', Next, NEW t \in Threads, Jeu(t),
         NEW c \in Clients, Connecter(c)
  PROVE  Jeu(t)'
<1>1. /\ Mode(c) = "hors" /\ c \notin Connectes
      /\ clients' = Append(clients, [sock |-> c, etat |-> 0])
      /\ programme' = [programme EXCEPT ![c] = Programme("menu")]
      /\ UNCHANGED <<clientsInGame, thread, entree, sortie, messagesParties, semParties>>
  BY DEF Connecter, Mode, varsMessages
<1>2. c \notin Joueurs(t)
  BY <1>1, JeuType DEF EnPartie
<1>3. \A d \in Joueurs(t) : programme'[d] = programme[d] /\ Mode(d) \in EnPartie /\ d \in Clients
  BY <1>1, <1>2, JeuType DEF TypesDialogue
<1>4. Neutre(t)
  BY <1>1, <1>3 DEF Neutre, Mode
<1>5. Glissent(sortie, sortie', {}) /\ Etrangers({}, Demandes)
  BY <1>1, GlissentMeme, EtrangersType DEF TypesDialogue
<1>6. \A i \in 1 .. nbClients' : clientsInGame'[i] # Aucun <=> clients'[i].sock \in Joueurs(t)
  <2>1. clients \in Seq(EntreesClients) /\ nbClients \in Nat /\ nbClients + 1 <= MaxClients
    BY <1>1, ClientsType, PlaceLibre DEF IInv
  <2> DEFINE m == [sock |-> c, etat |-> 0]
  <2>2. m \in EntreesClients /\ m.sock = c /\ clients' = Append(clients, m)
    BY <1>1 DEF EntreesClients
  <2> HIDE DEF m
  <2>3. /\ Len(clients') = nbClients + 1 /\ clients'[nbClients + 1] = m
        /\ \A k \in 1..nbClients : clients'[k] = clients[k]
    BY <2>1, <2>2, AjoutFile DEF nbClients
  <2>4. clientsInGame[nbClients + 1] = Aucun
    <3>1. principal.pc = "select"
      BY DEF Connecter
    <3> QED BY <2>1, <3>1, MaxClientsType DEF IInv, PlacesVierges, Remplis, Places
  <2>5. nbClients' = nbClients + 1
    BY <2>3 DEF nbClients
  <2>6. ASSUME NEW i \in 1 .. nbClients'
        PROVE  clientsInGame'[i] # Aucun <=> clients'[i].sock \in Joueurs(t)
    <3>1. CASE i = nbClients + 1
      BY <1>1, <1>2, <2>2, <2>3, <2>4, <3>1
    <3>2. CASE i \in 1..nbClients
      BY <1>1, <2>3, <3>2 DEF Jeu
    <3> QED BY <2>1, <2>5, <2>6, <3>1, <3>2
  <2> QED BY <2>6
<1>7. \A d \in Joueurs(t) :
        /\ programme'[d].mode \in EnPartie /\ programme'[d].partie = PartieVide
        /\ programme'[d].mode = Mode(d) /\ Vierge(sortie'[d], {"refus"})
  BY <1>1, <1>3 DEF Jeu, Exempt, Mode
<1>8. \A d \in Joueurs(t) : programme'[d].mode # "attend" => Mode(d) # "attend" \/ Vierge(sortie'[d], {"accord"})
  BY <1>7
<1>9. UNCHANGED thread
  BY <1>1
<1> QED BY <1>4, <1>5, <1>6, <1>7, <1>8, <1>9, JeuNeutre

\* The main thread puts the answer in the mailbox of the game.
LEMMA JeuServir ==
  ASSUME IInv, TypesDialogue, TypesDialogue', TypeBoites, Presents, Tranquille', Next,
         NEW t \in Threads, Jeu(t), NEW i \in Places, Servir(i)
  PROVE  Jeu(t)'
<1> DEFINE c == clients[i].sock
           s == thread[t].slot
<1>1. /\ Pret(i) /\ Lire(i) /\ Lu(i).type \notin {"eof", "defi", "accord"}
      /\ UNCHANGED <<thread, clientsInGame, programme, compteurs>> /\ MemesSockets
      /\ Glissent(sortie, sortie', AvisDeServir)
  BY SansDefiServir DEF Jeu
<1>2. /\ i \in 1..nbClients /\ c \in Clients /\ entree[c] # <<>> /\ Len(entree[c]) \in Nat \ {0}
      /\ Lu(i) = entree[c][1] /\ entree'[c] = Tail(entree[c])
      /\ \A d \in Clients : d # c => entree'[d] = entree[d]
  BY <1>1, LireType
<1>3. Lu(i).type # "refus"
  BY <1>2 DEF Jeu, Exempts, Vierge
<1>4. clientsInGame[i] # Aucun <=> c \in Joueurs(t)
  BY <1>2 DEF Jeu
<1>5. \/ IgnorerReponse(i) \/ TransmettreAuJeu(i) \/ EnvoyerListe(i)
      \/ AjouterObservateur(i) \/ RetirerObservateur(i)
  <2>1. ~QuitterHorsJeu(i) /\ ~QuitterEnJeu(i)
    BY <1>1 DEF QuitterHorsJeu, QuitterEnJeu, Recu
  <2>2. ~TransmettreDefi(i) /\ ~RefuserDefi(i)
    BY <1>1, <1>3 DEF TransmettreDefi, RefuserDefi, Transmettre, Recu
  <2>3. ~AccepterDefi(i)
    <3>1. AccepterDefi(i) => Transmettre(i, "accord", 2)
      BY Zenon DEF AccepterDefi
    <3>2. ~Transmettre(i, "accord", 2)
      BY <1>1 DEF Transmettre, Recu
    <3> QED BY <3>1, <3>2
  <2> QED BY <2>1, <2>2, <2>3 DEF Servir
<1>6. \A d \in Clients : Vierge(sortie[d], {"refus"}) => Vierge(sortie'[d], {"refus"})
  <2>1. Glissent(sortie, sortie', AvisDeJeu \cup {m \in Avis : m.type = "liste"})
    <3> DEFINE m == [type |-> "liste", parties |-> {parties[x] : x \in Slots \ threadsLibres}]
               T == AvisDeJeu \cup {x \in Avis : x.type = "liste"}
    <3>1. m \in Avis /\ m.type = "liste"
      BY DEF IInv, Types, Avis, Listees
    <3>2. m \in T
      BY <3>1
    <3>3. UNCHANGED sortie \/ sortie' = Poster(sortie, c, m)
      BY <1>5 DEF IgnorerReponse, TransmettreAuJeu, EnvoyerListe, AjouterObservateur, RetirerObservateur
    <3>4. sortie \in [Clients -> Seq(Avis)]
      BY DEF TypesDialogue
    <3> HIDE DEF m, T
    <3>5. Glissent(sortie, sortie', T)
      BY <3>1, <3>2, <3>3, <3>4, PosterGlisse, GlissentMeme
    <3> QED BY <3>5 DEF T
  <2>2. Etrangers(AvisDeJeu \cup {m \in Avis : m.type = "liste"}, {"refus"})
    BY DEF Etrangers, AvisDeJeu
  <2> QED BY <2>1, <2>2, GlissentVierges DEF TypesDialogue
<1>7. \A k \in 1 .. nbClients' : clientsInGame'[k] # Aucun <=> clients'[k].sock \in Joueurs(t)
  BY <1>1, MemesSocketsPas DEF Jeu, MemesSockets, nbClients, IInv
<1>8. \A d \in Joueurs(t) :
        /\ programme'[d].mode \in EnPartie /\ programme'[d].partie = PartieVide
        /\ programme'[d].mode = Mode(d) /\ Vierge(sortie'[d], {"refus"})
  BY <1>1, <1>6, JeuType DEF Jeu, Exempt, Mode
<1>9. \A d \in Joueurs(t) : programme'[d].mode # "attend" => Mode(d) # "attend" \/ Vierge(sortie'[d], {"accord"})
  BY <1>8
<1>10. Etrangers(AvisDeServir, Demandes)
  BY ApresType DEF Demandes
<1>11. CASE c \notin Joueurs(t)
  <2>1. UNCHANGED <<semParties, messagesParties>>
    BY <1>4, <1>5, <1>11 DEF IgnorerReponse, TransmettreAuJeu, EnvoyerListe, AjouterObservateur,
                             RetirerObservateur, varsMessages
  <2>2. \A d \in Joueurs(t) : entree'[d] = entree[d]
    BY <1>2, <1>11, JeuType
  <2>3. Neutre(t)
    BY <1>1, <1>8, <2>1, <2>2 DEF Neutre
  <2>4. UNCHANGED thread
    BY <1>1
  <2> QED BY <1>1, <1>7, <1>8, <1>9, <1>10, <2>3, <2>4, JeuNeutre
<1>12. CASE c \in Joueurs(t)
  <2>1. /\ Mover(t) \in Clients /\ Oppose(t) \in Clients /\ Mover(t) # Oppose(t)
        /\ Joueurs(t) = {Mover(t), Oppose(t)} /\ s \in Slots
    BY JeuType
  <2>2. /\ c = Mover(t) /\ thread[t].pc \in {"attenteFin", "attenteCoup"}
        /\ Repondu(t) /\ Rien(Oppose(t))
    BY <1>2, <1>12, <2>1 DEF Jeu, Echange, Rien, Pose, Affiche, Depose
  <2>3. clientsInGame[i] = s /\ clientsInGame[i] # Aucun
    BY <1>4, <1>12, JeuRoute
  <2>4. TransmettreAuJeu(i)
    BY <1>5, <2>3 DEF IgnorerReponse, EnvoyerListe, AjouterObservateur, RetirerObservateur, Recu
  <2>5. /\ messagesParties' = [messagesParties EXCEPT ![s] = [sock |-> c, message |-> Lu(i)]]
        /\ semParties' = [semParties EXCEPT ![s] = @ + 1]
        /\ UNCHANGED sortie
    BY <2>3, <2>4 DEF TransmettreAuJeu
  <2>6. entree[c] = <<Message(Suite(t))>> /\ semParties[s] = 0
    BY <2>2 DEF Repondu
  <2>7. Lu(i) = Message(Suite(t)) /\ entree'[c] = <<>>
    BY <1>2, <2>6
  <2>8. messagesParties'[s] = [sock |-> Mover(t), message |-> Message(Suite(t))]
    BY <2>1, <2>2, <2>5, <2>7 DEF TypeBoites
  <2>9. semParties'[s] = 1
    BY <2>1, <2>5, <2>6 DEF IInv, Types, TypeInvariant
  <2>10. /\ thread'[t] = thread[t] /\ Mover(t)' = Mover(t) /\ Oppose(t)' = Oppose(t)
         /\ Suite(t)' = Suite(t)
    BY <1>1 DEF Mover, Oppose, Suite
  <2>11. Rien(Mover(t))' /\ Rien(Oppose(t))'
    BY <1>1, <1>2, <2>1, <2>2, <2>5, <2>7, <2>10 DEF Rien, Repondu, Exempt, Mode
  <2>12. Depose(t)'
    BY <2>8, <2>9, <2>10, <2>11 DEF Depose, Message
  <2>13. Echange(t)'
    BY <2>2, <2>10, <2>11, <2>12 DEF Echange
  <2>14. Exempts(entree, {"refus"})
    BY DEF Jeu
  <2>15. \A u \in Threads \ {t} : thread'[u] = thread[u]
    BY <1>1
  <2>16. thread'[t].j1 = thread[t].j1 /\ thread'[t].j2 = thread[t].j2
    BY <1>1
  <2> QED BY <1>7, <1>8, <1>9, <2>13, <2>14, <2>15, <2>16, JeuSuite
<1> QED BY <1>11, <1>12

\* The only message of some types has been read.
LEMMA UniqueQueue ==
  ASSUME NEW S, NEW q \in Seq(S), NEW X, Unique(q, X), q # <<>>, q[1].type \in X
  PROVE  Vierge(Tail(q), X)
<1>1. /\ Len(q) \in Nat \ {0} /\ Len(Tail(q)) = Len(q) - 1
      /\ \A k \in 1 .. Len(q) - 1 : Tail(q)[k] = q[k + 1]
  BY QueueFile
<1>2. ASSUME NEW k \in 1 .. Len(Tail(q)), Tail(q)[k].type \in X
      PROVE  FALSE
  <2>1. k + 1 \in 1 .. Len(q) /\ 1 \in 1 .. Len(q) /\ k + 1 # 1 /\ q[k + 1].type \in X
    BY <1>1, <1>2
  <2> QED BY <2>1 DEF Unique
<1> QED BY <1>2 DEF Vierge

\* An answer in an empty queue.
LEMMA FileSeule ==
  ASSUME NEW S, NEW m \in S
  PROVE  Append(<<>>, m) = <<m>>
OBVIOUS

\* A step of a player: the game goes on, or the player leaves it for good.
LEMMA JeuJoueur ==
  ASSUME IInv, TypesDialogue, TypesDialogue', Presents, Tranquille', Next, NEW t \in Threads, Jeu(t),
         NEW c \in Joueurs(t), AvancerClient(c)
  PROVE  Jeu(t)' \/ Clos'
<1>1. /\ Mover(t) \in Clients /\ Oppose(t) \in Clients /\ Mover(t) # Oppose(t)
      /\ Joueurs(t) = {Mover(t), Oppose(t)}
      /\ \A d \in Joueurs(t) : d \in Clients /\ Mode(d) \in EnPartie
      /\ c \in Clients /\ Mode(c) \in {"attend", "jeu", "q_fin", "q_coup"}
  BY JeuType DEF EnPartie
<1>2. UNCHANGED <<thread, clients, clientsInGame, semParties, messagesParties>> /\ Seul(c)
  BY <1>1, ClientServeur, ClientDialoguePas DEF varsServeur, varsTables, varsMessages
<1>3. Ordinaire(c)
  BY <1>1, SansDefiClient DEF Jeu
<1>4. Glissent(sortie, sortie', {}) /\ Etrangers({}, Demandes)
  BY <1>1, <1>3, ClientOrdinaire, EtrangersType
<1>5. /\ sortie \in [Clients -> Seq(Avis)] /\ sortie' \in [Clients -> Seq(Avis)]
      /\ entree \in [Clients -> Seq(Requetes)] /\ sortie[c] \in Seq(Avis)
  BY <1>1 DEF TypesDialogue
<1>6. /\ programme[c].partie = PartieVide /\ Vierge(sortie[c], {"refus"})
      /\ Mode(c) # "attend" => Vierge(sortie[c], {"accord"})
      /\ Unique(sortie[c], {"accord"})
  BY DEF Jeu, Exempt
<1>7. \A X : Vierge(sortie[c], X) => Vierge(sortie'[c], X)
  BY <1>1, <1>4, <1>5, EtrangersType, GlissentVierges
<1>8. /\ \A i \in 1 .. nbClients' : clientsInGame'[i] # Aucun <=> clients'[i].sock \in Joueurs(t)
      /\ \A u \in Threads \ {t} : thread'[u] = thread[u]
      /\ thread'[t].j1 = thread[t].j1 /\ thread'[t].j2 = thread[t].j2
      /\ Exempts(entree, {"refus"})
  BY <1>2 DEF Jeu, nbClients
<1>9. \A d \in Joueurs(t) : d # c =>
        /\ entree'[d] = entree[d] /\ sortie'[d] = sortie[d] /\ programme'[d] = programme[d]
  BY <1>1, <1>2 DEF Seul
\* The player leaves the game.
<1>10. ASSUME programme'[c].mode \notin EnPartie, Mode(c) # "attend"
       PROVE  Clos'
  <2>1. Vierge(sortie'[c], {"accord"})
    BY <1>6, <1>7, <1>10
  <2>2. SansDefi' /\ principal'.pc # "demarrer"
    BY ApresPas, AccordPas DEF Jeu
  <2>3. \A u \in Threads : Actif(u)' => u = t
    BY <1>2 DEF Jeu, Actif
  <2>4. Joueurs(t)' = Joueurs(t)
    BY <1>2 DEF Joueurs
  <2>5. Sorti(t)'
    BY <1>1, <1>10, <2>1, <2>4 DEF Sorti, Mode, Exempt
  <2> QED BY <2>2, <2>3, <2>5 DEF Clos
\* The player goes on.
<1>11. ASSUME programme'[c].mode \in EnPartie, programme'[c].partie = PartieVide,
              programme'[c].mode # "attend" => Mode(c) # "attend" \/ Vierge(sortie'[c], {"accord"}),
              Echange(t)'
       PROVE  Jeu(t)'
  <2>1. ASSUME NEW d \in Joueurs(t)
        PROVE  /\ programme'[d].mode \in EnPartie
               /\ programme'[d].partie = PartieVide
               /\ programme'[d].mode # "attend" => Mode(d) # "attend" \/ Vierge(sortie'[d], {"accord"})
               /\ Vierge(sortie'[d], {"refus"})
    <3>1. CASE d = c
      BY <1>6, <1>7, <1>11, <3>1
    <3>2. CASE d # c
      BY <1>9, <3>2 DEF Jeu, Exempt, Mode
    <3> QED BY <3>1, <3>2
  <2> QED BY <1>8, <1>11, <2>1, JeuSuite
<1>12. ASSUME entree'[c] = entree[c], programme'[c].mode \in EnPartie, programme'[c].partie = PartieVide,
              programme'[c].mode # "attend" => Mode(c) # "attend" \/ Vierge(sortie'[c], {"accord"}),
              Mode(c) \notin {"q_fin", "q_coup"}, programme'[c].mode \notin {"q_fin", "q_coup"}
       PROVE  Jeu(t)'
  <2>1. Neutre(t)
    BY <1>2, <1>9, <1>12 DEF Neutre, Mode
  <2>2. Echange(t)'
    BY <1>4, <2>1, EchangeNeutre
  <2> QED BY <1>11, <1>12, <2>2
<1>13. ASSUME NEW type, Recoit(c, type)
       PROVE  /\ sortie[c] # <<>> /\ Len(sortie[c]) \in Nat \ {0} /\ sortie[c][1].type = type
              /\ sortie'[c] = Tail(sortie[c]) /\ Mode(c) \in {"attend", "jeu"}
  BY <1>1, <1>13, RecoitType DEF Recoit
<1>14. ASSUME NEW mode \in EnPartie, Passer(c, mode)
       PROVE  programme'[c].mode = mode /\ programme'[c].partie = PartieVide
  BY <1>1, <1>6, <1>14, PasserType DEF Modes
<1>15. ~DemanderParties(c) /\ ~QuitterObservation(c)
  BY <1>1 DEF DemanderParties, QuitterObservation, Est
<1>16. ~RecoitRefus(c)
  <2>1. ~Recoit(c, "refus")
    BY <1>6, <1>13 DEF Vierge
  <2> QED BY <2>1 DEF RecoitRefus
<1>17. CASE RecoitAccord(c)
  <2>1. Recoit(c, "accord") /\ Passer(c, "jeu") /\ UNCHANGED entree /\ "jeu" \in EnPartie
    BY <1>17 DEF RecoitAccord, EnPartie
  <2>2. /\ sortie[c] # <<>> /\ sortie[c][1].type = "accord" /\ sortie'[c] = Tail(sortie[c])
        /\ Mode(c) \in {"attend", "jeu"}
    BY <1>13, <2>1
  <2>3. Vierge(sortie'[c], {"accord"})
    <3>1. sortie[c][1].type \in {"accord"}
      BY <2>2
    <3> QED BY <1>5, <1>6, <2>2, <3>1, UniqueQueue
  <2>4. programme'[c].mode = "jeu" /\ programme'[c].partie = PartieVide
    BY <1>14, <2>1
  <2> QED BY <1>12, <2>1, <2>2, <2>3, <2>4
<1>18. CASE RecoitQuestion(c)
  <2>1. PICK type \in Demandes :
          /\ Recoit(c, type) /\ UNCHANGED entree
          /\ Passer(c, IF Mode(c) = "jeu" THEN (IF type = "demande_fin" THEN "q_fin" ELSE "q_coup")
                       ELSE Mode(c))
    BY <1>18 DEF RecoitQuestion, Demandes
  <2>2. /\ sortie[c] # <<>> /\ sortie[c][1].type = type /\ sortie'[c] = Tail(sortie[c])
        /\ Len(sortie[c]) \in Nat \ {0} /\ Mode(c) \in {"attend", "jeu"}
    BY <1>13, <2>1
  <2>3. CASE Mode(c) = "attend"
    <3>1. Passer(c, "attend") /\ "attend" \in EnPartie
      BY <2>1, <2>3 DEF EnPartie
    <3>2. programme'[c].mode = "attend" /\ programme'[c].partie = PartieVide
      BY <1>14, <3>1
    <3> QED BY <1>12, <2>1, <2>3, <3>1, <3>2
  <2>4. CASE Mode(c) = "jeu"
    <3> DEFINE q == IF type = "demande_fin" THEN "q_fin" ELSE "q_coup"
    <3>1. Passer(c, q) /\ q \in EnPartie
      BY <2>1, <2>4 DEF EnPartie
    <3>2. programme'[c].mode = q /\ programme'[c].partie = PartieVide
      <4> HIDE DEF q
      <4> QED BY <1>14, <3>1
    <3>3. ~Vierge(sortie[c], Demandes)
      BY <2>1, <2>2 DEF Vierge
    <3>4. ~Rien(c)
      BY <3>3 DEF Rien, Exempt, Demandes
    <3>5. thread[t].pc \in {"attenteFin", "attenteCoup"} /\ c = Mover(t) /\ Rien(Oppose(t)) /\ Pose(t)
      BY <1>1, <3>3, <3>4 DEF Jeu, Echange, Affiche, Repondu, Depose, Exempt, Demandes
    <3>6. /\ Exempt(sortie, c, Demandes \ {Question(t)}) /\ Unique(sortie[c], Demandes)
          /\ entree[c] = <<>> /\ semParties[thread[t].slot] = 0
      BY <3>5 DEF Pose, Demandes
    <3>7. type = Question(t)
      BY <2>1, <2>2, <3>6 DEF Exempt, Vierge
    <3>8. q = Demande(t)
      BY <3>5, <3>7 DEF Question, Demande
    <3>9. Vierge(sortie'[c], Demandes)
      <4>1. sortie[c][1].type \in Demandes
        BY <2>1, <2>2
      <4> QED BY <1>5, <2>2, <3>6, <4>1, UniqueQueue
    <3>10. /\ thread'[t] = thread[t] /\ Mover(t)' = Mover(t) /\ Oppose(t)' = Oppose(t)
           /\ Demande(t)' = Demande(t)
      BY <1>2 DEF Mover, Oppose, Demande
    <3>11. Affiche(t)'
      BY <1>2, <2>1, <3>2, <3>5, <3>6, <3>8, <3>9, <3>10 DEF Affiche, Exempt, Demandes, Mode
    <3>12. Rien(Oppose(t))'
      BY <1>1, <1>9, <3>5, <3>10 DEF Rien, Exempt, Mode
    <3>13. Echange(t)'
      BY <3>5, <3>10, <3>11, <3>12 DEF Echange
    <3> QED BY <1>11, <2>4, <3>1, <3>2, <3>13
  <2> QED BY <2>2, <2>3, <2>4
\* The answer of the player who was asked.
<1>19. ASSUME Mode(c) \in {"q_fin", "q_coup"}
       PROVE  /\ thread[t].pc = IF Mode(c) = "q_fin" THEN "attenteFin" ELSE "attenteCoup"
              /\ c = Mover(t) /\ Rien(Oppose(t)) /\ Affiche(t)
  BY <1>1, <1>19 DEF Jeu, Echange, Rien, Pose, Affiche, Repondu, Depose, Demande
<1>20. ASSUME Mode(c) \in {"q_fin", "q_coup"},
              NEW type, type = IF Mode(c) = "q_fin" THEN "fin0" ELSE "coup",
              Envoyer(c, Message(type)), Passer(c, "jeu"), UNCHANGED sortie
       PROVE  Jeu(t)'
  <2>1. /\ thread[t].pc \in {"attenteFin", "attenteCoup"} /\ type = Suite(t)
        /\ c = Mover(t) /\ Rien(Oppose(t)) /\ Affiche(t)
    BY <1>19, <1>20 DEF Suite
  <2>2. programme'[c].mode = "jeu" /\ programme'[c].partie = PartieVide /\ "jeu" \in EnPartie
    BY <1>14, <1>20 DEF EnPartie
  <2>3. entree'[c] = <<Message(type)>>
    <3> DEFINE m == Message(type)
    <3>1. m \in Requetes
      BY <1>20 DEF Message, Requetes
    <3>2. entree[c] = <<>>
      BY <2>1 DEF Affiche
    <3>3. Envoyer(c, m)
      BY <1>20
    <3> HIDE DEF m
    <3>4. entree'[c] = Append(entree[c], m)
      BY <1>1, <3>1, <3>3, EnvoyerType
    <3>5. entree'[c] = <<m>>
      BY <3>1, <3>2, <3>4, FileSeule
    <3> QED BY <3>5 DEF m
  <2>4. /\ thread'[t] = thread[t] /\ Mover(t)' = Mover(t) /\ Oppose(t)' = Oppose(t)
        /\ Suite(t)' = Suite(t)
    BY <1>2 DEF Mover, Oppose, Suite
  <2>5. Repondu(t)'
    BY <1>2, <1>20, <2>1, <2>2, <2>3, <2>4 DEF Repondu, Affiche, Exempt, Mode, Message
  <2>6. Rien(Oppose(t))'
    BY <1>1, <1>9, <2>1, <2>4 DEF Rien, Exempt, Mode
  <2>7. Echange(t)'
    BY <2>1, <2>4, <2>5, <2>6 DEF Echange
  <2>8. Mode(c) # "attend"
    BY <1>20
  <2> QED BY <1>11, <2>2, <2>7, <2>8
<1>21. CASE RepondreFin(c)
  <2>1. Mode(c) = "q_fin" /\ UNCHANGED sortie
    BY <1>21 DEF RepondreFin, Est
  <2>2. CASE Envoyer(c, Message("fin0")) /\ Passer(c, "jeu")
    BY <1>20, <2>1, <2>2
  <2>3. CASE Passer(c, "menu")
    <3>1. "menu" \in Modes /\ "menu" \notin EnPartie
      BY DEF Modes, EnPartie
    <3>2. programme'[c].mode = "menu"
      BY <1>1, <2>3, <3>1, PasserType
    <3> QED BY <1>10, <2>1, <3>1, <3>2
  <2> QED BY <1>21, <2>2, <2>3 DEF RepondreFin
<1>22. CASE RepondreCoup(c)
  <2>1. Mode(c) = "q_coup" /\ UNCHANGED sortie /\ Envoyer(c, Message("coup")) /\ Passer(c, "jeu")
    BY <1>22 DEF RepondreCoup, Est
  <2> QED BY <1>20, <2>1
<1>23. CASE RecoitFinDePartie(c)
  <2>1. /\ \E type : Recoit(c, type)
        /\ UNCHANGED entree /\ Passer(c, IF Mode(c) = "jeu" THEN "menu" ELSE Mode(c))
    BY <1>23 DEF RecoitFinDePartie
  <2>2. Mode(c) \in {"attend", "jeu"}
    BY <1>13, <2>1
  <2>3. CASE Mode(c) = "jeu"
    <3>1. "menu" \in Modes /\ "menu" \notin EnPartie
      BY DEF Modes, EnPartie
    <3>2. Passer(c, "menu")
      BY <2>1, <2>3
    <3>3. programme'[c].mode = "menu"
      BY <1>1, <3>1, <3>2, PasserType
    <3> QED BY <1>10, <2>3, <3>1, <3>3
  <2>4. CASE Mode(c) = "attend"
    <3>1. Passer(c, "attend") /\ "attend" \in EnPartie
      BY <2>1, <2>4 DEF EnPartie
    <3>2. programme'[c].mode = "attend" /\ programme'[c].partie = PartieVide
      BY <1>14, <3>1
    <3> QED BY <1>12, <2>1, <2>4, <3>1, <3>2
  <2> QED BY <2>2, <2>3, <2>4
<1>24. CASE RecoitListe(c)
  <2>1. Recoit(c, "liste") /\ UNCHANGED entree /\ Passer(c, Mode(c))
    BY <1>1, <1>24 DEF RecoitListe
  <2>2. Mode(c) \in {"attend", "jeu"} /\ Mode(c) \in EnPartie
    BY <1>13, <2>1 DEF EnPartie
  <2>3. programme'[c].mode = Mode(c) /\ programme'[c].partie = PartieVide
    BY <1>14, <2>1, <2>2
  <2> QED BY <1>12, <2>1, <2>2, <2>3
<1>25. CASE RecoitFinObservation(c)
  <2>1. Recoit(c, "obs_terminer") /\ UNCHANGED <<entree, programme>>
    BY <1>6, <1>25 DEF RecoitFinObservation
  <2>2. Mode(c) \in {"attend", "jeu"} /\ Mode(c) \in EnPartie
    BY <1>13, <2>1 DEF EnPartie
  <2>3. programme'[c].mode = Mode(c) /\ programme'[c].partie = PartieVide
    BY <1>6, <2>1 DEF Mode
  <2> QED BY <1>12, <2>1, <2>2, <2>3
<1> QED BY <1>3, <1>15, <1>16, <1>17, <1>18, <1>21, <1>22, <1>23, <1>24, <1>25 DEF Ordinaire

-----------------------------------------------------------------------------
(* The accept is handled and start_game is yet to run. *)

\* A client program: the two players stay in the dialogue.
LEMMA DemarreClient ==
  ASSUME IInv, TypesDialogue, TypesDialogue', Presents, Tranquille', Next,
         NEW a, NEW b, Demarre(a, b), NEW c \in Clients, AvancerClient(c)
  PROVE  Demarre(a, b)'
<1>1. SansDefi /\ a \in Clients /\ b \in Clients /\ \A d \in {a, b} : Invite(d)
  BY DEF Demarre
<1>2. SansDefi' /\ Glissent(entree, entree', RequetesCalmes)
  BY <1>1, ApresPas
<1>3. UNCHANGED <<principal, thread, clients, semParties>> /\ Seul(c)
  BY ClientServeur, ClientDialoguePas DEF varsServeur, varsTables, varsMessages
<1>4. Ordinaire(c)
  BY <1>1, SansDefiClient
<1>5. Glissent(sortie, sortie', {})
  BY <1>4, ClientOrdinaire
<1>6. /\ sortie \in [Clients -> Seq(Avis)] /\ sortie' \in [Clients -> Seq(Avis)]
      /\ entree \in [Clients -> Seq(Requetes)] /\ entree' \in [Clients -> Seq(Requetes)]
      /\ sortie[c] \in Seq(Avis)
  BY DEF TypesDialogue
<1>7. Exempts(entree', {"refus"})
  BY <1>2, <1>6, EtrangersType, GlissentVierges DEF Demarre
<1>8. ASSUME NEW X
      PROVE  /\ Vierge(sortie[c], X) => Vierge(sortie'[c], X)
             /\ Unique(sortie[c], X) => Unique(sortie'[c], X)
  BY <1>5, <1>6, EtrangersType, GlissentVierges
<1>9. ASSUME c \in {a, b}
      PROVE  Invite(c)'
  <2>1. /\ Mode(c) \in {"attend", "jeu"} /\ programme[c].partie = PartieVide
        /\ Vierge(sortie[c], {"refus", "abandon", "terminer"})
        /\ Vierge(sortie[c], {"demande_fin", "demande_coup"})
        /\ Mode(c) # "attend" => Vierge(sortie[c], {"accord"})
        /\ Unique(sortie[c], {"accord"})
        /\ entree[c] = <<>>
    BY <1>1, <1>9 DEF Invite, Rien, Exempt, EnPartie
  <2>2. ASSUME programme'[c].mode \in {"attend", "jeu"}, programme'[c].partie = PartieVide,
               programme'[c].mode # "attend" => Mode(c) # "attend" \/ Vierge(sortie'[c], {"accord"}),
               UNCHANGED entree
        PROVE  Invite(c)'
    <3>1. /\ Vierge(sortie'[c], {"refus", "abandon", "terminer"})
          /\ Vierge(sortie'[c], {"demande_fin", "demande_coup"})
          /\ Vierge(sortie[c], {"accord"}) => Vierge(sortie'[c], {"accord"})
          /\ Unique(sortie'[c], {"accord"})
      <4>1. ASSUME NEW X, Vierge(sortie[c], X)  PROVE  Vierge(sortie'[c], X)
        BY <1>8, <4>1
      <4>2. ASSUME NEW X, Unique(sortie[c], X)  PROVE  Unique(sortie'[c], X)
        BY <1>8, <4>2
      <4>3. /\ Vierge(sortie'[c], {"refus", "abandon", "terminer"})
            /\ Vierge(sortie'[c], {"demande_fin", "demande_coup"})
        BY <2>1, <4>1
      <4>4. Vierge(sortie[c], {"accord"}) => Vierge(sortie'[c], {"accord"})
        BY <4>1
      <4>5. Unique(sortie'[c], {"accord"})
        BY <2>1, <4>2
      <4> QED BY <4>3, <4>4, <4>5
    <3>2. programme'[c].mode # "attend" => Vierge(sortie'[c], {"accord"})
      BY <2>1, <2>2, <3>1
    <3>3. Rien(c)'
      BY <2>1, <2>2, <3>1 DEF Rien, Exempt, Mode
    <3>4. programme'[c].mode \in EnPartie
      BY <2>2 DEF EnPartie
    <3> QED BY <2>2, <3>1, <3>2, <3>3, <3>4 DEF Invite, Exempt, Mode
  <2>3. ASSUME NEW type, Recoit(c, type)
        PROVE  /\ sortie[c] # <<>> /\ 1 \in 1 .. Len(sortie[c]) /\ sortie[c][1].type = type
               /\ sortie'[c] = Tail(sortie[c])
               /\ type \notin {"refus", "abandon", "terminer", "demande_fin", "demande_coup"}
    <3>1. /\ sortie[c] # <<>> /\ Len(sortie[c]) \in Nat \ {0} /\ sortie[c][1].type = type
          /\ sortie'[c] = Tail(sortie[c])
      BY <2>3, RecoitType DEF Recoit
    <3>2. 1 \in 1 .. Len(sortie[c])
      BY <3>1
    <3> QED BY <2>1, <3>1, <3>2 DEF Vierge
  <2>4. ASSUME NEW mode \in {"attend", "jeu"}, Passer(c, mode)
        PROVE  programme'[c].mode = mode /\ programme'[c].partie = PartieVide
    <3>1. mode \in Modes
      BY DEF Modes, EnPartie
    <3> QED BY <2>1, <2>4, <3>1, PasserType
  <2>5. /\ ~DemanderParties(c) /\ ~QuitterObservation(c) /\ ~RepondreFin(c) /\ ~RepondreCoup(c)
    BY <2>1 DEF DemanderParties, QuitterObservation, RepondreFin, RepondreCoup, Est
  <2>6. ~RecoitRefus(c) /\ ~RecoitQuestion(c) /\ ~RecoitFinDePartie(c)
    BY <2>3 DEF RecoitRefus, RecoitQuestion, RecoitFinDePartie
  <2>7. CASE RecoitAccord(c)
    <3>1. Recoit(c, "accord") /\ Passer(c, "jeu") /\ UNCHANGED entree
      BY <2>7 DEF RecoitAccord
    <3>2. Vierge(sortie'[c], {"accord"})
      <4>1. sortie[c] # <<>> /\ sortie[c][1].type \in {"accord"} /\ sortie'[c] = Tail(sortie[c])
        BY <2>3, <3>1
      <4> QED BY <1>6, <2>1, <4>1, UniqueQueue
    <3>3. programme'[c].mode = "jeu" /\ programme'[c].partie = PartieVide
      BY <2>4, <3>1
    <3> QED BY <2>2, <3>1, <3>2, <3>3
  <2>8. CASE RecoitListe(c)
    <3>1. UNCHANGED entree /\ Passer(c, Mode(c))
      BY <2>1, <2>8 DEF RecoitListe
    <3>2. programme'[c].mode = Mode(c) /\ programme'[c].partie = PartieVide
      BY <2>1, <2>4, <3>1
    <3> QED BY <2>1, <2>2, <3>1, <3>2
  <2>9. CASE RecoitFinObservation(c)
    <3>1. UNCHANGED <<entree, programme>>
      BY <2>1, <2>9 DEF RecoitFinObservation
    <3>2. programme'[c].mode = Mode(c) /\ programme'[c].partie = PartieVide
      BY <2>1, <3>1 DEF Mode
    <3> QED BY <2>1, <2>2, <3>1, <3>2
  <2> QED BY <1>4, <2>5, <2>6, <2>7, <2>8, <2>9 DEF Ordinaire
<1>10. \A d \in {a, b} : Invite(d)'
  <2>1. ASSUME NEW d \in {a, b}, d # c
        PROVE  Invite(d)'
    <3>1. d \in Clients /\ Invite(d)
      BY <1>1
    <3>2. entree'[d] = entree[d] /\ sortie'[d] = sortie[d] /\ programme'[d] = programme[d]
      BY <1>3, <2>1, <3>1 DEF Seul
    <3> QED BY <3>1, <3>2 DEF Invite, Rien, Exempt, Mode
  <2> QED BY <1>9, <2>1
<1> QED BY <1>2, <1>3, <1>7, <1>10 DEF Demarre, nbClients

\* Every step then.
LEMMA DemarrePas ==
  ASSUME IInv, TypesDialogue, TypesDialogue', Presents, Tranquille',
         NEW a \in Clients, NEW b \in Clients, Demarre(a, b), Next
  PROVE  Stade'
<1>1. principal.pc = "demarrer" /\ \A t \in Threads : thread[t].pc = "neuf"
  BY DEF Demarre
<1>2. \A t \in Threads : ~AvancerThread(t)
  BY <1>1, ThreadNeuf
<1>3. ASSUME NEW i \in Places
      PROVE  ~Servir(i)
  <2>1. Servir(i) => Pret(i)
    BY ServirDialoguePas
  <2> QED BY <1>1, <2>1 DEF Pret
<1>4. \A c \in Clients : ~Connecter(c)
  BY <1>1 DEF Connecter
<1>5. CASE Poursuivre
  <2>1. DemarrerPartie
    BY <1>1, <1>5 DEF Poursuivre, DecalerJeux, DecalerVues, Annuler, Joindre
  <2> QED BY <2>1, DemarreJouer DEF Stade
<1>6. ASSUME NEW c \in Clients, AvancerClient(c)
      PROVE  Stade'
  <2>1. Demarre(a, b)'
    BY <1>6, DemarreClient
  <2> QED BY <2>1 DEF Stade
<1> QED BY <1>2, <1>3, <1>4, <1>5, <1>6 DEF Next

-----------------------------------------------------------------------------
(* The dialogue, whole. *)

\* The server starts with no client, no message and no game.
LEMMA InitDialogue ==
  ASSUME Init
  PROVE  DInv
<1> USE DEF Init
<1>1. Programme("hors") \in Profils /\ Programme("hors").mode = "hors"
      /\ Programme("hors").partie = PartieVide
  BY DEF Programme, Profils, Modes, Listees
<1>2. \A c \in Clients : programme[c] = Programme("hors") /\ entree[c] = <<>> /\ sortie[c] = <<>>
  OBVIOUS
<1>3. TypesDialogue
  BY <1>1 DEF TypesDialogue
<1>4. TypeBoites
  BY DEF TypeBoites
<1>5. \A c \in Clients : Len(entree[c]) = 0 /\ Len(sortie[c]) = 0
  OBVIOUS
<1>6. \A t \in Threads : thread[t].pc = "neuf" /\ ~thread[t].annule
  BY DEF Repos
<1>7. \A X : Exempts(entree, X) /\ Exempts(sortie, X)
  BY <1>5 DEF Exempts, Vierge
<1>8. Presents
  BY <1>6, <1>7 DEF Presents, Select
<1>9. AvantJeu
  BY <1>1, <1>2, <1>5, <1>6, <1>7 DEF AvantJeu, Mode, Select
<1>10. Attente(Aucun, Aucun, "aucun")
  BY <1>1, <1>2, <1>5, <1>9 DEF Attente, Unique, Mode
<1>11. Stade
  BY <1>10 DEF Stade, Etapes
<1> QED BY <1>3, <1>4, <1>8, <1>11 DEF DInv

\* The queues and the mailboxes keep their types.
LEMMA TypesDialoguePas ==
  ASSUME IInv, TypesDialogue, TypeBoites, Next
  PROVE  TypesDialogue' /\ TypeBoites'
<1>1. UNCHANGED messagesParties => TypeBoites'
  BY DEF TypeBoites
<1>2. ASSUME NEW t \in Threads, AvancerThread(t)
      PROVE  TypesDialogue' /\ TypeBoites'
  <2>1. UNCHANGED <<entree, programme>> /\ sortie' \in [Clients -> Seq(Avis)]
    BY <1>2, ThreadDialoguePas
  <2>2. UNCHANGED messagesParties
    BY <1>2, ThreadReste
  <2> QED BY <1>1, <2>1, <2>2 DEF TypesDialogue
<1>3. ASSUME NEW i \in Places, Servir(i)
      PROVE  TypesDialogue' /\ TypeBoites'
  <2>1. Pret(i) /\ Lire(i) /\ UNCHANGED programme /\ sortie' \in [Clients -> Seq(Avis)]
    BY <1>3, ServirDialoguePas
  <2>2. /\ entree' \in [Clients -> Seq(Requetes)]
        /\ clients[i].sock \in Clients /\ Lu(i) \in Requetes
    BY <2>1, LireType
  <2>3. TypesDialogue'
    BY <2>1, <2>2 DEF TypesDialogue
  <2>4. CASE TransmettreAuJeu(i)
    <3> DEFINE r == [sock |-> clients[i].sock, message |-> Lu(i)]
    <3>1. r \in [sock : Clients \cup {Aucun}, message : Requetes \cup {Message("vide")}]
      BY <2>2
    <3>2. messagesParties' = [messagesParties EXCEPT ![clientsInGame[i]] = r]
      BY <2>4 DEF TransmettreAuJeu
    <3> HIDE DEF r
    <3>3. TypeBoites'
      BY <3>1, <3>2 DEF TypeBoites
    <3> QED BY <2>3, <3>3
  <2>5. CASE ~TransmettreAuJeu(i)
    <3>1. UNCHANGED messagesParties
      BY <1>3, <2>5 DEF Servir, IgnorerReponse, QuitterHorsJeu, QuitterEnJeu, TransmettreDefi, AccepterDefi,
         RefuserDefi, EnvoyerListe, AjouterObservateur, RetirerObservateur, varsMessages
    <3> QED BY <1>1, <2>3, <3>1
  <2> QED BY <2>4, <2>5
<1>4. ASSUME Poursuivre
      PROVE  TypesDialogue' /\ TypeBoites'
  BY <1>1, <1>4, PoursuivreReste DEF varsMessages, varsClients, TypesDialogue
<1>5. ASSUME NEW c \in Clients, Connecter(c)
      PROVE  TypesDialogue' /\ TypeBoites'
  <2>1. /\ UNCHANGED <<entree, sortie, messagesParties>>
        /\ programme' = [programme EXCEPT ![c] = Programme("menu")]
    BY <1>5 DEF Connecter, varsMessages
  <2>2. Programme("menu") \in Profils
    BY DEF Programme, Profils, Modes, Listees
  <2> QED BY <1>1, <2>1, <2>2 DEF TypesDialogue
<1>6. ASSUME NEW c \in Clients, AvancerClient(c)
      PROVE  TypesDialogue' /\ TypeBoites'
  BY <1>1, <1>6, ClientDialoguePas, ClientServeur DEF varsServeur, varsMessages
<1> QED BY <1>2, <1>3, <1>4, <1>5, <1>6 DEF Next

\* Every step of the game.
LEMMA JeuPartiePas ==
  ASSUME IInv, TypesDialogue, TypesDialogue', TypeBoites, Presents, Tranquille', Next,
         NEW t \in Threads, Jeu(t)
  PROVE  Jeu(t)' \/ Clos'
<1>1. ~Poursuivre
  BY AccordPas DEF Jeu
<1>2. ASSUME NEW c \in Clients, AvancerClient(c)
      PROVE  Jeu(t)' \/ Clos'
  BY <1>2, JeuJoueur, JeuAutreClient
<1> QED BY <1>1, <1>2, JeuThread, JeuServir, JeuConnecter DEF Next

\* Nothing moves.
LEMMA DialogueStable ==
  ASSUME DInv, UNCHANGED vars
  PROVE  DInv'
<1> USE DEF vars, varsServeur, varsClients, varsTables, varsParties, varsMessages
<1>1. TypesDialogue' /\ TypeBoites' /\ (Tranquille' <=> Tranquille) /\ (Presents => Presents')
  BY DEF DInv, TypesDialogue, TypeBoites, Tranquille, Presents
<1>2. AvantJeu => AvantJeu'
  BY DEF AvantJeu, Mode
<1>3. \A a, b, etape : Attente(a, b, etape) => Attente(a, b, etape)'
  BY <1>2 DEF Attente, Mode
<1>4. SansDefi => SansDefi'
  BY DEF SansDefi, Mode
<1>5. ASSUME NEW t \in Threads, Echange(t)
      PROVE  Echange(t)'
  <2>1. \A c : Rien(c) => Rien(c)'
    BY DEF Rien, Exempt, Mode
  <2>2. Mover(t)' = Mover(t) /\ Oppose(t)' = Oppose(t) /\ Joueurs(t)' = Joueurs(t)
    BY DEF Mover, Oppose, Joueurs
  <2>3. Question(t)' = Question(t) /\ Demande(t)' = Demande(t) /\ Suite(t)' = Suite(t)
    BY DEF Question, Demande, Suite
  <2>4. Pose(t) => Pose(t)'
    BY <2>2, <2>3 DEF Pose, Exempt, Mode
  <2>5. Affiche(t) => Affiche(t)'
    BY <2>2, <2>3 DEF Affiche, Exempt, Mode
  <2>6. Repondu(t) => Repondu(t)'
    BY <2>2, <2>3 DEF Repondu, Exempt, Mode
  <2>7. Depose(t) => Depose(t)'
    BY <2>1, <2>2, <2>3 DEF Depose
  <2> QED BY <1>5, <2>1, <2>2, <2>4, <2>5, <2>6, <2>7 DEF Echange
<1>6. \A t \in Threads : Jeu(t) => Jeu(t)'
  BY <1>4, <1>5 DEF Jeu, Joueurs, Exempt, Mode, nbClients
<1>7. Clos => Clos'
  BY <1>4 DEF Clos, Sorti, Actif, Joueurs, Exempt, Mode
<1>8. \A a, b : Demarre(a, b) => Demarre(a, b)'
  BY <1>4 DEF Demarre, Invite, Rien, Exempt, Mode, nbClients
<1>9. Stade => Stade'
  BY <1>3, <1>6, <1>7, <1>8 DEF Stade
<1> QED BY <1>1, <1>9 DEF DInv

\* Every step keeps the invariant of the dialogue.
LEMMA NextDialogue ==
  ASSUME IInv, DInv, [Next]_vars
  PROVE  DInv'
<1>1. CASE UNCHANGED vars
  BY <1>1, DialogueStable
<1>2. CASE Next
  <2>1. TypesDialogue /\ TypeBoites /\ TypesDialogue' /\ TypeBoites'
    BY <1>2, TypesDialoguePas DEF DInv
  <2>2. ASSUME Tranquille'
        PROVE  Presents' /\ Stade'
    <3>1. Presents /\ Stade
      BY <2>2, TranquilleAvant DEF DInv
    <3>2. Presents'
      BY <2>1, <2>2, <3>1, PresentsPas
    <3>3. ASSUME NEW a \in Clients \cup {Aucun}, NEW b \in Clients \cup {Aucun}, NEW etape \in Etapes,
                 Attente(a, b, etape)
          PROVE  Stade'
      BY <1>2, <2>1, <2>2, <3>1, <3>3, AttentePas
    <3>4. ASSUME NEW t \in Threads, Jeu(t)
          PROVE  Stade'
      BY <1>2, <2>1, <2>2, <3>1, <3>4, JeuPartiePas DEF Stade
    <3>5. ASSUME Clos
          PROVE  Stade'
      BY <1>2, <2>1, <2>2, <3>1, <3>5, ClosPas DEF Stade
    <3>6. ASSUME NEW a \in Clients, NEW b \in Clients, Demarre(a, b)
          PROVE  Stade'
      BY <1>2, <2>1, <2>2, <3>1, <3>6, DemarrePas
    <3>7. Stade'
      BY <3>1, <3>3, <3>4, <3>5, <3>6 DEF Stade
    <3> QED BY <3>2, <3>7
  <2> QED BY <2>1, <2>2 DEF DInv
<1> QED BY <1>1, <1>2

\* What the stages say of the mailbox of a running game.
LEMMA DialogueIntactType ==
  ASSUME IInv, DInv
  PROVE  DialogueIntact
<1> SUFFICES ASSUME Tranquille, NEW t \in Threads, Actif(t),
                    \A c \in Joueurs(t) : Mode(c) \in {"jeu", "q_fin", "q_coup"}
             PROVE  LET s == thread[t].slot IN
                    /\ semParties[s] <= 1
                    /\ semParties[s] = 1 =>
                         /\ PourMoi(t)
                         /\ LuPar(t).type \in (CASE thread[t].pc = "attenteFin"  -> {"fin0", "fin1"}
                                                 [] thread[t].pc = "attenteCoup" -> {"coup"}
                                                 [] OTHER -> {})
  BY DEF DialogueIntact, Tranquille
<1>1. Stade
  BY DEF DInv
<1>2. \A a, b, etape : ~Attente(a, b, etape)
  BY DEF Attente, AvantJeu, Actif
<1>3. ~Clos /\ \A a, b : ~Demarre(a, b)
  BY DEF Clos, Sorti, EnPartie, Demarre, Actif
<1>4. Jeu(t)
  <2>1. PICK u \in Threads : Jeu(u)
    BY <1>1, <1>2, <1>3 DEF Stade
  <2>2. u = t
    BY <2>1 DEF Jeu, Actif
  <2> QED BY <2>1, <2>2
<1>5. Echange(t)
  BY <1>4 DEF Jeu
<1>6. semParties[thread[t].slot] = 0 \/ (Depose(t) /\ thread[t].pc \in {"attenteFin", "attenteCoup"})
  BY <1>5 DEF Echange, Pose, Affiche, Repondu
<1>7. CASE Depose(t) /\ thread[t].pc \in {"attenteFin", "attenteCoup"}
  BY <1>7 DEF Depose, PourMoi, LuPar, Suite, Message
<1> QED BY <1>6, <1>7

\* The types of the messages hold in every run.  As long as at most one
\* challenge was ever sent and nobody has left, the dialogue is in one of its
\* stages (do_action, game, read_game, the select loop and the client program).
THEOREM InvariantDialogueServeur == Spec => []DInv
<1>1. Init => DInv
  BY InitDialogue
<1>2. IInv /\ DInv /\ [Next]_vars => DInv'
  BY NextDialogue
<1> QED BY <1>1, <1>2, InvariantServeur, PTL DEF Spec

\* As long as at most one challenge was ever sent, nobody has left and both
\* players are still in the dialogue, what read_game takes from the mailbox
\* answers the question asked last, and no token is left over (game, read_game,
\* the select loop and thread_jeu).
THEOREM DialogueServeur == Spec => []DialogueIntact
BY InvariantServeur, InvariantDialogueServeur, DialogueIntactType, PTL

=============================================================================
