------------------------- MODULE AwalePartie_proofs -------------------------
(***************************************************************************)
(* Proofs about AwalePartie, for every board of up to NB_CASES = 12 pits,  *)
(* every number of seeds and every winning score that the assumptions      *)
(* allow: a game keeps its seeds, the winning score ends it and names its  *)
(* winner, and a turn takes seeds only as the rules say.                   *)
(***************************************************************************)
EXTENDS AwalePartie, Awale_proofs

\* Before a game is over nobody has the winning score, and what it is over
\* with names the winner.
IInv == TypeInvariant /\ Conservation /\ FinJuste

\* The scores are below the seeds of the game, which are fewer than two
\* winning scores.
LEMMA UnSeulGagnant ==
  ASSUME NEW p \in [Cases -> Nat], NEW s \in [Joueurs -> Nat],
         Graines(p) + s[1] + s[2] = NbCases * Grains
  PROVE  ~(s[1] >= Seuil /\ s[2] >= Seuil)
<1>1. Graines(p) \in Nat /\ s[1] \in Nat /\ s[2] \in Nat
  BY GrainesType DEF Joueurs
<1>2. NbCases * Grains = Camp * Grains + Camp * Grains /\ Camp * Grains \in Nat
  <2>1. CASE Camp \in {1, 2, 3}
    BY <2>1, GrainsAssumption DEF NbCases
  <2>2. CASE Camp \in {4, 5, 6}
    BY <2>2, GrainsAssumption DEF NbCases
  <2> QED BY <2>1, <2>2, CampAssumption
<1> QED BY <1>1, <1>2, SeuilAssumption

\* The branch of testFinPartie for a famine never names a winner, whatever
\* the board: a player without seeds whose adversary cannot feed it does not
\* end the game, though the comment there says so.  The branch asks whether
\* the adversary has to feed, which it has as soon as the player has no seeds.
THEOREM TestSansFamine ==
  ASSUME NEW p, NEW j \in Joueurs, NEW s \in [Joueurs -> Nat]
  PROVE  TestFinPartie(p, j, s) = IF s[1] >= Seuil THEN 1 ELSE IF s[2] >= Seuil THEN 2 ELSE 0
<1>1. Adverse(Adverse(j)) = j
  BY DEF Adverse, Joueurs
<1>2. ~(~ADesPions(j, p) /\ ~ObligerNourrir(Adverse(j), p))
  BY <1>1 DEF ObligerNourrir
<1> QED BY <1>2 DEF TestFinPartie

\* The end of a turn keeps the invariant when the turn kept the seeds.
LEMMA FinDeTourPas ==
  ASSUME IInv,
         NEW p \in [Cases -> Nat], NEW s \in [Joueurs -> Nat],
         Graines(p) + s[1] + s[2] = NbCases * Grains,
         FinDeTour(p, s)
  PROVE  IInv'
<1>1. resultat' = IF s[1] >= Seuil THEN 1 ELSE IF s[2] >= Seuil THEN 2 ELSE 0
  BY TestSansFamine DEF IInv, TypeInvariant, FinDeTour
<1>2. ~(s[1] >= Seuil /\ s[2] >= Seuil)
  BY UnSeulGagnant
<1>3. plateau' = p /\ score' = s /\ etape' = (IF resultat' = 0 THEN "tour" ELSE "terminee")
  BY DEF FinDeTour
<1>4. TypeInvariant'
  <2>1. joueur' \in Joueurs /\ iter' \in 1..IterMax /\ choix' = choix
    BY DEF FinDeTour, IInv, TypeInvariant, Adverse, Joueurs, IterMax
  <2> QED BY <1>1, <1>3, <2>1 DEF IInv, TypeInvariant, Joueurs
<1>5. Conservation'
  BY <1>3 DEF Conservation
<1>6. FinJuste'
  <2>1. s[1] \in Nat /\ s[2] \in Nat /\ Seuil \in Nat /\ Seuil > 0
    BY SeuilAssumption, CampAssumption, GrainsAssumption DEF Joueurs
  <2>2. etape' # "terminee" => s[1] < Seuil /\ s[2] < Seuil
    BY <1>1, <1>3, <2>1
  <2>3. etape' = "terminee" => s[resultat'] >= Seuil /\ s[Adverse(resultat')] < Seuil
                               /\ resultat' \in Joueurs
    BY <1>1, <1>2, <1>3, <2>1 DEF Adverse, Joueurs
  <2> QED BY <1>3, <2>1, <2>2, <2>3 DEF FinJuste, Joueurs
<1> QED BY <1>4, <1>5, <1>6 DEF IInv

\* A pit of the player's camp is sown.
LEMMA DepartDansCamp ==
  ASSUME NEW j \in Joueurs, NEW c, ChoixValide(c)
  PROVE  EstDansCamp(j, CaseDepart(j, c))
BY CampAssumption DEF ChoixValide, CaseDepart, EstDansCamp, Joueurs

\* The board a move leaves and what it captured.
LEMMA JouerType ==
  ASSUME TypeInvariant, Jouer,
         NEW dep, dep = CaseDepart(joueur, choix),
         NEW p, p = Egrener(plateau, dep),
         NEW S, S = CasesPrises(joueur, p, CaseArrivee(plateau, dep))
  PROVE  /\ dep \in Cases
         /\ p \in [Cases -> Nat] /\ Graines(p) = Graines(plateau)
         /\ Vider(p, S) \in [Cases -> Nat] /\ SommeSur(p, S) \in Nat
         /\ Graines(p) = Graines(Vider(p, S)) + SommeSur(p, S)
         /\ FinDeTour(Vider(p, S), [score EXCEPT ![joueur] = @ + SommeSur(p, S)])
<1>1. dep \in Cases
  BY DepartType DEF Jouer, TypeInvariant
<1>2. p \in [Cases -> Nat] /\ Graines(p) = Graines(plateau)
  BY <1>1, EgrenerType, EgrenerConserve DEF TypeInvariant
<1>3. /\ Vider(p, S) \in [Cases -> Nat] /\ SommeSur(p, S) \in Nat
      /\ Graines(p) = Graines(Vider(p, S)) + SommeSur(p, S)
  BY <1>2, ViderSomme
<1>4. FinDeTour(Vider(p, S), [score EXCEPT ![joueur] = @ + SommeSur(p, S)])
  BY DEF Jouer
<1> QED BY <1>1, <1>2, <1>3, <1>4

\* Every step of a game keeps the invariant.
LEMMA InvPas == IInv /\ [Next]_vars => IInv'
<1> SUFFICES ASSUME IInv, [Next]_vars PROVE IInv'
  OBVIOUS
<1>t. /\ plateau \in [Cases -> Nat] /\ score \in [Joueurs -> Nat] /\ joueur \in Joueurs
      /\ score[1] \in Nat /\ score[2] \in Nat /\ Graines(plateau) \in Nat
  BY GrainesType DEF IInv, TypeInvariant, Joueurs
<1>1. CASE Continuer
  BY <1>1 DEF Continuer, IInv, TypeInvariant, Conservation, FinJuste
<1>2. CASE Abandonner
  BY <1>2 DEF Abandonner, IInv, TypeInvariant, Conservation, FinJuste
<1>3. CASE Passer
  <2>1. FinDeTour(plateau, score)
    BY <1>3 DEF Passer
  <2>2. Graines(plateau) + score[1] + score[2] = NbCases * Grains
    BY DEF IInv, Conservation
  <2> QED BY <1>t, <2>1, <2>2, FinDeTourPas
<1>4. CASE Jouer
  <2> DEFINE dep == CaseDepart(joueur, choix)
             p == Egrener(plateau, dep)
             S == CasesPrises(joueur, p, CaseArrivee(plateau, dep))
             s == [score EXCEPT ![joueur] = @ + SommeSur(p, S)]
  <2>1. /\ p \in [Cases -> Nat] /\ Graines(p) = Graines(plateau)
        /\ Vider(p, S) \in [Cases -> Nat] /\ SommeSur(p, S) \in Nat
        /\ Graines(p) = Graines(Vider(p, S)) + SommeSur(p, S)
        /\ FinDeTour(Vider(p, S), s)
    BY <1>4, JouerType DEF IInv
  <2>2. Graines(plateau) + score[1] + score[2] = NbCases * Grains
    BY DEF IInv, Conservation
  <2>3. Graines(Vider(p, S)) \in Nat
    BY <2>1, GrainesType
  <2> DEFINE k == SommeSur(p, S)
  <2>4. s \in [Joueurs -> Nat] /\ s[1] + s[2] = score[1] + score[2] + k
    <3> HIDE DEF p, S, k
    <3>1. k \in Nat /\ s = [score EXCEPT ![joueur] = @ + k]
      BY <2>1 DEF k
    <3> HIDE DEF s
    <3>2. CASE joueur = 1
      BY <1>t, <3>1, <3>2 DEF Joueurs
    <3>3. CASE joueur = 2
      BY <1>t, <3>1, <3>3 DEF Joueurs
    <3> QED BY <1>t, <3>2, <3>3 DEF Joueurs
  <2>5. s[1] \in Nat /\ s[2] \in Nat
    BY <2>4 DEF Joueurs
  <2> HIDE DEF p, S, s
  <2>6. Graines(Vider(p, S)) + s[1] + s[2] = NbCases * Grains
    <3> DEFINE g == Graines(Vider(p, S))
               n == NbCases * Grains
               h == Graines(plateau)
    <3>1. /\ h + score[1] + score[2] = n /\ h = g + k /\ g \in Nat /\ k \in Nat /\ h \in Nat
          /\ s[1] + s[2] = score[1] + score[2] + k
      BY <1>t, <2>1, <2>2, <2>3, <2>4
    <3> HIDE DEF g, n, h, k
    <3>2. g + s[1] + s[2] = n
      BY <1>t, <2>5, <3>1
    <3> QED BY <3>2 DEF g, n
  <2> QED BY <2>1, <2>2, <2>4, <2>6, FinDeTourPas
<1>5. CASE Planter
  BY <1>5 DEF Planter, IInv, TypeInvariant, Conservation, FinJuste
<1>7. ASSUME NEW c \in Choix, Recevoir(c) PROVE IInv'
  BY <1>7 DEF Recevoir, IInv, TypeInvariant, Conservation, FinJuste
<1>6. CASE UNCHANGED vars
  BY <1>6 DEF vars, IInv, TypeInvariant, Conservation, FinJuste
<1> QED BY <1>1, <1>2, <1>3, <1>4, <1>5, <1>6, <1>7 DEF Next

\* And a new game has it.
LEMMA InvInit == Init => IInv
<1> SUFFICES ASSUME Init PROVE IInv
  OBVIOUS
<1>1. TypeInvariant
  BY CampAssumption, GrainsAssumption
     DEF Init, TypeInvariant, PlateauInitial, ScoreInitial, Cases, NbCases, Joueurs, IterMax, Choix
<1>2. Graines(plateau) = NbCases * Grains /\ NbCases * Grains \in Nat
  BY GrainesInitial, GrainsAssumption, CampAssumption DEF Init, NbCases
<1>3. score[1] = 0 /\ score[2] = 0
  BY DEF Init, ScoreInitial, Joueurs
<1>4. Conservation
  BY <1>2, <1>3 DEF Conservation
<1>5. Seuil > 0
  BY CampAssumption, GrainsAssumption, SeuilAssumption
<1>6. FinJuste
  <2>1. etape = "tour"
    BY DEF Init
  <2> QED BY <1>3, <1>5, <2>1, SeuilAssumption DEF FinJuste, Joueurs
<1> QED BY <1>1, <1>4, <1>6 DEF IInv

\* The invariant holds in every state of every game.
THEOREM InvariantPartie == Spec => []IInv
<1>1. Init => IInv
  BY InvInit
<1>2. IInv /\ [Next]_vars => IInv'
  BY InvPas
<1> QED BY <1>1, <1>2, PTL DEF Spec

\* The board, the scores and the turn keep their types.
THEOREM TypePartie == Spec => []TypeInvariant
<1>1. IInv => TypeInvariant
  BY DEF IInv
<1> QED BY <1>1, InvariantPartie, PTL

\* No move, whatever it sows and captures, creates or loses a seed.
THEOREM ConservationPartie == Spec => []Conservation
<1>1. IInv => Conservation
  BY DEF IInv
<1> QED BY <1>1, InvariantPartie, PTL

\* A winning score ends the game, and the player announced has not lost it.
THEOREM FinPartie == Spec => []FinJuste
<1>1. IInv => FinJuste
  BY DEF IInv
<1> QED BY <1>1, InvariantPartie, PTL

(***************************************************************************)
(* What a turn may take.                                                   *)
(***************************************************************************)

\* The action of PrisesAdverses.
PrisesDuTour ==
  LET perdues == {c \in CampDe(Adverse(joueur)) : plateau'[c] < plateau[c]}
  IN  /\ \A c, d \in CampDe(joueur) :
           plateau'[c] < plateau[c] /\ plateau'[d] < plateau[d] => c = d
      /\ \A c \in perdues : plateau'[c] = 0
      /\ score'[Adverse(joueur)] = score[Adverse(joueur)]
      /\ score'[joueur] - score[joueur] >= SommeSur(plateau, perdues)

\* Nothing is captured from no pit.
LEMMA SommeVide ==
  ASSUME NEW p \in [Cases -> Nat]
  PROVE  SommeSur(p, {}) = 0
<1> DEFINE f == [c \in Cases |-> IF c \in {} THEN p[c] ELSE 0]
<1>1. \A k \in 0..11 : Pion(f, k) = 0
  BY DEF Pion
<1> HIDE DEF f
<1>2. Graines(f) = 0
  BY <1>1 DEF Graines
<1> QED BY <1>2 DEF SommeSur, f

\* A step that leaves the board and the scores alone takes nothing.
LEMMA RienPris ==
  ASSUME TypeInvariant, UNCHANGED <<plateau, score>>
  PROVE  PrisesDuTour
<1> DEFINE perdues == {c \in CampDe(Adverse(joueur)) : plateau'[c] < plateau[c]}
<1>1. \A c \in Cases : ~(plateau'[c] < plateau[c])
  BY DEF TypeInvariant
<1>2. perdues = {}
  BY <1>1 DEF CampDe
<1>3. SommeSur(plateau, perdues) = 0
  BY <1>2, SommeVide DEF TypeInvariant
<1>4. score'[joueur] - score[joueur] = 0
  BY DEF TypeInvariant
<1> QED BY <1>1, <1>2, <1>3, <1>4 DEF PrisesDuTour, CampDe

\* A move loses seeds from the pit played and from the pits it captures only.
LEMMA JouerPrend ==
  ASSUME TypeInvariant, Jouer
  PROVE  PrisesDuTour
<1> DEFINE dep == CaseDepart(joueur, choix)
           p == Egrener(plateau, dep)
           S == CasesPrises(joueur, p, CaseArrivee(plateau, dep))
           k == SommeSur(p, S)
           perdues == {c \in CampDe(Adverse(joueur)) : plateau'[c] < plateau[c]}
<1>1. /\ dep \in Cases /\ p \in [Cases -> Nat] /\ k \in Nat
      /\ FinDeTour(Vider(p, S), [score EXCEPT ![joueur] = @ + k])
  BY JouerType
<1>2. /\ plateau' = Vider(p, S)
      /\ score' = [score EXCEPT ![joueur] = @ + k]
  BY <1>1 DEF FinDeTour
<1>3. \A c \in Cases : c # dep => p[c] >= plateau[c]
  BY <1>1, EgrenerType DEF TypeInvariant
<1>4. \A c \in Cases : plateau'[c] = IF c \in S THEN 0 ELSE p[c]
  BY <1>1, <1>2 DEF Vider
<1>5. \A c \in S : ~EstDansCamp(joueur, c)
  <2>1. CaseArrivee(plateau, dep) \in Cases
    BY <1>1, ArriveeType DEF TypeInvariant
  <2> HIDE DEF p, dep
  <2> QED BY <2>1, PrisesHorsCamp DEF TypeInvariant
<1>6. joueur \in Joueurs /\ EstDansCamp(joueur, dep)
  BY DepartDansCamp DEF Jouer, TypeInvariant
<1>7. \A c \in CampDe(Adverse(joueur)) : c \in Cases /\ ~EstDansCamp(joueur, c)
  BY <1>6, CampAssumption DEF CampDe, EstDansCamp, Adverse, Joueurs, Cases, NbCases
<1>8. plateau \in [Cases -> Nat] /\ score \in [Joueurs -> Nat] /\ Adverse(joueur) \in Joueurs
      /\ Adverse(joueur) # joueur
  BY DEF TypeInvariant, Adverse, Joueurs
<1> HIDE DEF dep, p, S, k
<1>9. \A c, d \in CampDe(joueur) :
        plateau'[c] < plateau[c] /\ plateau'[d] < plateau[d] => c = d
  <2>1. ASSUME NEW c \in CampDe(joueur), plateau'[c] < plateau[c]
        PROVE  c = dep
    <3>1. c \in Cases /\ c \notin S
      BY <1>5 DEF CampDe
    <3>2. plateau'[c] = p[c] /\ p[c] \in Nat /\ plateau[c] \in Nat
      BY <1>1, <1>4, <1>8, <3>1
    <3> QED BY <1>3, <2>1, <3>1, <3>2
  <2> QED BY <2>1
<1>10. \A c \in perdues : c \in S /\ c \in Cases /\ p[c] >= plateau[c]
  <2> SUFFICES ASSUME NEW c \in perdues
               PROVE  c \in S /\ c \in Cases /\ p[c] >= plateau[c]
    OBVIOUS
  <2>1. c \in Cases /\ c # dep
    BY <1>6, <1>7
  <2>2. p[c] \in Nat /\ plateau[c] \in Nat /\ plateau'[c] < plateau[c]
    BY <1>1, <1>8, <2>1
  <2> QED BY <1>3, <1>4, <2>1, <2>2
<1>11. \A c \in perdues : plateau'[c] = 0
  BY <1>4, <1>10
<1>12. SommeSur(plateau, perdues) <= k
  <2>1. perdues \subseteq S /\ \A c \in Cases : plateau[c] <= p[c] \/ c \notin perdues
    BY <1>1, <1>8, <1>10
  <2> HIDE DEF perdues
  <2> QED BY <1>1, <1>8, <2>1, SommeOrdre DEF k
<1>13. SommeSur(plateau, perdues) \in Nat
  BY <1>8, ViderSomme
<1>14. score'[joueur] - score[joueur] = k /\ score'[Adverse(joueur)] = score[Adverse(joueur)]
  BY <1>1, <1>2, <1>6, <1>8
<1> HIDE DEF perdues
<1>15. score'[joueur] - score[joueur] >= SommeSur(plateau, perdues)
  BY <1>1, <1>12, <1>13, <1>14
<1> QED BY <1>9, <1>11, <1>14, <1>15 DEF PrisesDuTour, perdues

\* A turn takes seeds from one pit of the mover at most, and otherwise only by
\* emptying adverse pits whose seeds go to the mover.
THEOREM PrisesPartie == Spec => PrisesAdverses
<1>1. IInv /\ [Next]_vars => [PrisesDuTour]_vars
  <2> SUFFICES ASSUME IInv, Next PROVE PrisesDuTour
    BY DEF vars
  <2>1. TypeInvariant
    BY DEF IInv
  <2>2. CASE Jouer
    BY <2>1, <2>2, JouerPrend
  <2>3. CASE Passer
    BY <2>1, <2>3, RienPris DEF Passer, FinDeTour
  <2>4. CASE Continuer \/ Abandonner \/ \E c \in Choix : Recevoir(c)
    BY <2>1, <2>4, RienPris DEF Continuer, Abandonner, Recevoir
  <2>5. CASE Planter
    BY <2>1, <2>5, RienPris DEF Planter
  <2> QED BY <2>2, <2>3, <2>4, <2>5 DEF Next
<1> QED BY <1>1, InvariantPartie, PTL DEF Spec, PrisesAdverses, PrisesDuTour

=============================================================================
