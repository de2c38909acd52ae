-------------------------- MODULE AwaleCoup_proofs --------------------------
(***************************************************************************)
(* Proofs about AwaleCoup, for every board of up to NB_CASES = 12 pits,    *)
(* every number of seeds and every winning score: type correctness, and    *)
(* no seed is created or lost by any step of the loops of jouerCoup, the   *)
(* captures of a move fit in prises[NB_CASES], none is in the mover's own   *)
(* camp, and the loops implement the moves of AwalePartie.                 *)
(***************************************************************************)
EXTENDS AwaleCoup, Awale_proofs

(***************************************************************************)
(* Type correctness.                                                       *)
(***************************************************************************)

\* The invariant is inductive.
LEMMA TypePas == TypeInvariant /\ [Next]_vars => TypeInvariant'
<1> SUFFICES ASSUME TypeInvariant, [Next]_vars PROVE TypeInvariant'
  OBVIOUS
<1> USE DEF TypeInvariant, EnCoup
<1>1. CASE Continuer
  BY <1>1 DEF Continuer, varsCoup
<1>2. CASE Abandonner
  BY <1>2 DEF Abandonner, varsCoup
<1>3. ASSUME NEW c \in Choix, Refuser(c) PROVE TypeInvariant'
  BY <1>3 DEF Refuser, Recevoir
<1>4. ASSUME NEW c \in Choix, Prendre(c) PROVE TypeInvariant'
  <2>1. case_depart' \in Cases
    BY <1>4, DepartType DEF Prendre
  <2>3. case_depart' \in 0..NbCases
    BY <2>1, CampAssumption DEF Cases, NbCases
  <2>2. plateau' \in [Cases -> Nat] /\ nb_pions' \in Nat
    BY <1>4, <2>1 DEF Prendre
  <2> QED BY <1>4, <2>1, <2>2, <2>3 DEF Prendre, Recevoir
<1>5. CASE Semer
  <2>1. case_parcourue \in Cases \/ case_parcourue = NbCases
    BY CampAssumption DEF Cases, NbCases
  <2>2. case_parcourue' \in Cases
    BY <1>5, <2>1, SuivanteType, SuivanteBord DEF Semer
  <2>3. case_parcourue' \in 0..NbCases
    BY <2>2, CampAssumption DEF Cases, NbCases
  <2>4. plateau' \in [Cases -> Nat] /\ nb_pions' \in Nat
    BY <1>5, <2>2 DEF Semer
  <2> QED BY <1>5, <2>3, <2>4 DEF Semer
<1>6. CASE FinirEgrenage
  BY <1>6 DEF FinirEgrenage
<1>7. CASE Capturer
  <2>1. case_parcourue' \in 0..NbCases
    BY <1>7, CampAssumption DEF Capturer, SensRotation, Cases, NbCases
  <2>2. plateau' = [plateau EXCEPT ![case_parcourue] = 0]
    BY <1>7, JamaisAnnule DEF Capturer
  <2>3. score' = [score EXCEPT ![joueur] = @ + plateau[case_parcourue]]
    BY <1>7, JamaisAnnule DEF Capturer
  <2>4. nbPrises' = nbPrises + 1
    BY <1>7, JamaisAnnule DEF Capturer
  <2>5. plateau[case_parcourue] \in Nat
    BY <1>7 DEF Capturer
  <2>6. score[joueur] + plateau[case_parcourue] \in Nat
    BY <2>5
  <2>7. plateau' \in [Cases -> Nat]
    BY <2>2
  <2>8. score' \in [Joueurs -> Nat]
    BY <2>3, <2>6
  <2>9. nbPrises' \in Nat
    BY <2>4
  <2> QED BY <1>7, <2>1, <2>7, <2>8, <2>9 DEF Capturer
<1>8. CASE FinirPrises
  BY <1>8 DEF FinirPrises, varsCoup
<1>9. CASE LireHorsPlateau
  BY <1>9 DEF LireHorsPlateau, varsCoup
<1>10. CASE Tester
  <2>1. resultat' \in {0} \cup Joueurs
    BY <1>10, TestType DEF Tester
  <2>2. joueur' \in Joueurs /\ iter' \in 1..IterMax
    BY <1>10 DEF Tester, Adverse, Joueurs, IterMax
  <2> QED BY <1>10, <2>1, <2>2 DEF Tester, varsCoup
<1>11. CASE UNCHANGED vars
  BY <1>11 DEF vars, varsPartie, varsCoup
<1> QED
  BY <1>1, <1>2, <1>3, <1>4, <1>5, <1>6, <1>7, <1>8, <1>9, <1>10, <1>11 DEF Next

\* The initial state has it.
LEMMA TypeInit == Init => TypeInvariant
BY CampAssumption, GrainsAssumption
   DEF Init, TypeInvariant, PlateauInitial, ScoreInitial, Cases, NbCases, Joueurs, IterMax

\* Every variable of game() and jouerCoup keeps its type: the board never
\* holds a negative number of seeds and the loops never index further than
\* one pit past the board.
THEOREM TypeCorrect == Spec => []TypeInvariant
<1>1. Init => TypeInvariant
  BY TypeInit
<1>2. TypeInvariant /\ [Next]_vars => TypeInvariant'
  BY TypePas
<1> QED BY <1>1, <1>2, PTL DEF Spec

(***************************************************************************)
(* The inductive invariant.                                                *)
(***************************************************************************)

\* Conservation is kept by the steps that change the board, the hand or the
\* scores.
LEMMA ConservationPas ==
  TypeInvariant /\ Conservation /\ [Next]_vars => Conservation'
<1> SUFFICES ASSUME TypeInvariant, Conservation, [Next]_vars PROVE Conservation'
  OBVIOUS
<1> USE DEF Conservation, EnMain
<1>p. plateau \in [Cases -> Nat]
  BY DEF TypeInvariant
<1>t. Graines(plateau) \in Nat /\ score[1] \in Nat /\ score[2] \in Nat /\ nb_pions \in Nat
  BY GrainesType DEF TypeInvariant, Joueurs
<1>1. CASE Continuer
  BY <1>1 DEF Continuer, varsCoup
<1>2. CASE Abandonner
  BY <1>2 DEF Abandonner, varsCoup
<1>3. ASSUME NEW c \in Choix, Refuser(c) PROVE Conservation'
  BY <1>3 DEF Refuser, Recevoir
<1>4. ASSUME NEW c \in Choix, Prendre(c) PROVE Conservation'
  <2> DEFINE dep == CaseDepart(joueur, c)
  <2>1. dep \in Cases
    BY <1>4, DepartType DEF Prendre, TypeInvariant
  <2>2. /\ plateau' = [plateau EXCEPT ![dep] = 0]
        /\ nb_pions' = plateau[dep]
        /\ etape = "choix" /\ etape' = "egrenage"
        /\ score' = score
    BY <1>4 DEF Prendre, Recevoir
  <2> HIDE DEF dep
  <2>3. Graines(plateau') = Graines(plateau) - plateau[dep] + 0
    <3>1. Graines([plateau EXCEPT ![dep] = 0]) = Graines(plateau) - plateau[dep] + 0
      BY <1>p, <2>1, GrainesMaj
    <3> QED BY <2>2, <3>1
  <2>4. plateau[dep] \in Nat
    BY <2>1 DEF TypeInvariant
  <2> QED BY <1>t, <2>2, <2>3, <2>4
<1>5. CASE Semer
  <2>1. CASE case_parcourue' = case_depart
    <3>1. plateau' = plateau /\ nb_pions' = nb_pions /\ etape' = etape /\ score' = score
      BY <1>5, <2>1 DEF Semer
    <3> QED BY <3>1
  <2>2. CASE case_parcourue' # case_depart
    <3>1. case_parcourue' \in Cases
      <4>1. case_parcourue \in Cases \/ case_parcourue = NbCases
        BY CampAssumption DEF TypeInvariant, Cases, NbCases
      <4> QED BY <1>5, <4>1, SuivanteType, SuivanteBord DEF Semer
    <3>2. plateau[case_parcourue'] + 1 \in Nat /\ plateau[case_parcourue'] \in Nat
      BY <3>1 DEF TypeInvariant
    <3>3. plateau' = [plateau EXCEPT ![case_parcourue'] = plateau[case_parcourue'] + 1]
      BY <1>5, <2>2 DEF Semer
    <3>4. Graines(plateau') = Graines(plateau) - plateau[case_parcourue']
                              + (plateau[case_parcourue'] + 1)
      <4>1. Graines([plateau EXCEPT ![case_parcourue'] = plateau[case_parcourue'] + 1])
              = Graines(plateau) - plateau[case_parcourue'] + (plateau[case_parcourue'] + 1)
        BY <1>p, <3>1, <3>2, GrainesMaj
      <4> QED BY <3>3, <4>1
    <3>5. nb_pions' = nb_pions - 1 /\ etape = "egrenage" /\ etape' = "egrenage"
          /\ score' = score
      BY <1>5, <2>2 DEF Semer
    <3> QED BY <1>t, <3>2, <3>4, <3>5
  <2> QED BY <2>1, <2>2
<1>6. CASE FinirEgrenage
  BY <1>6, <1>t DEF FinirEgrenage
<1>7. CASE Capturer
  <2>1. case_parcourue \in Cases /\ etape = "prises" /\ etape' = "prises"
    BY <1>7 DEF Capturer
  <2>2. plateau' = [plateau EXCEPT ![case_parcourue] = 0]
    BY <1>7, JamaisAnnule DEF Capturer
  <2>3. score' = [score EXCEPT ![joueur] = @ + plateau[case_parcourue]]
    BY <1>7, JamaisAnnule DEF Capturer
  <2>4. Graines(plateau') = Graines(plateau) - plateau[case_parcourue] + 0
    <3>1. Graines([plateau EXCEPT ![case_parcourue] = 0])
            = Graines(plateau) - plateau[case_parcourue] + 0
      BY <1>p, <2>1, GrainesMaj
    <3> QED BY <2>2, <3>1
  <2>5. plateau[case_parcourue] \in Nat
    BY <2>1 DEF TypeInvariant
  <2>6. score'[1] + score'[2] = score[1] + score[2] + plateau[case_parcourue]
    <3>1. CASE joueur = 1
      BY <1>t, <2>3, <2>5, <3>1 DEF TypeInvariant, Joueurs
    <3>2. CASE joueur = 2
      BY <1>t, <2>3, <2>5, <3>2 DEF TypeInvariant, Joueurs
    <3> QED BY <3>1, <3>2 DEF TypeInvariant, Joueurs
  <2>7. score'[1] \in Nat /\ score'[2] \in Nat
    BY <1>t, <2>3, <2>5 DEF TypeInvariant, Joueurs
  <2> QED BY <1>t, <2>1, <2>4, <2>5, <2>6, <2>7
<1>8. CASE FinirPrises
  BY <1>8 DEF FinirPrises, varsCoup
<1>9. CASE LireHorsPlateau
  BY <1>9 DEF LireHorsPlateau, varsCoup
<1>10. CASE Tester
  BY <1>10 DEF Tester, varsCoup
<1>11. CASE UNCHANGED vars
  BY <1>11 DEF vars, varsPartie, varsCoup
<1> QED
  BY <1>1, <1>2, <1>3, <1>4, <1>5, <1>6, <1>7, <1>8, <1>9, <1>10, <1>11 DEF Next

\* The count of captures is kept within the adverse camp.
LEMMA PrisesPas ==
  TypeInvariant /\ BornePrises /\ ParcoursPrises /\ [Next]_vars
    => BornePrises' /\ ParcoursPrises'
<1> SUFFICES ASSUME TypeInvariant, BornePrises, ParcoursPrises, [Next]_vars
             PROVE  BornePrises' /\ ParcoursPrises'
  OBVIOUS
<1> USE DEF BornePrises, ParcoursPrises
<1>1. CASE Continuer
  BY <1>1 DEF Continuer, varsCoup
<1>2. CASE Abandonner
  BY <1>2 DEF Abandonner, varsCoup
<1>3. ASSUME NEW c \in Choix, Refuser(c)
      PROVE  BornePrises' /\ ParcoursPrises'
  BY <1>3, CampAssumption DEF Refuser, Recevoir
<1>4. ASSUME NEW c \in Choix, Prendre(c)
      PROVE  BornePrises' /\ ParcoursPrises'
  BY <1>4, CampAssumption DEF Prendre, Recevoir
<1>5. CASE Semer
  BY <1>5 DEF Semer
<1>6. CASE FinirEgrenage
  BY <1>6 DEF FinirEgrenage
<1>7. CASE Capturer
  <2>1. nbPrises' = nbPrises + 1 /\ case_parcourue' = case_parcourue + 1
    BY <1>7, JamaisAnnule DEF Capturer, SensRotation, TypeInvariant
  <2>2. etape = "prises" /\ etape' = "prises" /\ joueur' = joueur
    BY <1>7 DEF Capturer
  <2>3. Camp * (2 - joueur) <= case_parcourue /\ case_parcourue < Camp * (2 - joueur) + Camp
    <3>1. ~EstDansCamp(joueur, case_parcourue) /\ case_parcourue \in Cases
      BY <1>7 DEF Capturer, Prenable
    <3>2. CASE joueur = 1
      BY <3>1, <3>2, CampAssumption DEF EstDansCamp, Cases, NbCases
    <3>3. CASE joueur = 2
      BY <3>1, <3>3, CampAssumption DEF EstDansCamp, Cases, NbCases
    <3> QED BY <3>2, <3>3 DEF TypeInvariant, Joueurs
  <2> DEFINE premiere == Camp * (2 - joueur)
  <2>4. premiere \in Int /\ nbPrises \in Nat /\ case_parcourue \in Int /\ Camp \in Int
    BY CampAssumption DEF TypeInvariant, Joueurs, NbCases
  <2>5. nbPrises # 0 => nbPrises + premiere <= case_parcourue
    BY <2>2
  <2>6. premiere' = premiere
    BY <2>2
  <2> HIDE DEF premiere
  <2>7. /\ nbPrises' + premiere <= case_parcourue'
        /\ case_parcourue' <= premiere + Camp
        /\ nbPrises' <= Camp
    BY <2>1, <2>3, <2>4, <2>5 DEF premiere
  <2> QED BY <2>2, <2>6, <2>7 DEF premiere
<1>8. CASE FinirPrises
  BY <1>8 DEF FinirPrises, varsCoup
<1>9. CASE LireHorsPlateau
  BY <1>9 DEF LireHorsPlateau, varsCoup
<1>10. CASE Tester
  BY <1>10 DEF Tester, varsCoup
<1>11. CASE UNCHANGED vars
  BY <1>11 DEF vars, varsPartie, varsCoup
<1> QED
  BY <1>1, <1>2, <1>3, <1>4, <1>5, <1>6, <1>7, <1>8, <1>9, <1>10, <1>11 DEF Next

\* No capture is made in the mover's camp.
LEMMA CampPas ==
  TypeInvariant /\ CampIntact /\ [Next]_vars => CampIntact'
<1> SUFFICES ASSUME TypeInvariant, CampIntact, [Next]_vars PROVE CampIntact'
  OBVIOUS
<1> USE DEF CampIntact
<1>1. CASE FinirEgrenage
  BY <1>1 DEF FinirEgrenage
<1>2. CASE Capturer
  <2>1. ~EstDansCamp(joueur, case_parcourue)
    BY <1>2 DEF Capturer, Prenable
  <2>2. plateau' = [plateau EXCEPT ![case_parcourue] = 0]
    BY <1>2, JamaisAnnule DEF Capturer
  <2>3. /\ etape = "prises" /\ joueur' = joueur /\ tmpPlateau' = tmpPlateau
    BY <1>2 DEF Capturer
  <2>4. \A c \in CampDe(joueur) : c \in Cases /\ c # case_parcourue
    BY <2>1 DEF CampDe
  <2> QED BY <2>2, <2>3, <2>4 DEF TypeInvariant
<1>3. ASSUME ~FinirEgrenage, ~Capturer PROVE CampIntact'
  <2>1. etape' # "prises" \/ UNCHANGED <<etape, plateau, tmpPlateau, joueur>>
    BY <1>3 DEF Next, vars, varsPartie, varsCoup, Continuer, Abandonner, Refuser,
                Prendre, Semer, FinirPrises, LireHorsPlateau, Tester, TypeInvariant
  <2> QED BY <2>1
<1> QED BY <1>1, <1>2, <1>3

\* The invariant holds at the start of a game.
LEMMA InvInit == Init => IInv
<1> SUFFICES ASSUME Init PROVE IInv
  OBVIOUS
<1>1. TypeInvariant
  BY TypeInit
<1>2. Conservation
  BY GrainesInitial, GrainsAssumption, CampAssumption
     DEF Init, Conservation, EnMain, ScoreInitial, Joueurs, NbCases
<1>3. BornePrises /\ CampIntact /\ ParcoursPrises
  BY CampAssumption DEF Init, BornePrises, CampIntact, ParcoursPrises
<1> QED BY <1>1, <1>2, <1>3 DEF IInv

\* The strengthened invariant holds in every state of every game.
THEOREM InvariantInductif == Spec => []IInv
<1>1. Init => IInv
  BY InvInit
<1>2. IInv /\ [Next]_vars => IInv'
  BY TypePas, ConservationPas, PrisesPas, CampPas DEF IInv
<1> QED BY <1>1, <1>2, PTL DEF Spec

\* Whatever the moves, the seeds on the board, in the hand of the player that
\* sows and captured are those initPartie put on the board.
THEOREM GrainesConservees == Spec => []Conservation
<1>1. IInv => Conservation
  BY DEF IInv
<1> QED BY <1>1, InvariantInductif, PTL

\* The captures a move makes on the board never overrun prises[NB_CASES].
THEOREM PrisesBornees == Spec => []BornePrises
<1>1. IInv => BornePrises
  BY DEF IInv
<1> QED BY <1>1, InvariantInductif, PTL

\* The capture loop never takes a seed from the camp of the player that moves.
THEOREM CampDuJoueurIntact == Spec => []CampIntact
<1>1. IInv => CampIntact
  BY DEF IInv
<1> QED BY <1>1, InvariantInductif, PTL

-----------------------------------------------------------------------------
(***************************************************************************)
(* The loops of jouerCoup compute what AwalePartie says a move does: the   *)
(* proof of AwaleCoup's property Raffinement, for every board of up to     *)
(* NB_CASES = 12 pits.                                                     *)
(*                                                                         *)
(* RInv relates the array and the locals of the two loops to the closed    *)
(* formulas Egrener, CaseArrivee and CasesPrises on the board before the   *)
(* move; with the conservation of the seeds, which gives the score the     *)
(* mover had, every step maps to a step of AwalePartie or to a stutter.    *)
(***************************************************************************)

(* What the loops have computed so far. *)

\* The move in progress is the one that game() has read, and a pit.
Choisi == ChoixValide(choix) /\ case_depart = CaseDepart(joueur, choix)

\* The sowing loop after tours whole laps, case_parcourue being the last pit
\* visited: the pits up to there have one seed more than the others.
Tours(tours) ==
  LET d == Distance(case_depart, case_parcourue) IN
  /\ plateauAvant[case_depart] = nb_pions + (NbCases - 1) * tours + d
  /\ d = 0 /\ tours > 0 => nb_pions > 0
  /\ SemeJusqua(plateauAvant, plateau, case_depart, tours, d)

EgrenageEnCours ==
  etape = "egrenage" => Choisi /\ case_parcourue \in Cases /\ \E tours \in Nat : Tours(tours)

Seme    == Egrener(plateauAvant, case_depart)
Arrivee == CaseArrivee(plateauAvant, case_depart)

\* The capture loop has emptied the pits from the last one sown on.
PrisesEnCours ==
  etape = "prises" =>
    /\ Choisi
    /\ case_parcourue \in Arrivee .. NbCases
    /\ plateau = Vider(Seme, Arrivee .. case_parcourue - 1)
    /\ \A k \in Arrivee .. case_parcourue - 1 : Prenable(joueur, Seme, k)

\* A move that is over did what AwalePartie says, or was refused.
CoupFini ==
  etape = "test" =>
    \/ Choisi /\ plateau = Vider(Seme, CasesPrises(joueur, Seme, Arrivee))
    \/ plateau = plateauAvant /\ ~ChoixValide(choix)

RInv == TypeInvariant /\ EgrenageEnCours /\ PrisesEnCours /\ CoupFini

-----------------------------------------------------------------------------
(* The invariant of the loops. *)

\* Emptying no pit changes nothing.
LEMMA ViderRien ==
  ASSUME NEW p \in [Cases -> Nat], NEW a \in Nat
  PROVE  Vider(p, a .. a - 1) = p
BY DEF Vider

\* The run of captures is known once a pit that cannot be captured, or the
\* end of the board, is reached.
LEMMA PrisesJusqua ==
  ASSUME NEW j, NEW p, NEW a \in Cases, NEW c \in a .. NbCases,
         \A k \in a .. c - 1 : Prenable(j, p, k),
         c \in Cases => ~Prenable(j, p, c)
  PROVE  CasesPrises(j, p, a) = a .. c - 1
<1>1. a \in Nat /\ c \in Nat /\ NbCases \in Nat /\ Cases = 0 .. NbCases - 1
  BY CampAssumption DEF Cases, NbCases
<1>2. ASSUME NEW k \in CasesPrises(j, p, a) PROVE k \in a .. c - 1
  <2>1. k \in a .. NbCases - 1 /\ \A i \in a .. k : Prenable(j, p, i)
    BY DEF CasesPrises
  <2>2. CASE c <= k
    BY <1>1, <2>1, <2>2
  <2> QED BY <1>1, <2>1, <2>2
<1>3. ASSUME NEW k \in a .. c - 1 PROVE k \in CasesPrises(j, p, a)
  <2>1. k \in a .. NbCases - 1 /\ \A i \in a .. k : i \in a .. c - 1
    BY <1>1
  <2> QED BY <2>1 DEF CasesPrises
<1> QED BY <1>2, <1>3

\* The pit played is on the board.
LEMMA ChoisiType == TypeInvariant /\ Choisi => case_depart \in Cases /\ Arrivee \in Cases
BY ArriveeType DEF TypeInvariant, Arrivee

\* The first iteration is yet to come: no lap, no seed sown.
LEMMA PrendreTours ==
  ASSUME TypeInvariant, NEW ch \in Choix, Prendre(ch)
  PROVE  EgrenageEnCours'
<1>1. /\ case_depart' \in Cases /\ case_parcourue' = case_depart'
      /\ nb_pions' = plateau[case_depart'] /\ plateauAvant' = plateau
      /\ plateau' = [plateau EXCEPT ![case_depart'] = 0]
  BY DepartType DEF Prendre, TypeInvariant
<1>2. Choisi'
  BY DEF Prendre, Recevoir, Choisi
<1>3. \A c \in Cases : Distance(case_depart', c) \in 0 .. NbCases - 1
                       /\ (Distance(case_depart', c) = 0 <=> c = case_depart')
  BY <1>1, DistanceSuivante
<1>4. \A c \in Cases : Distance(case_depart', c) <= 0 <=> c = case_depart'
  BY <1>3, CampAssumption DEF NbCases
<1>5. Distance(case_depart', case_parcourue') = 0
  BY <1>1, <1>3
<1>6. plateau \in [Cases -> Nat]
  BY DEF TypeInvariant
<1>7. Tours(0)'
  <2>1. plateauAvant'[case_depart'] = nb_pions' + (NbCases - 1) * 0 + 0
    BY <1>1, <1>6, CampAssumption DEF NbCases
  <2>2. \A c \in Cases : plateau'[c] =
          IF c = case_depart' THEN 0
          ELSE plateauAvant'[c] + 0 + (IF Distance(case_depart', c) <= 0 THEN 1 ELSE 0)
    BY <1>1, <1>4, <1>6
  <2> QED BY <1>5, <2>1, <2>2 DEF Tours, SemeJusqua
<1> QED BY <1>1, <1>2, <1>7 DEF EgrenageEnCours

\* One iteration: the next pit gets its seed, or, when it is the pit played,
\* a lap is over.
LEMMA SemerTours ==
  ASSUME TypeInvariant, EgrenageEnCours, Semer
  PROVE  EgrenageEnCours'
<1> DEFINE m == NbCases - 1
           D(c) == Distance(case_depart, c)
           d == D(case_parcourue)
           s == Suivante(case_parcourue)
<1>1. PICK tours \in Nat : Tours(tours)
  BY DEF EgrenageEnCours, Semer
<1>2. Choisi /\ case_parcourue \in Cases /\ case_depart \in Cases /\ s \in Cases
  BY SuivanteType DEF EgrenageEnCours, Semer, TypeInvariant
<1>3. /\ case_parcourue' = s /\ case_depart' = case_depart
      /\ plateauAvant' = plateauAvant /\ joueur' = joueur /\ choix' = choix
      /\ nb_pions > 0
  BY DEF Semer
<1>4. Choisi'
  BY <1>2, <1>3 DEF Choisi
<1>5. /\ plateauAvant[case_depart] = nb_pions + m * tours + d
      /\ \A c \in Cases : plateau[c] =
           IF c = case_depart THEN 0
           ELSE plateauAvant[c] + tours + (IF D(c) <= d THEN 1 ELSE 0)
  BY <1>1 DEF Tours, SemeJusqua
<1>6. /\ \A c \in Cases : D(c) \in 0..m /\ (D(c) = 0 <=> c = case_depart)
      /\ \A c \in Cases : D(c) = D(s) => c = s
      /\ D(s) = IF d = m THEN 0 ELSE d + 1
  BY <1>2, DistanceSuivante
<1>7. m \in 1..11 /\ m * tours \in Nat /\ m * (tours + 1) = m * tours + m
  BY CampAssumption DEF NbCases
<1>8. /\ nb_pions \in Nat /\ plateau \in [Cases -> Nat] /\ plateauAvant \in [Cases -> Nat]
      /\ plateauAvant[case_depart] \in Nat
  BY <1>2 DEF TypeInvariant
<1>9. CASE s = case_depart
  <2>1. plateau' = plateau /\ nb_pions' = nb_pions
    BY <1>9 DEF Semer
  <2>2. D(s) = 0 /\ d = m
    BY <1>2, <1>6, <1>7, <1>9
  <2>3. \A c \in Cases : D(c) <= d
    BY <1>6, <2>2, <1>7
  <2>4. \A c \in Cases : c # case_depart => ~(D(c) <= 0)
    BY <1>6, <1>7
  <2> HIDE DEF D, d, s, m
  <2>5. plateauAvant[case_depart] = nb_pions + m * (tours + 1) + 0
    BY <1>5, <1>7, <1>8, <2>2
  <2>6. \A c \in Cases : plateau[c] =
          IF c = case_depart THEN 0
          ELSE plateauAvant[c] + (tours + 1) + (IF D(c) <= 0 THEN 1 ELSE 0)
    BY <1>5, <1>8, <2>3, <2>4
  <2>7. Tours(tours + 1)'
    BY <1>3, <2>1, <2>2, <2>5, <2>6 DEF Tours, SemeJusqua, D, s, m
  <2> QED BY <1>2, <1>3, <1>4, <2>7 DEF EgrenageEnCours
<1>10. CASE s # case_depart
  <2>1. plateau' = [plateau EXCEPT ![s] = @ + 1] /\ nb_pions' = nb_pions - 1
    BY <1>10 DEF Semer
  <2>2. D(s) = d + 1 /\ D(s) # 0 /\ d \in 0..m
    BY <1>2, <1>6, <1>10
  <2>3. \A c \in Cases : D(c) <= d + 1 <=> D(c) <= d \/ c = s
    BY <1>6, <2>2, <1>7
  <2>4. ~(D(s) <= d)
    BY <2>2, <1>7
  <2> HIDE DEF D, d, s, m
  <2>5. plateauAvant[case_depart] = (nb_pions - 1) + m * tours + (d + 1)
    BY <1>5, <1>7, <1>8, <2>2
  <2>6. \A c \in Cases : [plateau EXCEPT ![s] = @ + 1][c] =
          IF c = case_depart THEN 0
          ELSE plateauAvant[c] + tours + (IF D(c) <= d + 1 THEN 1 ELSE 0)
    BY <1>2, <1>5, <1>8, <1>10, <2>3, <2>4
  <2>7. Tours(tours)'
    BY <1>3, <2>1, <2>2, <2>5, <2>6 DEF Tours, SemeJusqua, D, s, m
  <2> QED BY <1>2, <1>3, <1>4, <2>7 DEF EgrenageEnCours
<1> QED BY <1>9, <1>10

\* The hand is empty: the board is the sown one and the last pit is the one
\* the closed formula gives.
LEMMA FinirEgrenagePrises ==
  ASSUME TypeInvariant, EgrenageEnCours, FinirEgrenage
  PROVE  PrisesEnCours'
<1>1. PICK tours \in Nat : Tours(tours)
  BY DEF EgrenageEnCours, FinirEgrenage
<1>2. Choisi /\ case_parcourue \in Cases /\ case_depart \in Cases
      /\ nb_pions = 0 /\ plateau \in [Cases -> Nat] /\ plateauAvant \in [Cases -> Nat]
  BY DEF EgrenageEnCours, FinirEgrenage, TypeInvariant
<1> DEFINE d == Distance(case_depart, case_parcourue)
<1>3. /\ plateauAvant[case_depart] = nb_pions + (NbCases - 1) * tours + d
      /\ d = 0 /\ tours > 0 => nb_pions > 0
      /\ SemeJusqua(plateauAvant, plateau, case_depart, tours, d)
  BY <1>1 DEF Tours
<1>4. d \in 0 .. NbCases - 1
  BY <1>2, DistanceSuivante
<1>5. NbCases - 1 \in 1..11 /\ NbCases \in 2..12
  BY CampAssumption DEF NbCases
<1>6. plateauAvant[case_depart] = (NbCases - 1) * tours + d /\ (d = 0 => tours = 0)
  <2> HIDE DEF d
  <2>1. (NbCases - 1) * tours \in Nat
    BY <1>5
  <2> QED BY <1>2, <1>3, <1>4, <1>5, <2>1
<1>7. plateau = Seme
  <2> HIDE DEF d
  <2> QED BY <1>2, <1>3, <1>4, <1>6, EgrenerFini DEF Seme
<1>8. case_parcourue = Arrivee
  BY <1>2, <1>6, ArriveeFinie DEF Arrivee
<1>9. /\ plateau' = plateau /\ case_parcourue' = case_parcourue /\ joueur' = joueur
      /\ plateauAvant' = plateauAvant /\ case_depart' = case_depart /\ choix' = choix
  BY DEF FinirEgrenage
<1>10. Seme' = Seme /\ Arrivee' = Arrivee /\ (Choisi <=> Choisi')
  BY <1>9 DEF Seme, Arrivee, Choisi
<1>11. Vider(Seme, Arrivee .. Arrivee - 1) = Seme /\ Arrivee \in Arrivee .. NbCases
       /\ ~ \E k \in Arrivee .. Arrivee - 1 : TRUE
  <2>1. Arrivee \in Nat /\ Arrivee <= NbCases
    BY <1>2, <1>5, <1>8 DEF Cases
  <2>2. Seme \in [Cases -> Nat]
    BY <1>2, <1>7
  <2> QED BY <1>5, <2>1, <2>2, ViderRien
<1> QED BY <1>2, <1>7, <1>8, <1>9, <1>10, <1>11 DEF PrisesEnCours

\* One capture: one pit more is emptied.
LEMMA CapturerPrises ==
  ASSUME TypeInvariant, PrisesEnCours, Capturer
  PROVE  PrisesEnCours'
<1> DEFINE c == case_parcourue
<1>1. /\ Choisi /\ c \in Cases /\ Prenable(joueur, plateau, c)
      /\ c \in Arrivee .. NbCases
      /\ plateau = Vider(Seme, Arrivee .. c - 1)
      /\ \A k \in Arrivee .. c - 1 : Prenable(joueur, Seme, k)
  BY DEF PrisesEnCours, Capturer
<1>2. Arrivee \in Cases /\ Seme \in [Cases -> Nat]
  BY <1>1, ChoisiType, EgrenerType DEF Seme, TypeInvariant
<1>3. NbCases \in Nat /\ c \in Nat /\ Arrivee \in Nat /\ Cases = 0 .. NbCases - 1
  BY <1>1, <1>2, CampAssumption DEF Cases, NbCases
<1>4. case_parcourue' = c + 1 /\ plateau' = [plateau EXCEPT ![c] = 0]
  BY <1>3, JamaisAnnule DEF Capturer, SensRotation
<1>5. /\ joueur' = joueur /\ choix' = choix
      /\ plateauAvant' = plateauAvant /\ case_depart' = case_depart
  BY DEF Capturer
<1>6. Seme' = Seme /\ Arrivee' = Arrivee /\ (Choisi <=> Choisi')
  BY <1>5 DEF Seme, Arrivee, Choisi
<1>7. plateau' = Vider(Seme, Arrivee .. c)
  <2> HIDE DEF c
  <2>1. \A k \in Cases : k \in Arrivee .. c <=> k \in Arrivee .. c - 1 \/ k = c
    BY <1>1, <1>3
  <2> QED BY <1>1, <1>4, <2>1 DEF Vider
<1>8. Prenable(joueur, Seme, c)
  <2>1. plateau[c] = Seme[c]
    BY <1>1, <1>3 DEF Vider
  <2> QED BY <1>1, <2>1 DEF Prenable
<1> HIDE DEF c
<1>9. /\ (c + 1) - 1 = c /\ c + 1 \in Arrivee .. NbCases
      /\ \A k \in Arrivee .. c : k \in Arrivee .. c - 1 \/ k = c
  BY <1>1, <1>3
<1> QED BY <1>1, <1>4, <1>5, <1>6, <1>7, <1>8, <1>9 DEF PrisesEnCours

\* The capture loop ends: what it emptied is the run of the closed formula.
LEMMA PrisesFinies ==
  ASSUME TypeInvariant, PrisesEnCours, etape = "prises",
         case_parcourue \in Cases => ~Prenable(joueur, plateau, case_parcourue)
  PROVE  /\ CasesPrises(joueur, Seme, Arrivee) = Arrivee .. case_parcourue - 1
         /\ plateau = Vider(Seme, CasesPrises(joueur, Seme, Arrivee))
<1> DEFINE c == case_parcourue
<1>1. /\ Choisi /\ c \in Arrivee .. NbCases
      /\ plateau = Vider(Seme, Arrivee .. c - 1)
      /\ \A k \in Arrivee .. c - 1 : Prenable(joueur, Seme, k)
  BY DEF PrisesEnCours
<1>2. Arrivee \in Cases /\ Seme \in [Cases -> Nat]
  BY <1>1, ChoisiType, EgrenerType DEF Seme, TypeInvariant
<1>3. ASSUME c \in Cases PROVE ~Prenable(joueur, Seme, c)
  <2>1. c \notin Arrivee .. c - 1
    BY <1>2, <1>3 DEF Cases
  <2>2. plateau[c] = Seme[c]
    BY <1>1, <1>3, <2>1 DEF Vider
  <2> QED BY <1>3, <2>2 DEF Prenable
<1>4. CasesPrises(joueur, Seme, Arrivee) = Arrivee .. c - 1
  <2> HIDE DEF c
  <2> QED BY <1>1, <1>2, <1>3, PrisesJusqua
<1> QED BY <1>1, <1>4

\* Initially no move is in progress.
LEMMA RInvInit == Init => RInv
BY TypeInit DEF Init, RInv, EgrenageEnCours, PrisesEnCours, CoupFini

\* Every action keeps what the loops have computed.
LEMMA RInvPas == RInv /\ [Next]_vars => RInv'
<1> SUFFICES ASSUME RInv, [Next]_vars PROVE RInv'
  OBVIOUS
<1>t. TypeInvariant /\ TypeInvariant'
  BY TypePas DEF RInv
<1>r. EgrenageEnCours /\ PrisesEnCours /\ CoupFini
  BY DEF RInv
<1> DEFINE Reste3 == EgrenageEnCours' /\ PrisesEnCours' /\ CoupFini'
<1> SUFFICES Reste3
  BY <1>t DEF RInv
<1>v. etape' \notin EnCoup => Reste3
  BY DEF EgrenageEnCours, PrisesEnCours, CoupFini, EnCoup
<1>1. CASE Continuer
  BY <1>1, <1>v DEF Continuer, EnCoup
<1>2. CASE Abandonner
  BY <1>2, <1>v DEF Abandonner, EnCoup
<1>3. ASSUME NEW c \in Choix, Refuser(c) PROVE Reste3
  <2>1. etape' = "test" /\ plateau' = plateau /\ joueur' = joueur /\ plateauAvant' = plateau
        /\ ~ChoixValide(choix')
    BY <1>3 DEF Refuser, Recevoir
  <2> QED BY <2>1 DEF EgrenageEnCours, PrisesEnCours, CoupFini
<1>4. ASSUME NEW c \in Choix, Prendre(c) PROVE Reste3
  <2>1. etape' = "egrenage"
    BY <1>4 DEF Prendre, Recevoir
  <2> QED BY <1>t, <1>4, <2>1, PrendreTours DEF PrisesEnCours, CoupFini
<1>5. CASE Semer
  <2>1. etape' = "egrenage"
    BY <1>5 DEF Semer
  <2> QED BY <1>t, <1>r, <1>5, <2>1, SemerTours DEF PrisesEnCours, CoupFini
<1>6. CASE FinirEgrenage
  <2>1. etape' = "prises"
    BY <1>6 DEF FinirEgrenage
  <2> QED BY <1>t, <1>r, <1>6, <2>1, FinirEgrenagePrises DEF EgrenageEnCours, CoupFini
<1>7. CASE Capturer
  <2>1. etape' = "prises"
    BY <1>7 DEF Capturer
  <2> QED BY <1>t, <1>r, <1>7, <2>1, CapturerPrises DEF EgrenageEnCours, CoupFini
<1>8. CASE FinirPrises \/ LireHorsPlateau
  <2>1. /\ etape = "prises" /\ (case_parcourue \in Cases => ~Prenable(joueur, plateau, case_parcourue))
        /\ etape' # "egrenage" /\ etape' # "prises"
        /\ UNCHANGED <<plateau, joueur, choix, case_depart, plateauAvant>>
    BY <1>8 DEF FinirPrises, LireHorsPlateau, varsCoup
  <2>2. Choisi /\ plateau = Vider(Seme, CasesPrises(joueur, Seme, Arrivee))
    BY <1>t, <1>r, <2>1, PrisesFinies DEF PrisesEnCours
  <2>3. (Choisi /\ plateau = Vider(Seme, CasesPrises(joueur, Seme, Arrivee)))'
    BY <2>1, <2>2 DEF Choisi, Seme, Arrivee
  <2> QED BY <2>1, <2>3 DEF EgrenageEnCours, PrisesEnCours, CoupFini
<1>9. CASE Tester
  BY <1>9, <1>v DEF Tester, EnCoup
<1>10. CASE UNCHANGED vars
  BY <1>r, <1>10 DEF vars, varsPartie, varsCoup, EgrenageEnCours, PrisesEnCours, CoupFini,
                    Choisi, Tours, Seme, Arrivee
<1> QED BY <1>1, <1>2, <1>3, <1>4, <1>5, <1>6, <1>7, <1>8, <1>9, <1>10 DEF Next

\* Between the iterations of its loops jouerCoup holds the board that the
\* closed formulas of AwalePartie describe, laps and captures up to the pit
\* it is at.
THEOREM BouclesExactes == Spec => []RInv
<1>1. Init => RInv
  BY RInvInit
<1>2. RInv /\ [Next]_vars => RInv'
  BY RInvPas
<1> QED BY <1>1, <1>2, PTL DEF Spec

-----------------------------------------------------------------------------
(* The steps of AwaleCoup seen as steps of AwalePartie. *)

\* The variables of AwalePartie, as the INSTANCE substitutes them.
Voit == etape \in EnCoup \cup {"plante"}

PlateauVu == IF Voit THEN plateauAvant ELSE plateau
ScoreVu   == IF Voit THEN [score EXCEPT ![joueur] =
                             @ - (Graines(plateauAvant) - Graines(plateau) - EnMain)]
             ELSE score
EtapeVue  == IF etape \in EnCoup THEN "coup" ELSE etape

\* A step that keeps them stutters in AwalePartie.
LEMMA VarsVues ==
  ASSUME UNCHANGED <<PlateauVu, ScoreVu, joueur, iter, choix, EtapeVue, resultat>>
  PROVE  UNCHANGED Partie!vars
BY DEF Partie!vars, PlateauVu, ScoreVu, EtapeVue, Voit

\* The operators of the rules are the same in both modules.
LEMMA MemesCases ==
  /\ Partie!Cases = Cases /\ Partie!NbCases = NbCases /\ Partie!Joueurs = Joueurs
  /\ Partie!Choix = Choix
  /\ Partie!PlateauInitial = PlateauInitial /\ Partie!ScoreInitial = ScoreInitial
BY DEF Partie!Cases, Cases, Partie!NbCases, NbCases, Partie!Joueurs, Joueurs,
       Partie!PlateauInitial, PlateauInitial, Partie!ScoreInitial, ScoreInitial,
       Partie!Choix, Choix

\* So are the ones of a choice.
LEMMA MemesChoix ==
  ASSUME NEW j, NEW p, NEW c
  PROVE  /\ Partie!ChoixAcceptes(j, p) = ChoixAcceptes(j, p)
         /\ Partie!ChoixValide(c) <=> ChoixValide(c)
         /\ Partie!CaseDepart(j, c) = CaseDepart(j, c)
<1> USE DEF Partie!Cases, Cases, Partie!NbCases, NbCases, Partie!CampDe, CampDe,
            Partie!EstDansCamp, EstDansCamp, Partie!ADesPions, ADesPions,
            Partie!Adverse, Adverse, Partie!SensRotation, SensRotation
<1>1. Partie!CasesListees(j, p) = CasesListees(j, p)
  BY DEF Partie!CasesListees, CasesListees, Partie!NbCasesDansLeCamp, NbCasesDansLeCamp
<1>2. Partie!ObligerNourrir(j, p) <=> ObligerNourrir(j, p)
  BY DEF Partie!ObligerNourrir, ObligerNourrir
<1>3. Partie!ChoixAcceptes(j, p) = ChoixAcceptes(j, p)
  BY <1>1, <1>2 DEF Partie!ChoixAcceptes, ChoixAcceptes
<1> QED BY <1>3 DEF Partie!ChoixValide, ChoixValide, Partie!CaseDepart, CaseDepart

\* And the ones of a move.
LEMMA MemeCoup ==
  ASSUME NEW j, NEW p, NEW c, NEW S, NEW s
  PROVE  /\ Partie!Egrener(p, c) = Egrener(p, c)
         /\ Partie!CaseArrivee(p, c) = CaseArrivee(p, c)
         /\ Partie!CasesPrises(j, p, c) = CasesPrises(j, p, c)
         /\ Partie!Deborde(j, p, c) <=> Deborde(j, p, c)
         /\ Partie!Vider(p, S) = Vider(p, S)
         /\ Partie!SommeSur(p, S) = SommeSur(p, S)
         /\ Partie!TestFinPartie(p, j, s) = TestFinPartie(p, j, s)
         /\ Partie!Adverse(j) = Adverse(j)
<1> USE DEF Partie!Cases, Cases, Partie!NbCases, NbCases, Partie!SensRotation, SensRotation,
            Partie!EstDansCamp, EstDansCamp, Partie!Adverse, Adverse
<1>1. Partie!Egrener(p, c) = Egrener(p, c)
  BY DEF Partie!Egrener, Egrener, Partie!Distance, Distance
<1>2. Partie!CaseArrivee(p, c) = CaseArrivee(p, c)
  BY DEF Partie!CaseArrivee, CaseArrivee
<1>3. Partie!CasesPrises(j, p, c) = CasesPrises(j, p, c)
  BY DEF Partie!CasesPrises, CasesPrises, Partie!Prenable, Prenable
<1>4. Partie!Deborde(j, p, c) <=> Deborde(j, p, c)
  BY <1>3 DEF Partie!Deborde, Deborde
<1>5. Partie!Vider(p, S) = Vider(p, S)
  BY DEF Partie!Vider, Vider
<1>6. Partie!SommeSur(p, S) = SommeSur(p, S)
  BY DEF Partie!SommeSur, SommeSur, Partie!Graines, Graines, Partie!Pion, Pion
<1>7. Partie!TestFinPartie(p, j, s) = TestFinPartie(p, j, s)
  BY DEF Partie!TestFinPartie, TestFinPartie, Partie!ADesPions, ADesPions,
         Partie!ObligerNourrir, ObligerNourrir, Partie!CampDe, CampDe
<1>8. Partie!Adverse(j) = Adverse(j)
  OBVIOUS
<1> QED BY <1>1, <1>2, <1>3, <1>4, <1>5, <1>6, <1>7, <1>8

\* The initial states are the same.
LEMMA InitVu == Init => Partie!Init
<1> SUFFICES ASSUME Init PROVE Partie!Init
  OBVIOUS
<1>1. PlateauVu = plateau /\ ScoreVu = score /\ EtapeVue = etape
  BY DEF Init, PlateauVu, ScoreVu, EtapeVue, Voit, EnCoup
<1>2. Partie!Init <=> /\ PlateauVu = Partie!PlateauInitial /\ ScoreVu = Partie!ScoreInitial
                      /\ joueur = 1 /\ iter = 1 /\ choix \in Partie!Choix
                      /\ EtapeVue = "tour" /\ resultat = 0
  BY DEF Partie!Init, PlateauVu, ScoreVu, EtapeVue, Voit
<1> QED BY <1>1, <1>2, MemesCases DEF Init

\* No seed is lost, before or after.
Compte == TypeInvariant /\ Conservation

\* What the mover had before its move is what it has less what left the board.
ScoreForme ==
  ScoreVu = [j \in Joueurs |->
    IF j = joueur THEN NbCases * Grains - score[Adverse(joueur)] - Graines(plateauAvant)
    ELSE score[j]]

\* While the move is in progress, by the conservation of the seeds.
LEMMA ScoreAvant == Compte /\ Voit => ScoreForme
<1> SUFFICES ASSUME Compte, Voit PROVE ScoreForme
  OBVIOUS
<1>1. /\ Graines(plateau) \in Int /\ Graines(plateauAvant) \in Int /\ EnMain \in Int
      /\ score \in [Joueurs -> Nat] /\ joueur \in Joueurs
      /\ score[1] \in Int /\ score[2] \in Int /\ NbCases * Grains \in Int
  BY GrainesType, CampAssumption, GrainsAssumption
     DEF Compte, TypeInvariant, EnMain, NbCases, Joueurs
<1>2. Graines(plateau) + EnMain + score[1] + score[2] = NbCases * Grains
  BY DEF Compte, Conservation
<1>3. score[joueur] - (Graines(plateauAvant) - Graines(plateau) - EnMain)
        = NbCases * Grains - score[Adverse(joueur)] - Graines(plateauAvant)
  <2>1. CASE joueur = 1
    BY <1>1, <1>2, <2>1 DEF Adverse
  <2>2. CASE joueur = 2
    BY <1>1, <1>2, <2>2 DEF Adverse
  <2> QED BY <1>1, <2>1, <2>2 DEF Joueurs
<1>4. ScoreVu = [score EXCEPT ![joueur] =
                   score[joueur] - (Graines(plateauAvant) - Graines(plateau) - EnMain)]
  BY DEF ScoreVu
<1>5. ScoreVu = [score EXCEPT ![joueur] =
                   NbCases * Grains - score[Adverse(joueur)] - Graines(plateauAvant)]
  BY <1>3, <1>4
<1> QED BY <1>1, <1>5 DEF ScoreForme

\* The same after a step.
LEMMA ScoreApres == Compte' /\ Voit' => ScoreForme'
BY ScoreAvant, PTL

\* A step inside a move is a stuttering step: only the mover's score and the
\* board may change.
LEMMA PasInterne ==
  ASSUME Compte, Compte', etape \in EnCoup, etape' \in EnCoup,
         UNCHANGED <<joueur, iter, choix, resultat, plateauAvant>>,
         \A j \in Joueurs : j # joueur => score'[j] = score[j]
  PROVE  UNCHANGED Partie!vars
<1>1. ScoreForme /\ ScoreForme'
  BY ScoreAvant, ScoreApres DEF Voit
<1>2. Adverse(joueur) \in Joueurs /\ Adverse(joueur) # joueur
  BY DEF Compte, TypeInvariant, Joueurs, Adverse
<1>3. ScoreVu' = ScoreVu
  BY <1>1, <1>2 DEF ScoreForme
<1>4. PlateauVu' = PlateauVu /\ EtapeVue' = EtapeVue
  BY DEF PlateauVu, EtapeVue, Voit
<1> QED BY <1>3, <1>4, VarsVues

\* The move begins: the game has its choice, and nothing has moved yet.
LEMMA DebutVu ==
  ASSUME Compte, Compte', NEW c \in Choix, Refuser(c) \/ Prendre(c)
  PROVE  Partie!Recevoir(c)
<1>1. /\ etape = "choix" /\ etape' \in EnCoup /\ plateauAvant' = plateau
      /\ c \in ChoixAcceptes(joueur, plateau) \cup {choix} /\ choix' = c
      /\ UNCHANGED <<score, joueur, iter, resultat>>
  BY DEF Refuser, Prendre, Recevoir, EnCoup
<1>2. /\ PlateauVu = plateau /\ ScoreVu = score /\ EtapeVue = "choix"
      /\ PlateauVu' = plateau /\ EtapeVue' = "coup"
  BY <1>1 DEF PlateauVu, ScoreVu, EtapeVue, Voit, EnCoup
<1>3. ScoreForme'
  BY <1>1, ScoreApres DEF Voit
<1>4. NbCases * Grains - score[Adverse(joueur)] - Graines(plateau) = score[joueur]
  <2>1. /\ Graines(plateau) \in Int /\ EnMain = 0 /\ NbCases * Grains \in Int
        /\ score[1] \in Int /\ score[2] \in Int /\ joueur \in {1, 2}
    BY <1>1, GrainesType, CampAssumption, GrainsAssumption
       DEF Compte, TypeInvariant, EnMain, NbCases, Joueurs
  <2>2. Graines(plateau) + EnMain + score[1] + score[2] = NbCases * Grains
    BY DEF Compte, Conservation
  <2>3. CASE joueur = 1
    BY <2>1, <2>2, <2>3 DEF Adverse
  <2>4. CASE joueur = 2
    BY <2>1, <2>2, <2>4 DEF Adverse
  <2> QED BY <2>1, <2>3, <2>4
<1>5. ScoreVu' = score
  BY <1>1, <1>3, <1>4 DEF ScoreForme, Compte, TypeInvariant
<1>6. Partie!Recevoir(c) <=>
        /\ EtapeVue = "choix"
        /\ c \in ChoixAcceptes(joueur, PlateauVu) \cup {choix}
        /\ choix' = c
        /\ EtapeVue' = "coup"
        /\ UNCHANGED <<PlateauVu, ScoreVu, joueur, iter, resultat>>
  BY MemesChoix DEF Partie!Recevoir, PlateauVu, ScoreVu, EtapeVue, Voit
<1> QED BY <1>1, <1>2, <1>5, <1>6

\* The iterations of the loops and their ends.
LEMMA BouclesVues ==
  ASSUME Compte, Compte', etape' \in EnCoup,
         Semer \/ FinirEgrenage \/ Capturer \/ FinirPrises \/ LireHorsPlateau
  PROVE  UNCHANGED Partie!vars
<1> DEFINE Interne == /\ etape \in EnCoup
                      /\ UNCHANGED <<joueur, iter, choix, resultat, plateauAvant>>
                      /\ \A j \in Joueurs : j # joueur => score'[j] = score[j]
<1> SUFFICES Interne
  BY PasInterne
<1>1. CASE Semer
  BY <1>1 DEF Semer, EnCoup
<1>2. CASE FinirEgrenage
  BY <1>2 DEF FinirEgrenage, EnCoup
<1>3. CASE Capturer
  BY <1>3 DEF Capturer, EnCoup, Compte, TypeInvariant
<1>4. CASE FinirPrises \/ LireHorsPlateau
  BY <1>4 DEF FinirPrises, LireHorsPlateau, varsCoup, EnCoup
<1> QED BY <1>1, <1>2, <1>3, <1>4

\* The board after the move and what it captured.
LEMMA GrainesDuCoup ==
  ASSUME TypeInvariant, Choisi,
         plateau = Vider(Seme, CasesPrises(joueur, Seme, Arrivee))
  PROVE  Graines(plateauAvant)
           = Graines(plateau) + SommeSur(Seme, CasesPrises(joueur, Seme, Arrivee))
<1>1. case_depart \in Cases /\ plateauAvant \in [Cases -> Nat]
  BY DEF TypeInvariant
<1>2. Seme \in [Cases -> Nat] /\ Graines(Seme) = Graines(plateauAvant)
  BY <1>1, EgrenerType, EgrenerConserve DEF Seme
<1> QED BY <1>2, ViderSomme

\* The end of the turn: a move played, or refused, in one step.
LEMMA TesterVu ==
  ASSUME Compte, CoupFini, Tester
  PROVE  Partie!Passer \/ Partie!Jouer
<1>1. etape = "test" /\ etape' \in {"tour", "terminee"}
      /\ UNCHANGED <<plateau, score, choix>>
      /\ resultat' = TestFinPartie(plateau, joueur, score)
      /\ etape' = (IF resultat' = 0 THEN "tour" ELSE "terminee")
      /\ joueur' = Adverse(joueur)
      /\ iter' = (IF iter < IterMax THEN iter + 1 ELSE iter)
  BY DEF Tester
<1>2. /\ PlateauVu = plateauAvant /\ EtapeVue = "coup"
      /\ PlateauVu' = plateau /\ ScoreVu' = score /\ EtapeVue' = etape'
  BY <1>1 DEF PlateauVu, ScoreVu, EtapeVue, Voit, EnCoup
<1>3. ScoreForme
  BY <1>1, ScoreAvant DEF Voit, EnCoup
<1>4. /\ Graines(plateau) \in Int /\ EnMain = 0 /\ NbCases * Grains \in Int
      /\ score[1] \in Int /\ score[2] \in Int /\ joueur \in {1, 2}
      /\ Graines(plateauAvant) \in Int /\ score \in [{1, 2} -> Nat]
      /\ Graines(plateau) + EnMain + score[1] + score[2] = NbCases * Grains
  BY <1>1, GrainesType, CampAssumption, GrainsAssumption
     DEF Compte, Conservation, TypeInvariant, EnMain, NbCases, Joueurs
<1>5. ScoreVu = [score EXCEPT ![joueur] =
                   score[joueur] - (Graines(plateauAvant) - Graines(plateau))]
  <2>1. NbCases * Grains - score[Adverse(joueur)] - Graines(plateauAvant)
          = score[joueur] - (Graines(plateauAvant) - Graines(plateau))
    <3>1. CASE joueur = 1
      BY <1>4, <3>1 DEF Adverse
    <3>2. CASE joueur = 2
      BY <1>4, <3>2 DEF Adverse
    <3> QED BY <1>4, <3>1, <3>2
  <2> QED BY <1>3, <1>4, <2>1 DEF ScoreForme, Joueurs
<1>6. \A p, s : Partie!FinDeTour(p, s) <=>
        /\ PlateauVu' = p /\ ScoreVu' = s
        /\ resultat' = TestFinPartie(p, joueur, s)
        /\ EtapeVue' = (IF resultat' = 0 THEN "tour" ELSE "terminee")
        /\ joueur' = Adverse(joueur)
        /\ iter' = (IF iter < IterMax THEN iter + 1 ELSE iter)
        /\ choix' = choix
  BY MemeCoup DEF Partie!FinDeTour, PlateauVu, ScoreVu, EtapeVue, Voit,
                  Partie!IterMax, IterMax
<1>7. Partie!FinDeTour(plateau, score)
  BY <1>1, <1>2, <1>6
<1>8. CASE Choisi /\ plateau = Vider(Seme, CasesPrises(joueur, Seme, Arrivee))
  <2>1. ChoixValide(choix) /\ case_depart = CaseDepart(joueur, choix)
    BY <1>8 DEF Choisi
  <2> DEFINE prises == CasesPrises(joueur, Seme, Arrivee)
  <2>2. Graines(plateauAvant) = Graines(plateau) + SommeSur(Seme, prises)
    BY <1>8, GrainesDuCoup DEF Compte
  <2>3. SommeSur(Seme, prises) \in Nat
    BY EgrenerType, ViderSomme DEF Compte, TypeInvariant, Seme
  <2>4. [ScoreVu EXCEPT ![joueur] = ScoreVu[joueur] + SommeSur(Seme, prises)] = score
    <3> DEFINE gain == SommeSur(Seme, prises)
               avant == Graines(plateauAvant)
               reste == Graines(plateau)
    <3>1. /\ avant \in Int /\ reste \in Int /\ gain \in Int /\ avant = reste + gain
          /\ score \in [{1, 2} -> Nat] /\ joueur \in {1, 2}
          /\ ScoreVu = [score EXCEPT ![joueur] = score[joueur] - (avant - reste)]
      BY <1>4, <1>5, <2>2, <2>3
    <3> HIDE DEF gain, avant, reste
    <3>2. ScoreVu[joueur] + gain = score[joueur]
      BY <3>1
    <3>3. [ScoreVu EXCEPT ![joueur] = ScoreVu[joueur] + gain] = score
      BY <3>1, <3>2
    <3> QED BY <3>3 DEF gain
  <2>5. Partie!Jouer <=>
          /\ EtapeVue = "coup"
          /\ Partie!ChoixValide(choix)
          /\ LET dep == Partie!CaseDepart(joueur, choix)
                 p   == Partie!Egrener(PlateauVu, dep)
                 pr  == Partie!CasesPrises(joueur, p, Partie!CaseArrivee(PlateauVu, dep))
             IN  Partie!FinDeTour(Partie!Vider(p, pr),
                   [ScoreVu EXCEPT ![joueur] = ScoreVu[joueur] + Partie!SommeSur(p, pr)])
    BY DEF Partie!Jouer, PlateauVu, ScoreVu, EtapeVue, Voit
  <2>6. /\ Partie!CaseDepart(joueur, choix) = case_depart
        /\ Partie!Egrener(PlateauVu, case_depart) = Seme
        /\ Partie!CaseArrivee(PlateauVu, case_depart) = Arrivee
        /\ Partie!CasesPrises(joueur, Seme, Arrivee) = prises
        /\ Partie!Vider(Seme, prises) = Vider(Seme, prises)
        /\ Partie!SommeSur(Seme, prises) = SommeSur(Seme, prises)
    BY <1>2, <2>1, MemesChoix, MemeCoup DEF Seme, Arrivee
  <2>7. Partie!FinDeTour(Vider(Seme, prises),
          [ScoreVu EXCEPT ![joueur] = ScoreVu[joueur] + SommeSur(Seme, prises)])
    BY <1>7, <1>8, <2>4
  <2>8. Partie!Jouer
    BY <1>2, <2>1, <2>5, <2>7, <2>6, MemesChoix
  <2> QED BY <2>8
<1>9. CASE plateau = plateauAvant /\ ~ChoixValide(choix)
  <2>1. ScoreVu = score
    BY <1>4, <1>5, <1>9
  <2>3. Partie!Passer <=>
          /\ EtapeVue = "coup"
          /\ ~ChoixValide(choix)
          /\ Partie!FinDeTour(PlateauVu, ScoreVu)
    BY MemesChoix DEF Partie!Passer, PlateauVu, ScoreVu, EtapeVue, Voit
  <2> QED BY <1>2, <1>7, <1>9, <2>1, <2>3
<1> QED BY <1>1, <1>8, <1>9 DEF CoupFini

\* The loop that reads past the board and does not come back: the captures
\* did reach the last pit.
LEMMA PlanteVu ==
  ASSUME Compte, Compte', PrisesEnCours, LireHorsPlateau, etape' = "plante"
  PROVE  Partie!Planter
<1>1. /\ etape = "prises" /\ case_parcourue \notin Cases
      /\ UNCHANGED <<plateau, score, joueur, iter, choix, resultat, plateauAvant>>
      /\ Choisi /\ case_parcourue \in Arrivee .. NbCases
  BY DEF LireHorsPlateau, varsCoup, PrisesEnCours
<1>2. ChoixValide(choix) /\ case_depart = CaseDepart(joueur, choix)
  BY <1>1 DEF Choisi
<1>3. Arrivee \in Cases
  BY <1>1, ChoisiType DEF Compte
<1>4. case_parcourue = NbCases
  BY <1>1, <1>3, CampAssumption DEF Cases, NbCases
<1>5. CasesPrises(joueur, Seme, Arrivee) = Arrivee .. NbCases - 1
  BY <1>1, <1>4, PrisesFinies DEF Compte
<1>6. Deborde(joueur, Seme, Arrivee)
  <2>1. NbCases - 1 \in Arrivee .. NbCases - 1
    BY <1>3, CampAssumption DEF Cases, NbCases
  <2> QED BY <1>5, <2>1 DEF Deborde
<1>7. /\ PlateauVu = plateauAvant /\ EtapeVue = "coup"
      /\ PlateauVu' = plateauAvant /\ EtapeVue' = "plante"
  BY <1>1 DEF PlateauVu, EtapeVue, Voit, EnCoup
<1>8. ScoreVu' = ScoreVu
  BY <1>1, ScoreAvant, ScoreApres DEF ScoreForme, Voit, EnCoup
<1>9. Partie!Planter <=>
        /\ EtapeVue = "coup"
        /\ ChoixValide(choix)
        /\ LET dep == CaseDepart(joueur, choix)
           IN  Deborde(joueur, Egrener(PlateauVu, dep), CaseArrivee(PlateauVu, dep))
        /\ EtapeVue' = "plante"
        /\ UNCHANGED <<PlateauVu, ScoreVu, joueur, iter, choix, resultat>>
  BY MemeCoup, MemesChoix DEF Partie!Planter, PlateauVu, ScoreVu, EtapeVue, Voit
<1> QED BY <1>1, <1>2, <1>6, <1>7, <1>8, <1>9 DEF Seme, Arrivee

\* Continuing and giving up are the same steps.
LEMMA TourVu ==
  ASSUME Continuer \/ Abandonner
  PROVE  Partie!Continuer \/ Partie!Abandonner
<1>1. /\ etape = "tour" /\ etape' \in {"choix", "abandonnee"}
      /\ UNCHANGED <<plateau, score, joueur, iter, choix, resultat>>
  BY DEF Continuer, Abandonner
<1>2. /\ EtapeVue = "tour" /\ EtapeVue' = etape'
      /\ UNCHANGED <<PlateauVu, ScoreVu>>
  BY <1>1 DEF PlateauVu, ScoreVu, EtapeVue, Voit, EnCoup
<1>3. CASE Continuer
  <2>1. EtapeVue' = "choix"
    BY <1>2, <1>3 DEF Continuer
  <2> QED BY <1>1, <1>2, <2>1 DEF Partie!Continuer, PlateauVu, ScoreVu, EtapeVue, Voit
<1>4. CASE Abandonner
  <2>1. EtapeVue' = "abandonnee" /\ ~Debut
    BY <1>2, <1>4 DEF Abandonner
  <2> QED BY <1>1, <1>2, <2>1
          DEF Partie!Abandonner, Partie!Debut, Partie!IterMax, Debut, IterMax,
              PlateauVu, ScoreVu, EtapeVue, Voit
<1> QED BY <1>3, <1>4

\* Every step of the loops is a step of the game or a stutter.
LEMMA PasVu ==
  Compte /\ Compte' /\ RInv /\ [Next]_vars => [Partie!Next]_(Partie!vars)
<1> SUFFICES ASSUME Compte, Compte', RInv, [Next]_vars
             PROVE  Partie!Next \/ UNCHANGED Partie!vars
  OBVIOUS
<1>r. PrisesEnCours /\ CoupFini
  BY DEF RInv
<1>1. CASE Continuer \/ Abandonner
  BY <1>1, TourVu DEF Partie!Next
<1>2. ASSUME NEW c \in Choix, Refuser(c) \/ Prendre(c)
      PROVE  Partie!Next
  <2>1. Partie!Recevoir(c)
    BY <1>2, DebutVu
  <2> QED BY <2>1, MemesCases DEF Partie!Next
<1>3. CASE /\ Semer \/ FinirEgrenage \/ Capturer \/ FinirPrises \/ LireHorsPlateau
           /\ etape' \in EnCoup
  BY <1>3, BouclesVues
<1>4. CASE LireHorsPlateau /\ etape' \notin EnCoup
  <2>1. etape' = "plante"
    BY <1>4 DEF LireHorsPlateau, EnCoup
  <2> QED BY <1>r, <1>4, <2>1, PlanteVu DEF Partie!Next
<1>5. CASE Tester
  BY <1>r, <1>5, TesterVu DEF Partie!Next
<1>6. CASE UNCHANGED vars
  BY <1>6, VarsVues DEF vars, varsPartie, varsCoup, PlateauVu, ScoreVu, EtapeVue, Voit, EnMain
<1>7. Semer \/ FinirEgrenage \/ Capturer \/ FinirPrises => etape' \in EnCoup
  BY DEF Semer, FinirEgrenage, Capturer, FinirPrises, EnCoup
<1> QED BY <1>1, <1>2, <1>3, <1>4, <1>5, <1>6, <1>7 DEF Next

\* The sowing and capture loops of jouerCoup, played one iteration at a time
\* with the clients' answers, are a game as AwalePartie describes it.
THEOREM BouclesConformes == Spec => Raffinement
<1>1. Init => Partie!Init
  BY InitVu
<1>2. Compte /\ Compte' /\ RInv /\ [Next]_vars => [Partie!Next]_(Partie!vars)
  BY PasVu
<1>3. IInv => Compte
  BY DEF IInv, Compte
<1> QED BY <1>1, <1>2, <1>3, BouclesExactes, InvariantInductif, PTL
        DEF Spec, Raffinement, Partie!Spec

=============================================================================
