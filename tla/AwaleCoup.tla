----------------------------- MODULE AwaleCoup -----------------------------
(***************************************************************************)
(* The same game with the loops of jouerCoup: one action per iteration of  *)
(* the sowing loop and of the capture loop, on the array and the local     *)
(* variables of the C function.  It implements AwalePartie, where a move   *)
(* is one step computed by closed formulas.                                *)
(***************************************************************************)
EXTENDS Awale

VARIABLES
  plateau, score, joueur, iter, choix, etape, resultat,  \* as in AwalePartie
  nb_pions,       \* seeds still in the hand
  case_depart,    \* the pit played
  case_parcourue, \* the pit the loops are at
  nbPrises,       \* captures of the current move (length of prises)
  tmpPlateau,     \* board saved between the two loops
  tmp_score,      \* score of the mover saved with it
  plateauAvant    \* history: the board before the move

varsPartie == <<plateau, score, joueur, iter, choix, etape, resultat>>
varsCoup   == <<nb_pions, case_depart, case_parcourue, nbPrises,
                tmpPlateau, tmp_score, plateauAvant>>
vars       == <<varsPartie, varsCoup>>

EnCoup == {"egrenage", "prises", "test"}

IterMax == 3

Debut == iter < IterMax

Choix == 1 .. Camp + 1

TypeInvariant ==
  /\ plateau \in [Cases -> Nat]
  /\ score \in [Joueurs -> Nat]
  /\ joueur \in Joueurs
  /\ iter \in 1..IterMax
  /\ choix \in Choix
  /\ etape \in {"tour", "choix", "abandonnee", "terminee", "plante"} \cup EnCoup
  /\ resultat \in {0} \cup Joueurs
  /\ nb_pions \in Nat
  /\ case_depart \in Cases
  /\ case_parcourue \in 0..NbCases
  /\ nbPrises \in Nat
  /\ tmpPlateau \in [Cases -> Nat]
  /\ tmp_score \in Nat
  /\ plateauAvant \in [Cases -> Nat]

\* The locals of jouerCoup are set before they are read, whatever they held;
\* choix, of game(), is not.
Init ==
  /\ plateau = PlateauInitial
  /\ score = ScoreInitial
  /\ joueur = 1
  /\ iter = 1
  /\ choix \in Choix
  /\ etape = "tour"
  /\ resultat = 0
  /\ nb_pions = 0
  /\ case_depart = 0
  /\ case_parcourue = 0
  /\ nbPrises = 0
  /\ tmpPlateau = PlateauInitial
  /\ tmp_score = 0
  /\ plateauAvant = PlateauInitial

Continuer ==
  /\ etape = "tour"
  /\ etape' = "choix"
  /\ UNCHANGED <<plateau, score, joueur, iter, choix, resultat, varsCoup>>

Abandonner ==
  /\ etape = "tour"
  /\ ~Debut
  /\ etape' = "abandonnee"
  /\ UNCHANGED <<plateau, score, joueur, iter, choix, resultat, varsCoup>>

\* "PARTIE/coup", or another message, for which the last choice is played.
Recevoir(c) ==
  /\ etape = "choix"
  /\ c \in ChoixAcceptes(joueur, plateau) \cup {choix}
  /\ choix' = c

\* jouerCoup returns at once: the board is tested as it is.
Refuser(c) ==
  /\ Recevoir(c)
  /\ ~ChoixValide(c)
  /\ etape' = "test"
  /\ nbPrises' = 0
  /\ plateauAvant' = plateau
  /\ UNCHANGED <<plateau, score, joueur, iter, resultat, nb_pions, case_depart,
                 case_parcourue, tmpPlateau, tmp_score>>

\* Mutant: the number of captures is not reset.
PrendreSansRaz(c) ==
  /\ Recevoir(c)
  /\ ChoixValide(c)
  /\ case_depart' = CaseDepart(joueur, c)
  /\ case_parcourue' = case_depart'
  /\ nb_pions' = plateau[case_depart']
  /\ plateau' = [plateau EXCEPT ![case_depart'] = 0]
  /\ etape' = "egrenage"
  /\ plateauAvant' = plateau
  /\ UNCHANGED <<score, joueur, iter, resultat, nbPrises, tmpPlateau, tmp_score>>

\* Lines up to the sowing loop: the pit is emptied into the hand.
Prendre(c) ==
  /\ Recevoir(c)
  /\ ChoixValide(c)
  /\ case_depart' = CaseDepart(joueur, c)
  /\ case_parcourue' = case_depart'
  /\ nb_pions' = plateau[case_depart']
  /\ plateau' = [plateau EXCEPT ![case_depart'] = 0]
  /\ nbPrises' = 0
  /\ etape' = "egrenage"
  /\ plateauAvant' = plateau
  /\ UNCHANGED <<score, joueur, iter, resultat, tmpPlateau, tmp_score>>

\* The next three are mutants.  One seed more than the pit held is sown.
SemerUneDeTrop ==
  /\ etape = "egrenage"
  /\ nb_pions >= 0
  /\ case_parcourue' = Suivante(case_parcourue)
  /\ IF case_parcourue' = case_depart
     THEN UNCHANGED <<plateau, nb_pions>>
     ELSE /\ plateau' = [plateau EXCEPT ![case_parcourue'] = @ + 1]
          /\ nb_pions' = nb_pions - 1
  /\ UNCHANGED <<score, joueur, iter, choix, etape, resultat, case_depart, nbPrises,
                 tmpPlateau, tmp_score, plateauAvant>>

\* The pit played gets a seed at each lap.
SemerSansSaut ==
  /\ etape = "egrenage"
  /\ nb_pions > 0
  /\ case_parcourue' = Suivante(case_parcourue)
  /\ plateau' = [plateau EXCEPT ![case_parcourue'] = @ + 1]
  /\ nb_pions' = nb_pions - 1
  /\ UNCHANGED <<score, joueur, iter, choix, etape, resultat, case_depart, nbPrises,
                 tmpPlateau, tmp_score, plateauAvant>>

\* The pit played is tested before the loop has moved past it.
SemerBloque ==
  /\ etape = "egrenage"
  /\ nb_pions > 0
  /\ Suivante(case_parcourue) # case_depart
  /\ case_parcourue' = Suivante(case_parcourue)
  /\ plateau' = [plateau EXCEPT ![case_parcourue'] = @ + 1]
  /\ nb_pions' = nb_pions - 1
  /\ UNCHANGED <<score, joueur, iter, choix, etape, resultat, case_depart, nbPrises,
                 tmpPlateau, tmp_score, plateauAvant>>

\* One iteration of the sowing loop; the pit played is skipped.
Semer ==
  /\ etape = "egrenage"
  /\ nb_pions > 0
  /\ case_parcourue' = Suivante(case_parcourue)
  /\ IF case_parcourue' = case_depart
     THEN UNCHANGED <<plateau, nb_pions>>
     ELSE /\ plateau' = [plateau EXCEPT ![case_parcourue'] = @ + 1]
          /\ nb_pions' = nb_pions - 1
  /\ UNCHANGED <<score, joueur, iter, choix, etape, resultat, case_depart, nbPrises,
                 tmpPlateau, tmp_score, plateauAvant>>

\* The hand is empty: the board and the score are saved.
FinirEgrenage ==
  /\ etape = "egrenage"
  /\ nb_pions = 0
  /\ tmpPlateau' = plateau
  /\ tmp_score' = score[joueur]
  /\ etape' = "prises"
  /\ UNCHANGED <<plateau, score, joueur, iter, choix, resultat, nb_pions, case_depart,
                 case_parcourue, nbPrises, plateauAvant>>

\* Mutant: the pit captured keeps its seeds.
CapturerSansVider ==
  /\ etape = "prises"
  /\ case_parcourue \in Cases
  /\ Prenable(joueur, plateau, case_parcourue)
  /\ case_parcourue' = case_parcourue - SensRotation
  /\ score' = [score EXCEPT ![joueur] = @ + plateau[case_parcourue]]
  /\ nbPrises' = nbPrises + 1
  /\ UNCHANGED <<plateau, joueur, iter, choix, etape, resultat, nb_pions, case_depart,
                 tmpPlateau, tmp_score, plateauAvant>>

\* One iteration of the capture loop on a pit of the board, with the test
\* that would cancel the captures of the move.
Capturer ==
  LET c == case_parcourue
      p == [plateau EXCEPT ![c] = 0]
      suivant == c - SensRotation
      annule == suivant \in Cases /\ AnnulerPrises(joueur, p, suivant)
  IN  /\ etape = "prises"
      /\ c \in Cases
      /\ Prenable(joueur, plateau, c)
      /\ case_parcourue' = suivant
      /\ plateau' = IF annule THEN tmpPlateau ELSE p
      /\ score' = [score EXCEPT ![joueur] = IF annule THEN tmp_score ELSE @ + plateau[c]]
      /\ nbPrises' = IF annule THEN -1 ELSE nbPrises + 1
      /\ UNCHANGED <<joueur, iter, choix, etape, resultat, nb_pions, case_depart,
                     tmpPlateau, tmp_score, plateauAvant>>

\* The condition of the loop is false on a pit of the board.
FinirPrises ==
  /\ etape = "prises"
  /\ case_parcourue \in Cases
  /\ ~Prenable(joueur, plateau, case_parcourue)
  /\ etape' = "test"
  /\ UNCHANGED <<plateau, score, joueur, iter, choix, resultat, varsCoup>>

(***************************************************************************)
(* The condition of the loop reads plateau[NB_CASES], outside the array:   *)
(* the word is undefined.  Either it is neither 2 nor 3 and the loop ends, *)
(* or it is captured; with gcc the word is prises[0], which this move has  *)
(* just set to 2 or 3, each phantom capture writes one more word there and *)
(* the loop runs until it leaves the stack.                                *)
(***************************************************************************)
LireHorsPlateau ==
  /\ etape = "prises"
  /\ case_parcourue \notin Cases
  /\ etape' \in {"test", "plante"}
  /\ UNCHANGED <<plateau, score, joueur, iter, choix, resultat, varsCoup>>

\* game() after jouerCoup: testFinPartie, then the other player.
Tester ==
  /\ etape = "test"
  /\ resultat' = TestFinPartie(plateau, joueur, score)
  /\ etape' = IF resultat' = 0 THEN "tour" ELSE "terminee"
  /\ joueur' = Adverse(joueur)
  /\ iter' = IF iter < IterMax THEN iter + 1 ELSE iter
  /\ UNCHANGED <<plateau, score, choix, varsCoup>>

Next ==
  \/ Continuer
  \/ Abandonner
  \/ \E c \in Choix : Refuser(c) \/ Prendre(c)
  \/ Semer
  \/ FinirEgrenage
  \/ Capturer
  \/ FinirPrises
  \/ LireHorsPlateau
  \/ Tester

\* The thread goes on with a move once it has the choice; players may take
\* any time to answer.
Fairness == WF_vars(Semer \/ FinirEgrenage \/ Capturer \/ FinirPrises
                    \/ LireHorsPlateau \/ Tester)

Spec == Init /\ [][Next]_vars /\ Fairness

(***************************************************************************)
(* Refinement: a move in progress has not happened yet.  The score of the  *)
(* mover before the move is its score less what the board lost.            *)
(***************************************************************************)
EnMain == IF etape = "egrenage" THEN nb_pions ELSE 0

Partie == INSTANCE AwalePartie WITH
  plateau <- IF etape \in EnCoup \cup {"plante"} THEN plateauAvant ELSE plateau,
  score   <- IF etape \in EnCoup \cup {"plante"}
             THEN [score EXCEPT ![joueur] =
                     @ - (Graines(plateauAvant) - Graines(plateau) - EnMain)]
             ELSE score,
  etape   <- IF etape \in EnCoup THEN "coup" ELSE etape

(***************************************************************************)
(* Properties.                                                             *)
(***************************************************************************)

\* The seeds on the board, in the hand of the mover and captured are always
\* those of the start: no iteration of the two loops of jouerCoup creates or
\* loses one.
Conservation ==
  Graines(plateau) + EnMain + score[1] + score[2] = NbCases * Grains

\* The array prises[NB_CASES] of game() is never overrun by captures made on
\* the board: a move captures at most the pits of the adverse camp, each once.
BornePrises == nbPrises <= Camp

\* While a move captures, the pits left behind by the loop were in the
\* adverse camp: the mover's camp is untouched since the seeds were sown.
CampIntact ==
  etape = "prises" => \A c \in CampDe(joueur) : plateau[c] = tmpPlateau[c]

\* Where the capture loop stands: it counts the pits it leaves behind, from
\* the first pit of the adverse camp on (strengthening of BornePrises).
ParcoursPrises ==
  LET premiere == Camp * (2 - joueur) IN
  /\ etape = "egrenage" => nbPrises = 0
  /\ etape = "prises" /\ nbPrises # 0 =>
       nbPrises + premiere <= case_parcourue /\ case_parcourue <= premiere + Camp

\* The inductive invariant of AwaleCoup_proofs.
IInv == TypeInvariant /\ Conservation /\ BornePrises /\ CampIntact /\ ParcoursPrises

\* The loops compute the closed formulas: every behaviour is a game of
\* AwalePartie.
Raffinement == Partie!Spec

\* A move that began ends (or takes the server down with it): the sowing
\* loop, which skips the pit played, and the capture loop both terminate.
CoupTermine == etape \in EnCoup ~> etape \notin EnCoup

\* What awale.c says of prises, "tableau listant les prises engendrees par ce
\* coup": the capture loop takes seeds from pits of the board only.
PrisesSurLePlateau == etape = "prises" => case_parcourue \in Cases

=============================================================================
