---------------------------- MODULE AwalePartie ----------------------------
(***************************************************************************)
(* One game as the thread game() of the server conducts it with the two    *)
(* clients, at the grain of a turn: the player to move may give up (from   *)
(* its second turn on), then sends a choice its client accepts, or another *)
(* message; jouerCoup and testFinPartie are one step.  AwaleCoup refines   *)
(* this module with the loops of jouerCoup.                                *)
(***************************************************************************)
EXTENDS Awale

VARIABLES
  plateau,   \* [Cases -> Nat]
  score,     \* score_joueur1, score_joueur2
  joueur,    \* whose turn it is
  iter,      \* number of the turn, counted up to IterMax
  choix,     \* the last pit chosen, which game() keeps from turn to turn
  etape,     \* what game() waits for, or how it ended
  resultat   \* what testFinPartie returned last

vars == <<plateau, score, joueur, iter, choix, etape, resultat>>

\* game() only tells turns 1 and 2 from the later ones.
IterMax == 3

Debut == iter < IterMax

\* What choix may hold; Camp + 1 stands for every number that is no pit.
Choix == 1 .. Camp + 1

TypeInvariant ==
  /\ plateau \in [Cases -> Nat]
  /\ score \in [Joueurs -> Nat]
  /\ joueur \in Joueurs
  /\ iter \in 1..IterMax
  /\ choix \in Choix
  /\ etape \in {"tour", "choix", "coup", "abandonnee", "terminee", "plante"}
  /\ resultat \in {0} \cup Joueurs

\* choix is not initialised: it holds whatever the stack held.
Init ==
  /\ plateau = PlateauInitial
  /\ score = ScoreInitial
  /\ joueur = 1
  /\ iter = 1
  /\ choix \in Choix
  /\ etape = "tour"
  /\ resultat = 0

\* The first two turns ask nothing; later the player answers "PARTIE/fin:0".
Continuer ==
  /\ etape = "tour"
  /\ etape' = "choix"
  /\ UNCHANGED <<plateau, score, joueur, iter, choix, resultat>>

\* The player answers "PARTIE/fin:1" to "PARTIE/demande_fin".
Abandonner ==
  /\ etape = "tour"
  /\ ~Debut
  /\ etape' = "abandonnee"
  /\ UNCHANGED <<plateau, score, joueur, iter, choix, resultat>>

\* The player's message: "PARTIE/coup" with a choice its client accepts; or
\* anything else it sends while it is in the game, which is taken for a move
\* ("pas de coup recu" is only printed): the last choice is played again,
\* though it was the other player's, or nobody's at the first turn.
Recevoir(c) ==
  /\ etape = "choix"
  /\ c \in ChoixAcceptes(joueur, plateau) \cup {choix}
  /\ choix' = c
  /\ etape' = "coup"
  /\ UNCHANGED <<plateau, score, joueur, iter, resultat>>

\* Mutant: the next player is joueur + 1.
FinDeTourSansRetour(p, s) ==
  /\ plateau' = p
  /\ score' = s
  /\ resultat' = TestFinPartie(p, joueur, s)
  /\ etape' = IF resultat' = 0 THEN "tour" ELSE "terminee"
  /\ joueur' = joueur + 1
  /\ iter' = IF iter < IterMax THEN iter + 1 ELSE iter
  /\ UNCHANGED choix

\* End of the turn: the test, then the other player, whatever its result.
FinDeTour(p, s) ==
  /\ plateau' = p
  /\ score' = s
  /\ resultat' = TestFinPartie(p, joueur, s)
  /\ etape' = IF resultat' = 0 THEN "tour" ELSE "terminee"
  /\ joueur' = Adverse(joueur)
  /\ iter' = IF iter < IterMax THEN iter + 1 ELSE iter
  /\ UNCHANGED choix

\* A choice jouerCoup refuses: the turn passes.
Passer ==
  /\ etape = "coup"
  /\ ~ChoixValide(choix)
  /\ FinDeTour(plateau, score)

Jouer ==
  LET dep    == CaseDepart(joueur, choix)
      p      == Egrener(plateau, dep)
      prises == CasesPrises(joueur, p, CaseArrivee(plateau, dep))
  IN  /\ etape = "coup"
      /\ ChoixValide(choix)
      /\ FinDeTour(Vider(p, prises),
                   [score EXCEPT ![joueur] = @ + SommeSur(p, prises)])

(***************************************************************************)
(* The run of captures goes past the end of the array.  The word read      *)
(* there is undefined; when it is neither 2 nor 3 the move ends as Jouer   *)
(* says.  With gcc the word is prises[0], which this very move has set to  *)
(* 2 or 3: the loop never ends and the server dies on a bad address.       *)
(***************************************************************************)
Planter ==
  LET dep == CaseDepart(joueur, choix)
      p   == Egrener(plateau, dep)
  IN  /\ etape = "coup"
      /\ ChoixValide(choix)
      /\ Deborde(joueur, p, CaseArrivee(plateau, dep))
      /\ etape' = "plante"
      /\ UNCHANGED <<plateau, score, joueur, iter, choix, resultat>>

Next ==
  \/ Continuer
  \/ Abandonner
  \/ \E c \in Choix : Recevoir(c)
  \/ Passer
  \/ Jouer
  \/ Planter

Spec == Init /\ [][Next]_vars

(***************************************************************************)
(* Properties.                                                             *)
(***************************************************************************)

\* No seed is created or lost: those on the board and those captured are
\* always the ones the game started with (sowing, laps around the board,
\* captures of jouerCoup).
Conservation == Graines(plateau) + score[1] + score[2] = NbCases * Grains

\* A player with the winning score always ends the game, and whoever
\* "PARTIE/terminer" names has not lost it: the other player has less than the
\* winning score, and no seed to move if the winner has less too (the order of
\* the tests of testFinPartie, and the player they are made for).
FinJuste ==
  /\ etape \in {"tour", "choix", "coup"} => \A j \in Joueurs : score[j] < Seuil
  /\ etape = "terminee" =>
       /\ score[Adverse(resultat)] < Seuil
       /\ score[resultat] < Seuil => ~ADesPions(Adverse(resultat), plateau)

\* A turn takes seeds from one pit of the mover's camp at most; an adverse pit
\* that loses seeds is emptied, and the mover's score grows by what it held
\* at least: no capture in one's own camp, none credited to the other player
\* (sowing and capture loops of jouerCoup).
PrisesAdverses ==
  [][LET perdues == {c \in CampDe(Adverse(joueur)) : plateau'[c] < plateau[c]}
     IN  /\ \A c, d \in CampDe(joueur) :
              plateau'[c] < plateau[c] /\ plateau'[d] < plateau[d] => c = d
         /\ \A c \in perdues : plateau'[c] = 0
         /\ score'[Adverse(joueur)] = score[Adverse(joueur)]
         /\ score'[joueur] - score[joueur] >= SommeSur(plateau, perdues)]_vars

(***************************************************************************)
(* What comments and messages of the repository say, and the code does not *)
(* do: each is violated by a run of its own.                               *)
(***************************************************************************)

\* A pit of j whose seeds reach the adverse camp.
PeutNourrir(j) ==
  \E c \in CampDe(j) : plateau[c] >= NbCasesDansLeCamp(c, j)

\* The move that is made is one that the client accepted.
CoupAccepte ==
  etape = "coup" /\ etape' # "plante" /\ choix \in ChoixAcceptes(joueur, plateau)

\* "vous devez jouer un de ces coups pour le nourrir": when the adverse camp
\* is empty and can be fed, the move played from the list leaves a seed there.
NourrirObligatoire ==
  [][CoupAccepte /\ ObligerNourrir(joueur, plateau) /\ PeutNourrir(joueur)
       => ADesPions(Adverse(joueur), plateau')]_vars

=============================================================================
