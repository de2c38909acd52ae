------------------------------- MODULE Awale -------------------------------
(***************************************************************************)
(* The rules of the game, as src/Jeu/src/awale.c computes them: constant   *)
(* operators on a board, no state.  The board is an array of NB_CASES      *)
(* pits; joueur 1 owns the lower half of the indices, joueur 2 the upper   *)
(* half.  What the C code does is translated, also where its comments say  *)
(* something else (capture of a whole camp, list of feeding moves).        *)
(***************************************************************************)
EXTENDS Integers

CONSTANTS
  Camp,    \* pits of one camp: NB_CASES/2, the literal 6 of the code
  Grains,  \* seeds per pit at the start: 4 in the code
  Seuil    \* score that wins: 25 in the code

(***************************************************************************)
(* The code has Camp = 6; smaller boards are for the model checker.  The   *)
(* winning score is more than half of the seeds, so two players cannot     *)
(* both reach it.                                                          *)
(***************************************************************************)
ASSUME CampAssumption   == Camp \in 1..6
ASSUME GrainsAssumption == Grains \in Nat
ASSUME SeuilAssumption  == Seuil \in Nat /\ Seuil > Camp * Grains

NbCases == 2 * Camp
Cases   == 0 .. NbCases - 1
Joueurs == {1, 2}

\* initPartie draws no direction: it always stores -1.
SensRotation == -1

Adverse(j) == IF j = 1 THEN 2 ELSE 1

EstDansCamp(j, c) == Camp * j > c /\ Camp * (j - 1) <= c

CampDe(j) == {c \in Cases : EstDansCamp(j, c)}

\* The C loop tests one pit past the camp before its bound; whatever it reads
\* there it answers the same.
ADesPions(j, p) == \E c \in CampDe(j) : p[c] # 0

\* Pits from c to the end of j's camp in the direction of play, c included.
NbCasesDansLeCamp(c, j) ==
  IF SensRotation = 1 THEN Camp * j - c ELSE c + 1 - Camp * (j - 1)

(***************************************************************************)
(* obligerNourrir: the obligation, and the pits it lists.                  *)
(***************************************************************************)
ObligerNourrir(j, p) == ~ADesPions(Adverse(j), p)

CasesListees(j, p) == {c \in CampDe(j) : p[c] < NbCasesDansLeCamp(c, j)}

\* Mutant: the winning score has to be passed.
TestFinPartieStricte(p, j, s) ==
  IF s[1] > Seuil THEN 1
  ELSE IF s[2] > Seuil THEN 2
  ELSE IF ~ADesPions(j, p) /\ ~ObligerNourrir(Adverse(j), p) THEN Adverse(j)
  ELSE 0

\* 0: the game goes on; otherwise the winner.
TestFinPartie(p, j, s) ==
  IF s[1] >= Seuil THEN 1
  ELSE IF s[2] >= Seuil THEN 2
  ELSE IF ~ADesPions(j, p) /\ ~ObligerNourrir(Adverse(j), p) THEN Adverse(j)
  ELSE 0

(***************************************************************************)
(* jouerCoup.  A choice outside 1..Camp is ignored; pit 1 is the one with  *)
(* the highest index of the camp.                                          *)
(***************************************************************************)
ChoixValide(choix) == choix \in 1..Camp

CaseDepart(j, choix) == Camp * j - choix

Suivante(c) == (c + SensRotation) % NbCases

\* Steps from dep to c in the direction of play.
Distance(dep, c) == ((c - dep) * SensRotation) % NbCases

\* Mutant: the loop stops one seed early.
EgrenerCourt(p, dep) ==
  [c \in Cases |->
     IF c = dep THEN 0
     ELSE p[c] + (p[dep] + NbCases - 2 - Distance(dep, c)) \div (NbCases - 1)]

\* The board after the seeds of dep are sown one by one, dep being skipped.
Egrener(p, dep) ==
  [c \in Cases |->
     IF c = dep THEN 0
     ELSE p[c] + (p[dep] + NbCases - 1 - Distance(dep, c)) \div (NbCases - 1)]

\* The pit of the last seed; dep itself when there was nothing to sow.
CaseArrivee(p, dep) ==
  IF p[dep] = 0 THEN dep
  ELSE (dep + SensRotation * (((p[dep] - 1) % (NbCases - 1)) + 1)) % NbCases

\* Mutant: the captures go on into the camp of the mover.
PrenablePartout(j, p, c) == p[c] \in {2, 3}

Prenable(j, p, c) == ~EstDansCamp(j, c) /\ p[c] \in {2, 3}

\* The run of pits captured from pit a on, against the direction of play.
CasesPrises(j, p, a) == {c \in a .. NbCases - 1 : \A k \in a..c : Prenable(j, p, k)}

\* The run reaches the last pit of the array: the loop goes on reading at
\* index NB_CASES, outside the board.
Deborde(j, p, a) == NbCases - 1 \in CasesPrises(j, p, a)

(***************************************************************************)
(* Seeds on a board, written as a sum of NB_CASES = 12 terms so that a     *)
(* proof can compute with it; a pit that a smaller board lacks counts 0.   *)
(***************************************************************************)
Pion(p, c) == IF c \in Cases THEN p[c] ELSE 0

Graines(p) == Pion(p, 0) + Pion(p, 1) + Pion(p, 2) + Pion(p, 3)
            + Pion(p, 4) + Pion(p, 5) + Pion(p, 6) + Pion(p, 7)
            + Pion(p, 8) + Pion(p, 9) + Pion(p, 10) + Pion(p, 11)

Vider(p, S) == [c \in Cases |-> IF c \in S THEN 0 ELSE p[c]]

SommeSur(p, S) == Graines([c \in Cases |-> IF c \in S THEN p[c] ELSE 0])

(***************************************************************************)
(* The test that should cancel a capture emptying the adverse camp, as it  *)
(* is written: it names the directions 1 and 0, a game only has -1.        *)
(***************************************************************************)
AnnulerPrises(j, p, c) ==
  /\ \/ SensRotation = 1 /\ c = Camp * (2 - j)
     \/ SensRotation = 0 /\ c = Camp * (3 - j) - 1
  /\ p[c] = 0

(***************************************************************************)
(* The choices the client of joueur j lets its user make (src/Client,      *)
(* jeu): in a famine, a number one above the one the server listed, which  *)
(* is itself the index of the pit in the camp plus one.                    *)
(***************************************************************************)
ChoixAcceptes(j, p) ==
  IF ObligerNourrir(j, p) THEN {(c % Camp) + 2 : c \in CasesListees(j, p)}
  ELSE 1..Camp

\* initPartie.
PlateauInitial == [c \in Cases |-> Grains]
ScoreInitial   == [j \in Joueurs |-> 0]

=============================================================================
