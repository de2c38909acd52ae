---------------------------- MODULE MCAnnuaire ----------------------------
EXTENDS Annuaire

CONSTANTS alice, bob, carole

\* The third program is a third user, or the first one coming back.
TroisProgrammes == <<{alice}, {bob}, {alice, carole}>>

\* Two messages wait for a program at most, and the third program comes before
\* the second challenge or not at all.
Charge ==
  /\ \A c \in Programmes : Len(sortie[c]) <= 2
  /\ compteurs.demandes = 2 => Phase(3) = "hors"

===========================================================================
