------------------------------- MODULE Canal -------------------------------
(***************************************************************************)
(* What the semaphores semGame and semOKGame of the client promise: the    *)
(* messages of a game go one at a time from the thread that listens to the *)
(* thread that plays, in their order, none lost and none read twice, and   *)
(* the buffer is not written again before the reader is done with it.      *)
(***************************************************************************)
EXTENDS Naturals

VARIABLES
  place,   \* the buffer: free, holding a message, being read, or no more
  ecrits,  \* messages put so far
  lus      \* messages taken so far

vars == <<place, ecrits, lus>>

Init == place = "vide" /\ ecrits = 0 /\ lus = 0

Ecrire ==
  /\ place = "vide"
  /\ place' = "plein"
  /\ ecrits' = ecrits + 1
  /\ UNCHANGED lus

Lire ==
  /\ place = "plein"
  /\ place' = "lu"
  /\ lus' = lus + 1
  /\ UNCHANGED ecrits

Rendre ==
  /\ place = "lu"
  /\ place' = "vide"
  /\ UNCHANGED <<ecrits, lus>>

\* The program ends, at any moment.
Fermer ==
  /\ place' = "ferme"
  /\ UNCHANGED <<ecrits, lus>>

Next == Ecrire \/ Lire \/ Rendre \/ Fermer

Spec == Init /\ [][Next]_vars

============================================================================
