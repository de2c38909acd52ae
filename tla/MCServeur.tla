----------------------------- MODULE MCServeur -----------------------------
(***************************************************************************)
(* Serveur on small sets of clients, for the model checker.                *)
(***************************************************************************)
EXTENDS Serveur, TLC

CONSTANTS c1, c2, c3

Symetrie == Permutations(Clients)

\* In place of the symmetry in the run that checks liveness: nothing tells the
\* programs apart, so the first one to connect is c1, the second one c2.
ArriveesOrdonnees ==
  compteurs.departs = 0 =>
    /\ c2 \in Connectes => c1 \in Connectes
    /\ c3 \in Connectes => c2 \in Connectes

\* In the run with two departures no program comes back; the other run has
\* the returns.
SansRetour == Cardinality({c \in Clients : Mode(c) # "hors"}) + compteurs.departs <= MaxClients

\* There, the second departure is for the behaviours with one challenge.
DefisOuDeparts == compteurs.defis + compteurs.departs <= 3

=============================================================================
