---------------------------- MODULE Awale_proofs ----------------------------
(***************************************************************************)
(* Lemmas about the operators of Awale, for every board of up to           *)
(* NB_CASES = 12 pits, every number of seeds and every winning score: what *)
(* sowing, capturing and the test for the end of a game compute.           *)
(***************************************************************************)
EXTENDS Awale, TLAPS

(***************************************************************************)
(* The sum over a board, and the pits.                                     *)
(***************************************************************************)

\* Storing v in pit c changes the sum over the board by the difference: what
\* the assignments plateau[c] = plateau[c] + 1 and plateau[c] = 0 rely on.
LEMMA GrainesMaj ==
  ASSUME NEW p \in [Cases -> Nat], NEW c \in Cases, NEW v \in Nat
  PROVE  Graines([p EXCEPT ![c] = v]) = Graines(p) - p[c] + v
<1> DEFINE q == [p EXCEPT ![c] = v]
<1>1. \A k \in 0..11 : Pion(q, k) = IF k = c THEN v ELSE Pion(p, k)
  BY CampAssumption DEF Pion, Cases, NbCases
<1>2. \A k \in 0..11 : Pion(p, k) \in Int
  BY CampAssumption DEF Pion, Cases, NbCases
<1>3. Pion(p, c) = p[c] /\ c \in 0..11
  BY CampAssumption DEF Pion, Cases, NbCases
<1> HIDE DEF q
<1>4. Graines(q) = Graines(p) - Pion(p, c) + v
  <2>1. CASE c \in 0..5
    BY <1>1, <1>2, <2>1 DEF Graines
  <2>2. CASE c \in 6..11
    BY <1>1, <1>2, <2>2 DEF Graines
  <2> QED BY <1>3, <2>1, <2>2
<1> QED BY <1>3, <1>4 DEF q

\* The sum over a board is a number.
LEMMA GrainesType ==
  ASSUME NEW p \in [Cases -> Nat]
  PROVE  Graines(p) \in Nat
<1>1. \A k \in 0..11 : Pion(p, k) \in Nat
  BY CampAssumption DEF Pion, Cases, NbCases
<1> QED BY <1>1 DEF Graines

\* initPartie puts Grains seeds in each of the NbCases pits.
LEMMA GrainesInitial == Graines(PlateauInitial) = NbCases * Grains
<1>1. \A k \in 0..11 : Pion(PlateauInitial, k) = IF k < NbCases THEN Grains ELSE 0
  BY CampAssumption DEF Pion, PlateauInitial, Cases, NbCases
<1>2. CASE Camp \in {1, 2, 3}
  BY <1>1, <1>2, GrainsAssumption DEF Graines, NbCases
<1>3. CASE Camp \in {4, 5, 6}
  BY <1>1, <1>3, GrainsAssumption DEF Graines, NbCases
<1> QED BY <1>2, <1>3, CampAssumption

\* A valid choice names a pit of the board.
LEMMA DepartType ==
  ASSUME NEW j \in Joueurs, NEW choix, ChoixValide(choix)
  PROVE  CaseDepart(j, choix) \in Cases
BY CampAssumption DEF ChoixValide, CaseDepart, Joueurs, Cases, NbCases

\* The sowing loop stays on the board.
LEMMA SuivanteType ==
  ASSUME NEW c \in Cases
  PROVE  Suivante(c) \in Cases
<1>1. CASE Camp \in {1, 2, 3}
  BY <1>1 DEF Suivante, SensRotation, Cases, NbCases
<1>2. CASE Camp \in {4, 5, 6}
  BY <1>2 DEF Suivante, SensRotation, Cases, NbCases
<1> QED BY <1>1, <1>2, CampAssumption

\* Past the last pit the next one in the direction of play is the last pit.
LEMMA SuivanteBord == Suivante(NbCases) \in Cases
<1>1. CASE Camp \in {1, 2, 3}
  BY <1>1 DEF Suivante, SensRotation, Cases, NbCases
<1>2. CASE Camp \in {4, 5, 6}
  BY <1>2 DEF Suivante, SensRotation, Cases, NbCases
<1> QED BY <1>1, <1>2, CampAssumption

\* In the direction a game has (awale.c:30), the test for a move that empties the
\* adverse camp (awale.c:257, and its comment awale.c:220 "les graines ne sont
\* pas prises") holds for no board, player or pit: captures are never given back.
THEOREM JamaisAnnule ==
  ASSUME NEW j, NEW p, NEW c
  PROVE  ~AnnulerPrises(j, p, c)
BY DEF AnnulerPrises, SensRotation

\* The test for the end of the game (testFinPartie) names nobody or a player.
LEMMA TestType ==
  ASSUME NEW p, NEW j \in Joueurs, NEW s \in [Joueurs -> Nat]
  PROVE  TestFinPartie(p, j, s) \in {0} \cup Joueurs
BY SeuilAssumption DEF TestFinPartie, Joueurs, Adverse

(***************************************************************************)
(* Captures.                                                               *)
(***************************************************************************)

\* Boards are added pit by pit.
LEMMA GrainesPlus ==
  ASSUME NEW p \in [Cases -> Int], NEW q \in [Cases -> Int], NEW r \in [Cases -> Int],
         \A c \in Cases : r[c] = p[c] + q[c]
  PROVE  Graines(r) = Graines(p) + Graines(q)
<1>1. \A k \in 0..11 : /\ Pion(p, k) \in Int /\ Pion(q, k) \in Int
                       /\ Pion(r, k) = Pion(p, k) + Pion(q, k)
  BY DEF Pion
<1> QED BY <1>1 DEF Graines

\* A board that has no more seeds in any pit has no more in all.
LEMMA GrainesOrdre ==
  ASSUME NEW p \in [Cases -> Int], NEW q \in [Cases -> Int],
         \A c \in Cases : p[c] <= q[c]
  PROVE  Graines(p) <= Graines(q)
<1>1. \A k \in 0..11 : Pion(p, k) \in Int /\ Pion(q, k) \in Int /\ Pion(p, k) <= Pion(q, k)
  BY DEF Pion
<1> QED BY <1>1 DEF Graines

\* What a move captures is what it takes off the board.
LEMMA ViderSomme ==
  ASSUME NEW p \in [Cases -> Nat], NEW S
  PROVE  /\ Vider(p, S) \in [Cases -> Nat]
         /\ SommeSur(p, S) \in Nat
         /\ Graines(p) = Graines(Vider(p, S)) + SommeSur(p, S)
<1> DEFINE pris == [c \in Cases |-> IF c \in S THEN p[c] ELSE 0]
<1>1. Vider(p, S) \in [Cases -> Nat] /\ pris \in [Cases -> Nat]
  BY DEF Vider
<1>2. \A c \in Cases : p[c] = Vider(p, S)[c] + pris[c]
  BY DEF Vider
<1>3. Vider(p, S) \in [Cases -> Int] /\ pris \in [Cases -> Int] /\ p \in [Cases -> Int]
  BY <1>1
<1> HIDE DEF pris
<1>4. Graines(p) = Graines(Vider(p, S)) + Graines(pris)
  BY <1>2, <1>3, GrainesPlus
<1>5. Graines(pris) \in Nat
  BY <1>1, GrainesType
<1> QED BY <1>1, <1>4, <1>5 DEF SommeSur, pris

\* Captures that are among others take no more.
LEMMA SommeOrdre ==
  ASSUME NEW p \in [Cases -> Nat], NEW q \in [Cases -> Nat], NEW S, NEW T,
         S \subseteq T, \A c \in Cases : p[c] <= q[c] \/ c \notin S
  PROVE  SommeSur(p, S) <= SommeSur(q, T)
<1> DEFINE f == [c \in Cases |-> IF c \in S THEN p[c] ELSE 0]
           g == [c \in Cases |-> IF c \in T THEN q[c] ELSE 0]
<1>1. f \in [Cases -> Int] /\ g \in [Cases -> Int] /\ \A c \in Cases : f[c] <= g[c]
  OBVIOUS
<1> HIDE DEF f, g
<1>2. Graines(f) <= Graines(g)
  BY <1>1, GrainesOrdre
<1> QED BY <1>2 DEF SommeSur, f, g

\* The remainder by a number of pits.
LEMMA ResteType ==
  ASSUME NEW x \in Int, NEW m \in 1..12
  PROVE  x % m \in 0 .. m - 1
<1>1. CASE m = 1
  BY <1>1
<1>2. CASE m = 2
  BY <1>2
<1>3. CASE m = 3
  BY <1>3
<1>4. CASE m = 4
  BY <1>4
<1>5. CASE m = 5
  BY <1>5
<1>6. CASE m = 6
  BY <1>6
<1>7. CASE m = 7
  BY <1>7
<1>8. CASE m = 8
  BY <1>8
<1>9. CASE m = 9
  BY <1>9
<1>10. CASE m = 10
  BY <1>10
<1>11. CASE m = 11
  BY <1>11
<1>12. CASE m = 12
  BY <1>12
<1> QED BY <1>1, <1>2, <1>3, <1>4, <1>5, <1>6, <1>7, <1>8, <1>9, <1>10, <1>11, <1>12

\* The last seed falls on the board.
LEMMA ArriveeType ==
  ASSUME NEW p \in [Cases -> Nat], NEW dep \in Cases
  PROVE  CaseArrivee(p, dep) \in Cases
<1> DEFINE r == (p[dep] - 1) % (NbCases - 1)
           x == dep + SensRotation * (r + 1)
<1>1. CASE p[dep] = 0
  BY <1>1 DEF CaseArrivee
<1>2. CASE p[dep] # 0
  <2>1. p[dep] - 1 \in Int /\ NbCases - 1 \in 1..12 /\ NbCases \in 1..12 /\ dep \in Int
    BY CampAssumption DEF Cases, NbCases
  <2>2. r \in Int
    BY <2>1, ResteType
  <2> HIDE DEF r
  <2>3. x \in Int
    BY <2>1, <2>2 DEF SensRotation
  <2> HIDE DEF x
  <2>4. x % NbCases \in Cases
    BY <2>1, <2>3, ResteType DEF Cases
  <2> QED BY <1>2, <2>4 DEF CaseArrivee, x, r
<1> QED BY <1>1, <1>2

\* A run of captures takes no pit of the mover's camp.
LEMMA PrisesHorsCamp ==
  ASSUME NEW j \in Joueurs, NEW p, NEW a \in Cases, NEW c \in CasesPrises(j, p, a)
  PROVE  c \in Cases /\ ~EstDansCamp(j, c)
BY CampAssumption DEF CasesPrises, Prenable, Cases, NbCases

(***************************************************************************)
(* Sowing.                                                                 *)
(***************************************************************************)

\* The number of steps from a pit to another against the indices.
LEMMA DistanceForme ==
  ASSUME NEW dep \in Cases, NEW c \in Cases
  PROVE  Distance(dep, c) = IF c <= dep THEN dep - c ELSE dep - c + NbCases
<1>1. CASE Camp \in {1, 2, 3}
  BY <1>1 DEF Distance, SensRotation, Cases, NbCases
<1>2. CASE Camp \in {4, 5, 6}
  BY <1>2 DEF Distance, SensRotation, Cases, NbCases
<1> QED BY <1>1, <1>2, CampAssumption

\* A pit at distance d gets a seed per whole lap of m pits, and one of the
\* rest when the rest reaches it.
LEMMA PartDuTour ==
  ASSUME NEW n \in Nat, NEW m \in 1..11
  PROVE  /\ n \div m \in Nat /\ n % m \in 0 .. m - 1 /\ n = m * (n \div m) + (n % m)
         /\ \A d \in 1..m :
              (n + m - d) \div m = n \div m + (IF d <= n % m THEN 1 ELSE 0)
<1> DEFINE q == n \div m
           r == n % m
           G == /\ q \in Nat /\ r \in 0 .. m - 1 /\ n = m * q + r
                /\ \A d \in 1..m : (n + m - d) \div m = q + (IF d <= r THEN 1 ELSE 0)
<1>a. q = n \div m /\ r = n % m
  OBVIOUS
<1> HIDE DEF q, r
<1>g. G
  <2>1. CASE m = 1
    BY <1>a, <2>1
  <2>2. CASE m = 2
    BY <1>a, <2>2
  <2>3. CASE m = 3
    BY <1>a, <2>3
  <2>4. CASE m = 4
    BY <1>a, <2>4
  <2>5. CASE m = 5
    BY <1>a, <2>5
  <2>6. CASE m = 6
    BY <1>a, <2>6
  <2>7. CASE m = 7
    BY <1>a, <2>7
  <2>8. CASE m = 8
    BY <1>a, <2>8
  <2>9. CASE m = 9
    BY <1>a, <2>9
  <2>10. CASE m = 10
    BY <1>a, <2>10
  <2>11. CASE m = 11
    BY <1>a, <2>11
  <2> HIDE DEF G
  <2> QED BY <2>1, <2>2, <2>3, <2>4, <2>5, <2>6, <2>7, <2>8, <2>9, <2>10, <2>11
<1> QED BY <1>g, Zenon DEF q, r

\* The board after sowing, pit by pit: q whole laps, and a rest of r.
LEMMA EgrenerForme ==
  ASSUME NEW p \in [Cases -> Nat], NEW dep \in Cases, NEW q, NEW r,
         q = p[dep] \div (NbCases - 1), r = p[dep] % (NbCases - 1)
  PROVE  /\ q \in Nat /\ r \in 0 .. NbCases - 2 /\ p[dep] = (NbCases - 1) * q + r
         /\ \A c \in Cases : Egrener(p, dep)[c] =
              IF c = dep THEN 0 ELSE p[c] + q + (IF Distance(dep, c) <= r THEN 1 ELSE 0)
<1> DEFINE m == NbCases - 1
           n == p[dep]
<1>1. m \in 1..11 /\ NbCases \in Nat /\ n \in Nat /\ NbCases - 2 = m - 1
  BY CampAssumption DEF NbCases
<1>2. /\ q \in Nat /\ r \in 0 .. m - 1 /\ n = m * q + r
      /\ \A d \in 1..m : (n + m - d) \div m = q + (IF d <= r THEN 1 ELSE 0)
  <2> HIDE DEF m, n
  <2>1. q = n \div m /\ r = n % m
    BY DEF m, n
  <2>2. n \in Nat /\ m \in 1..11
    BY <1>1
  <2>3. /\ n \div m \in Nat /\ n % m \in 0 .. m - 1 /\ n = m * (n \div m) + (n % m)
        /\ \A d \in 1..m :
             (n + m - d) \div m = n \div m + (IF d <= n % m THEN 1 ELSE 0)
    BY <2>2, PartDuTour
  <2> QED BY <2>1, <2>3, Zenon
<1>3. ASSUME NEW c \in Cases, c # dep
      PROVE  Egrener(p, dep)[c] = p[c] + q + (IF Distance(dep, c) <= r THEN 1 ELSE 0)
  <2> DEFINE d == Distance(dep, c)
  <2>1. d \in 1..m
    <3>1. d = IF c <= dep THEN dep - c ELSE dep - c + NbCases
      BY DistanceForme
    <3> HIDE DEF d
    <3> QED BY <1>3, <3>1, CampAssumption DEF Cases, NbCases
  <2>2. Egrener(p, dep)[c] = p[c] + (p[dep] + NbCases - 1 - d) \div (NbCases - 1)
    BY <1>3 DEF Egrener
  <2> HIDE DEF d
  <2>3. p[dep] + NbCases - 1 - d = n + m - d
    BY <1>1, <2>1
  <2>4. Egrener(p, dep)[c] = p[c] + (n + m - d) \div m
    BY <2>2, <2>3
  <2>5. p[c] \in Nat
    OBVIOUS
  <2> HIDE DEF m, n
  <2>6. (n + m - d) \div m = q + (IF d <= r THEN 1 ELSE 0)
    BY <1>2, <2>1
  <2> QED BY <1>2, <2>4, <2>5, <2>6 DEF d
<1>4. Egrener(p, dep)[dep] = 0
  BY DEF Egrener
<1> QED BY <1>1, <1>2, <1>3, <1>4

\* Sowing takes no seed from any pit but the one played, and leaves a board.
LEMMA EgrenerType ==
  ASSUME NEW p \in [Cases -> Nat], NEW dep \in Cases
  PROVE  /\ Egrener(p, dep) \in [Cases -> Nat]
         /\ \A c \in Cases : c # dep => Egrener(p, dep)[c] >= p[c]
<1> DEFINE q == p[dep] \div (NbCases - 1)
           r == p[dep] % (NbCases - 1)
<1>1. /\ q \in Nat /\ r \in 0 .. NbCases - 2
      /\ \A c \in Cases : Egrener(p, dep)[c] =
           IF c = dep THEN 0 ELSE p[c] + q + (IF Distance(dep, c) <= r THEN 1 ELSE 0)
  BY EgrenerForme
<1> HIDE DEF q, r
<1>2. \A c \in Cases : /\ Egrener(p, dep)[c] \in Nat
                       /\ c # dep => Egrener(p, dep)[c] >= p[c]
  BY <1>1
<1> QED BY <1>2 DEF Egrener

\* The pits that the rest of r seeds reaches are r in number.
Reste(dep, r) == [c \in Cases |-> IF c # dep /\ Distance(dep, c) <= r THEN 1 ELSE 0]

\* Their sum, one size of board at a time.
LEMMA SommeReste ==
  ASSUME NEW dep \in Cases, NEW r \in 0 .. NbCases - 2
  PROVE  Graines(Reste(dep, r)) = r
<1> DEFINE f(k) == IF k \in 0 .. 2 * Camp - 1 /\ k # dep
                      /\ (IF k <= dep THEN dep - k ELSE dep - k + 2 * Camp) <= r
                   THEN 1 ELSE 0
<1>1. \A k \in 0..11 : Pion(Reste(dep, r), k) = f(k)
  BY DistanceForme DEF Pion, Reste, Cases, NbCases
<1>2. dep \in 0 .. 2 * Camp - 1 /\ r \in 0 .. 2 * Camp - 2
  BY DEF Cases, NbCases
<1> HIDE DEF f
<1>3. f(0) + f(1) + f(2) + f(3) + f(4) + f(5) + f(6) + f(7) + f(8) + f(9) + f(10) + f(11) = r
  <2>1. CASE Camp = 1
    BY <1>2, <2>1 DEF f
  <2>2. CASE Camp = 2
    BY <1>2, <2>2 DEF f
  <2>3. CASE Camp = 3
    BY <1>2, <2>3 DEF f
  <2>4. CASE Camp = 4
    BY <1>2, <2>4 DEF f
  <2>5. CASE Camp = 5
    BY <1>2, <2>5 DEF f
  <2>6. CASE Camp = 6
    BY <1>2, <2>6 DEF f
  <2> QED BY <2>1, <2>2, <2>3, <2>4, <2>5, <2>6, CampAssumption
<1> QED BY <1>1, <1>3 DEF Graines

\* Whole laps put q seeds in every pit but the one played.
LEMMA SommeTours ==
  ASSUME NEW dep \in Cases, NEW q \in Nat
  PROVE  Graines([c \in Cases |-> IF c = dep THEN 0 ELSE q]) = (NbCases - 1) * q
<1> DEFINE t == [c \in Cases |-> q]
           u == [t EXCEPT ![dep] = 0]
<1>1. [c \in Cases |-> IF c = dep THEN 0 ELSE q] = u
  OBVIOUS
<1>2. t \in [Cases -> Nat] /\ t[dep] = q
  OBVIOUS
<1>3. Graines(t) = NbCases * q
  <2>1. \A k \in 0..11 : Pion(t, k) = IF k < NbCases THEN q ELSE 0
    BY CampAssumption DEF Pion, Cases, NbCases
  <2> HIDE DEF t
  <2>2. CASE Camp \in {1, 2, 3}
    BY <2>1, <2>2 DEF Graines, NbCases
  <2>3. CASE Camp \in {4, 5, 6}
    BY <2>1, <2>3 DEF Graines, NbCases
  <2> QED BY <2>2, <2>3, CampAssumption
<1> HIDE DEF t
<1>4. Graines(u) = Graines(t) - q + 0
  BY <1>2, GrainesMaj
<1>5. NbCases * q - q = (NbCases - 1) * q
  <2>1. CASE Camp \in {1, 2, 3}
    BY <2>1 DEF NbCases
  <2>2. CASE Camp \in {4, 5, 6}
    BY <2>2 DEF NbCases
  <2> QED BY <2>1, <2>2, CampAssumption
<1>6. NbCases * q \in Nat
  BY CampAssumption DEF NbCases
<1> QED BY <1>1, <1>3, <1>4, <1>5, <1>6

\* Sowing moves seeds: it creates none and loses none, however many laps.
THEOREM EgrenerConserve ==
  ASSUME NEW p \in [Cases -> Nat], NEW dep \in Cases
  PROVE  Graines(Egrener(p, dep)) = Graines(p)
<1> DEFINE q == p[dep] \div (NbCases - 1)
           r == p[dep] % (NbCases - 1)
           vide  == [p EXCEPT ![dep] = 0]
           tours == [c \in Cases |-> IF c = dep THEN 0 ELSE q]
           somme == [c \in Cases |-> vide[c] + tours[c]]
           reste == Reste(dep, r)
<1>1. /\ q \in Nat /\ r \in 0 .. NbCases - 2 /\ p[dep] = (NbCases - 1) * q + r
      /\ \A c \in Cases : Egrener(p, dep)[c] =
           IF c = dep THEN 0 ELSE p[c] + q + (IF Distance(dep, c) <= r THEN 1 ELSE 0)
  BY EgrenerForme
<1> HIDE DEF q, r
<1>2. /\ vide \in [Cases -> Nat] /\ tours \in [Cases -> Nat] /\ reste \in [Cases -> Nat]
      /\ somme \in [Cases -> Nat] /\ Egrener(p, dep) \in [Cases -> Nat]
  BY <1>1, EgrenerType DEF Reste
<1>3. \A c \in Cases : Egrener(p, dep)[c] = somme[c] + reste[c]
  BY <1>1 DEF Reste
<1>4. \A c \in Cases : somme[c] = vide[c] + tours[c]
  OBVIOUS
<1>5. /\ Graines(vide) = Graines(p) - p[dep] + 0
      /\ Graines(tours) = (NbCases - 1) * q
      /\ Graines(reste) = r
  BY <1>1, GrainesMaj, SommeTours, SommeReste
<1> HIDE DEF vide, tours, somme, reste
<1>6. Graines(somme) = Graines(vide) + Graines(tours)
  BY <1>2, <1>4, GrainesPlus
<1>7. Graines(Egrener(p, dep)) = Graines(somme) + Graines(reste)
  BY <1>2, <1>3, GrainesPlus
<1>8. Graines(p) \in Nat /\ Graines(tours) \in Nat
  BY <1>2, GrainesType
<1>9. r \in Int /\ p[dep] \in Nat
  BY <1>1, CampAssumption DEF NbCases
<1> QED BY <1>1, <1>5, <1>6, <1>7, <1>8, <1>9

(***************************************************************************)
(* Sowing, one seed at a time.                                             *)
(***************************************************************************)

\* The steps from a pit number the pits, and the next pit is one step further
\* until the lap is over.
LEMMA DistanceSuivante ==
  ASSUME NEW dep \in Cases, NEW c \in Cases
  PROVE  /\ Distance(dep, c) \in 0 .. NbCases - 1
         /\ Distance(dep, c) = 0 <=> c = dep
         /\ \A k \in Cases : Distance(dep, k) = Distance(dep, c) => k = c
         /\ Distance(dep, Suivante(c)) =
              IF Distance(dep, c) = NbCases - 1 THEN 0 ELSE Distance(dep, c) + 1
<1> DEFINE f(k) == IF k <= dep THEN dep - k ELSE dep - k + NbCases
           s == IF c = 0 THEN NbCases - 1 ELSE c - 1
<1>1. \A k \in Cases : Distance(dep, k) = f(k)
  BY DistanceForme
<1>2. Suivante(c) = s
  <2>1. CASE Camp \in {1, 2, 3}
    BY <2>1 DEF Suivante, SensRotation, Cases, NbCases
  <2>2. CASE Camp \in {4, 5, 6}
    BY <2>2 DEF Suivante, SensRotation, Cases, NbCases
  <2> QED BY <2>1, <2>2, CampAssumption
<1>3. s \in Cases
  BY CampAssumption DEF Cases, NbCases
<1>4. Distance(dep, c) = f(c) /\ Distance(dep, Suivante(c)) = f(s)
  BY <1>1, <1>2, <1>3
<1>5. /\ f(c) \in 0 .. NbCases - 1
      /\ f(c) = 0 <=> c = dep
      /\ \A k \in Cases : f(k) = f(c) => k = c
      /\ f(s) = IF f(c) = NbCases - 1 THEN 0 ELSE f(c) + 1
  BY CampAssumption DEF Cases, NbCases
<1> HIDE DEF f, s
<1> QED BY <1>1, <1>4, <1>5

\* A quotient and a remainder.
LEMMA Euclide ==
  ASSUME NEW m \in 1..11, NEW q \in Nat, NEW d \in 0 .. m - 1,
         NEW n \in Nat, n = m * q + d
  PROVE  n \div m = q /\ n % m = d
<1>1. CASE m = 1
  BY <1>1
<1>2. CASE m = 2
  BY <1>2
<1>3. CASE m = 3
  BY <1>3
<1>4. CASE m = 4
  BY <1>4
<1>5. CASE m = 5
  BY <1>5
<1>6. CASE m = 6
  BY <1>6
<1>7. CASE m = 7
  BY <1>7
<1>8. CASE m = 8
  BY <1>8
<1>9. CASE m = 9
  BY <1>9
<1>10. CASE m = 10
  BY <1>10
<1>11. CASE m = 11
  BY <1>11
<1> QED BY <1>1, <1>2, <1>3, <1>4, <1>5, <1>6, <1>7, <1>8, <1>9, <1>10, <1>11

\* q whole laps and d seeds more, d being a whole lap at most.
LEMMA TourComplet ==
  ASSUME NEW n \in Nat, NEW q \in Nat, NEW d \in 0 .. NbCases - 1,
         n = (NbCases - 1) * q + d
  PROVE  IF d = NbCases - 1
         THEN n \div (NbCases - 1) = q + 1 /\ n % (NbCases - 1) = 0
         ELSE n \div (NbCases - 1) = q /\ n % (NbCases - 1) = d
<1> DEFINE m == NbCases - 1
<1>1. m \in 1..11 /\ d \in 0..m
  BY CampAssumption DEF NbCases
<1>2. n = m * q + d
  OBVIOUS
<1> HIDE DEF m
<1>3. CASE d # m
  <2>1. d \in 0 .. m - 1
    BY <1>1, <1>3
  <2>2. n \div m = q /\ n % m = d
    BY <1>1, <1>2, <2>1, Euclide
  <2> QED BY <1>3, <2>2 DEF m
<1>4. CASE d = m
  <2>1. m * q + m = m * (q + 1) + 0
    BY <1>1
  <2>2. 0 \in 0 .. m - 1 /\ q + 1 \in Nat /\ n = m * (q + 1) + 0
    BY <1>1, <1>2, <1>4, <2>1
  <2>3. n \div m = q + 1 /\ n % m = 0
    BY <1>1, <2>2, Euclide
  <2> QED BY <1>4, <2>3 DEF m
<1> QED BY <1>3, <1>4

\* x is the board p after q whole laps and d seeds more.
SemeJusqua(p, x, dep, q, d) ==
  \A c \in Cases : x[c] =
    IF c = dep THEN 0 ELSE p[c] + q + (IF Distance(dep, c) <= d THEN 1 ELSE 0)

\* When the hand is empty the board is the one of the closed formula.
LEMMA EgrenerFini ==
  ASSUME NEW p \in [Cases -> Nat], NEW x \in [Cases -> Nat], NEW dep \in Cases,
         NEW q \in Nat, NEW d \in 0 .. NbCases - 1,
         p[dep] = (NbCases - 1) * q + d, SemeJusqua(p, x, dep, q, d)
  PROVE  x = Egrener(p, dep)
<1> USE DEF SemeJusqua
<1> DEFINE q0 == p[dep] \div (NbCases - 1)
           r0 == p[dep] % (NbCases - 1)
<1>1. \A c \in Cases : Egrener(p, dep)[c] =
        IF c = dep THEN 0 ELSE p[c] + q0 + (IF Distance(dep, c) <= r0 THEN 1 ELSE 0)
  BY EgrenerForme
<1>2. IF d = NbCases - 1 THEN q0 = q + 1 /\ r0 = 0 ELSE q0 = q /\ r0 = d
  <2>1. p[dep] \in Nat
    OBVIOUS
  <2> QED BY <2>1, TourComplet
<1>3. Egrener(p, dep) \in [Cases -> Nat]
  BY EgrenerType
<1> HIDE DEF q0, r0
<1>4. \A c \in Cases : x[c] = Egrener(p, dep)[c]
  <2> TAKE c \in Cases
  <2>1. Distance(dep, c) \in 0 .. NbCases - 1 /\ (Distance(dep, c) = 0 <=> c = dep)
    BY DistanceSuivante
  <2>2. NbCases \in Int /\ p[c] \in Nat
    BY CampAssumption DEF NbCases
  <2> QED BY <1>1, <1>2, <2>1, <2>2
<1> QED BY <1>3, <1>4

\* And the pit reached is the one of the last seed.
LEMMA ArriveeFinie ==
  ASSUME NEW p \in [Cases -> Nat], NEW dep \in Cases, NEW c \in Cases, NEW q \in Nat,
         p[dep] = (NbCases - 1) * q + Distance(dep, c),
         Distance(dep, c) = 0 => q = 0
  PROVE  CaseArrivee(p, dep) = c
<1> DEFINE d == Distance(dep, c)
           m == NbCases - 1
<1>1. d \in 0 .. NbCases - 1 /\ (d = 0 <=> c = dep)
  BY DistanceSuivante
<1>2. m \in 1..11 /\ NbCases = m + 1
  BY CampAssumption DEF NbCases
<1>3. CASE d = 0
  <2>1. p[dep] = 0
    BY <1>2, <1>3
  <2> QED BY <1>1, <1>3, <2>1 DEF CaseArrivee
<1>4. CASE d # 0
  <2>1. (dep - d) % NbCases = c
    <3>1. d = IF c <= dep THEN dep - c ELSE dep - c + NbCases
      BY DistanceForme
    <3> HIDE DEF d, m
    <3>2. CASE Camp \in {1, 2, 3}
      BY <3>1, <3>2 DEF Cases, NbCases
    <3>3. CASE Camp = 4
      BY <3>1, <3>3 DEF Cases, NbCases
    <3>4. CASE Camp = 5
      BY <3>1, <3>4 DEF Cases, NbCases
    <3>5. CASE Camp = 6
      BY <3>1, <3>5 DEF Cases, NbCases
    <3> QED BY <3>2, <3>3, <3>4, <3>5, CampAssumption
  <2>2. p[dep] = m * q + d /\ p[dep] \in Nat
    OBVIOUS
  <2> HIDE DEF d, m
  <2>3. m * q \in Nat
    BY <1>2
  <2>4. p[dep] - 1 \in Nat /\ p[dep] - 1 = m * q + (d - 1) /\ d - 1 \in 0 .. m - 1 /\ p[dep] # 0
    BY <1>1, <1>2, <1>4, <2>2, <2>3
  <2>5. (p[dep] - 1) % m = d - 1
    BY <1>2, <2>4, Euclide
  <2>6. CaseArrivee(p, dep) = (dep + SensRotation * (((p[dep] - 1) % m) + 1)) % NbCases
    BY <2>4 DEF CaseArrivee, m
  <2>7. dep + SensRotation * ((d - 1) + 1) = dep - d
    BY <1>1, <1>2 DEF SensRotation, Cases
  <2> QED BY <2>1, <2>5, <2>6, <2>7
<1> QED BY <1>3, <1>4

=============================================================================
