# A TLA+ development for Awale_Reseau

This directory holds TLA+ models of the awale client/server application of this
repository, the TLC configurations that check them, and theorems about them
checked by TLAPS. Definitions keep the names of the C source, and the comments
quote the French of the repository where a property comes from it.

## 1. The system and its parts

| Part | Source | State | Operations |
|---|---|---|---|
| Rules | `Jeu/src/awale.c` | none of its own: board, scores, direction passed in | `initPartie`, `jouerCoup`, `obligerNourrir`, `testFinPartie` and their helpers |
| Game thread | `game()`, `Serveur/src/serveur.c` 510-683 | board, scores, whose turn, turn number, the two sockets | ask to go on, ask for a move, play it, test the end, resign |
| Cleanup | `end_game()` 476-499 | index in `clients[]` | free the slot, tell observers, detach players |
| Select loop | `app()` 694-885 and its handlers | `clients[]`, `clientsInGame[]`, `observateurs[][]`, `threadsLibres[]`, `threads_partie[]`, `parties[]`, one mailbox and one semaphore per slot | connect, disconnect (in a game or not), relay to a game, challenge, accept, decline, list games, observe, stop observing |
| Sockets | `socket_serveur.c`, `socket_client.c` | file descriptors | `recv`, `send`, broadcast, removal from `clients[]` |
| Client | `Client/src/client.c` | list of players, six semaphores, one buffer per thread | threads menu, listening, game, observer |
| Texts | `partie.c`, `plateau.c`, `joueur.c` | none | printing and parsing of games, boards and players |

How they interact:

* A client sends text to the server; the **select loop** reads one message of one
  client per turn. A client that is in a game has its message copied, whatever it
  is, to the **mailbox** of its slot, and the semaphore of the slot is posted.
* The **game thread** of the slot writes to the two sockets itself, waits on the
  semaphore and takes the mailbox if it carries the socket of the player to move.
* The select loop and up to `NB_PARTIES` game threads share all the arrays
  **without a lock**. `end_game` walks `clients[]` by index, with a pause
  between two indices, while the select loop may remove a client and renumber
  everything.
* The departure of a player in a game **cancels** the game thread
  (`pthread_cancel`, deferred) and joins it; `end_game` is also the cleanup
  handler of that thread.

What makes each part correct:

* *Rules*: no seed is lost; captures only in the adverse camp and on the board;
  the loops end; the famine and grand-slam rules do what the comments say.
* *Game thread*: a winning score ends the game, and nobody is named against the
  score; players alternate.
* *Server*: a slot serves one game at a time; a freed place carries nothing over to
  the next client; the main thread always comes back from `pthread_join`; a player
  is in one game; a departure ends its own game; a client is never routed to a
  thread that is over.
* *Client*: a message reaches the thread it is for, in order and once; the list
  of players follows the server's.

Hard behaviours: cancellation at any blocking point of a game thread, twice or
inside `end_game`; a slot reused while the previous game still cleans up;
challenges that cross; departures at any time; stale listings; the one-place
mailbox. `PROJECT.json` lists these hazards at their lines.

## 2. Modules

| Module | Models | Runs |
|---|---|---|
| `Awale` | the rules as operators on a board; assumptions on the sizes | (through the next two) |
| `AwalePartie` | one game, one step per turn: the **abstract** specification | `partie`, `nourrir` |
| `AwaleCoup` | the same game with one step per iteration of the loops of `jouerCoup`; **implements** `AwalePartie` | `coup`, `hors_plateau` |
| `Serveur` | select loop, handlers, game threads, `end_game`, and what client programs may send | |
| `MCServeur` | `Serveur` with three named clients and their symmetry | `serveur_parties`, `serveur_observateurs`, `une_seule_partie`, `jeu_vivant`, `annulation` |
| `Annuaire` | connection, and the list of players: `clients[]` on the server, `joueurs[]` in every client, the broadcasts between them | |
| `MCAnnuaire` | `Annuaire` with the names three programs may take | `annuaire`, `annuaire_joints` |
| `Canal` | what `semGame` and `semOKGame` promise: a one-place channel, **abstract** | (through the next) |
| `Client` | the threads of one client program, its semaphores and shared buffers; **implements** `Canal` | `client` |

The proofs are in modules of their own, which `tlapm` checks:

| Module | Theorems about |
|---|---|
| `Awale_proofs` | the operators of `Awale`: sums of seeds, the closed formula of the sowing, captures |
| `AwalePartie_proofs` | `AwalePartie` |
| `AwaleCoup_proofs` | the loops of `AwaleCoup`, and that `AwaleCoup` implements `AwalePartie` |
| `Serveur_proofs` | the tables, the slots and the threads of `Serveur` |
| `ServeurDialogue_proofs` | the answers of a game in `Serveur` |
| `Annuaire_proofs` | connections, registrations and stops in `Annuaire` |
| `Client_proofs` | the buffer of the game in `Client`, which implements `Canal`; its threads and who has the dialogue |

### Awale, AwalePartie, AwaleCoup

A pit is an index of `Cases`, the board a function. `Camp`, `Grains` and `Seuil`
are the literals 6, 4 and 25 of the code; the direction is the -1 that
`initPartie` stores (its comment says random: the draw is commented out).
`Egrener`, `CaseArrivee` and `CasesPrises` give the result of the two loops of
`jouerCoup` in closed form, `AwaleCoup` runs the loops. The refinement mapping
of `AwaleCoup` hides the moves in progress: board and score are those from before
the move until `Tester`, the score being recomputed from what the board lost.

`ChoixAcceptes` is what the *client* lets its user type, and includes the famine
path through three pieces of code: `obligerNourrir` lists pits, `game()`
sends index + 1, the client accepts that number + 1. So the choice 7 (`Camp + 1`)
is possible, `jouerCoup` refuses it and the turn passes (`Passer`, `Refuser`).
`choix` is kept from turn to turn as the local of `game()` is: when what comes is no
`PARTIE/coup` ("pas de coup reçu", serveur.c:624-630, is only printed) `Recevoir`
keeps it, and the choice of the turn before, the other player's, is played; at the
first turn it is 0, which `jouerCoup` refuses.

When joueur 1 captures pit `NB_CASES - 1` the capture loop reads `plateau[12]`.
That is undefined: the models let the loop stop there or the server crash
(`Planter`, `LireHorsPlateau`). With gcc, `prises` follows `plateau` on the
stack at every optimisation level tried, `plateau[12]` is `prises[0]`, holding
the 2 or 3 just captured, and a small program calling `jouerCoup` with this
layout dies on a segmentation fault.

### Serveur

The arrays of the server are variables with their C names, indexed from 1. A game
thread is an instance of `Threads`, so that an old thread in `end_game` and a new
one in the same slot coexist. `thread[t].pc`:

| `pc` | where `game()` stands |
|---|---|
| `tour` | top of the loop |
| `attenteFin`, `attenteCoup` | in `read_game` |
| `resultat` | pause after `PARTIE/res_coup` |
| `terminer` | between the two `PARTIE/terminer` (666-667) |
| `finir` | pause after `PARTIE/abandon` |
| `nettoyage` | in `end_game`, at the test of index `i` |
| `effacer` | in the send of "OBS/terminer" to index `i` (484), which it clears next |
| `detacher` | about to set the state of index `i` and clear its game (487-489) |
| `pause` | in the broadcast of that state and the `usleep` after it |
| `neuf`, `mort` | not created, over |

*Grain.* The threads switch where they block or call `send`, `usleep`, `sem_wait`,
`pthread_cancel` or `pthread_join` and, around `clients[]`, `clientsInGame[]` and
`observateurs[][]`, between two updates as well. So the handlers of the select loop
are cut, and `principal.pc` says where the main thread is in one of them:

| `principal.pc` | where the main thread stands |
|---|---|
| `select` | in `select` |
| `annuler`, `join` | a player has left: before `pthread_cancel`, then in `pthread_join` |
| `jeux`, `vues` | `clients[]` is shifted; `clientsInGame[]`, then the rows of `observateurs`, are not yet (158, 161, 165-168) |
| `demarrer` | an accept has been relayed; `start_game` is next |
| `plante` | the server is gone |

An iteration of the loop of `end_game` is up to four steps, so it may send at one
index and clear whoever has been moved there since, or clear an entry of
`clientsInGame[]` that belongs to another client because `clients[]` alone is
shifted. One `memmove` is one step. The broadcasts, which are many sends, are in
`Annuaire`.

*Cancellation* is deferred: `annule` is set, and the thread goes on to its next
cancellation point. In the game that point is where it stands, and `Annulation`
runs `end_game`, which can then not be cancelled again (`annulable`); in an
`end_game` reached by the normal path the handler has been popped and the thread
just stops, at the send to an observer or in the broadcast and the pause that
follow the change of a player (`PointAnnulation`), having detached some players
and not others.

*Messages* are records in one queue per client and direction. Only what decides
something is kept: `PARTIE/plateau`, `not_turn`, `res_coup`, `num_joueur`,
`OBS/turn` and the broadcasts of player states are left out. A challenge may go to
any client whose state is 0 when it is sent; since messages wait arbitrarily long
in `entree`, the server handles it against any later state, which covers the age
of the list that the challenger was shown.

*Client programs* are the environment: one dialogue at a time, no message handled
while the user is being asked. A program that accepts a challenge while it watches
a game goes on watching, as its observer thread does; of its two dialogues only
the game is shown.

### Annuaire

`Serveur` looks at games; `Annuaire` looks at who is connected and who knows it.
It composes the server (`clients[]`, the listen queue of the kernel, game threads
reduced to their beginning and to the broadcasts of `end_game`) with the
connection and the list of every client program. The two directions of each
connection are queues (`entree`, `sortie`).

Every handler is in its steps, one `send` per action, and the game threads act
between them; `principal` holds what the handler remembers:

| `principal.pc` | where the main thread stands |
|---|---|
| `profil` | `connect_client` in the blocking `recv` of the profile |
| `nouveau` | registered (119-120), broadcasting `new_joueur`, then the ACK (131-135) |
| `liste` | the list is written down, about to be sent |
| `change`, `compose`, `annonce` | a challenge or its answer was relayed: the state of a player is set, written into a message, broadcast; once for the player named, once for the sender (261-267, 802-806) |
| `join`, `depart`, `ferme`, `jeux` | a departure: the game thread is joined, `delete_joueur` broadcast, the socket closed, `clients[]` shifted and `clientsInGame[]` next |

`Accepter` leads to `profil`, then `ProfilAbsent` (the peer is gone: null pointer),
`RefuserPseudo` or `Enregistrer`. The client goes through `Lancer`, `EnvoyerProfil`, `LireACK`, `LireListe`. After that
`Ecouter` is the chain of `strstr` of `listen_info_serveur`: `Lots(c)` is what one
`recv` may return (a message or several), `Reconnait` the keyword that wins, and
`PremierJoueur` the player after the first ":" of the whole buffer.

`update_etat_joueur` called by a game thread goes up to the copy of `nbClients` it
was given (`EnvoyerMaj`), over an array that the main thread may shift in between;
past `nbClients` the array keeps what `memmove` left there. A thread that was
cancelled in `end_game` stops at its next send or pause (`Mourir`), and the others are
not told. That a thread sets a state and writes the message about it is one step
(`LibererJoueur`): there is no system call in between.

`historique` is not state of the program. It names the cases that `VueMembres`
and `VueEtats` leave out: `troubles` (the client read several messages at once, or
something else than its ACK or its list where it expected one), `croises` (the state
was announced by one thread while another one changed it, or while a client was
removed, or the announcement was cut short by a cancellation), `ecrits` (the client
set the state itself when it sent a challenge). A name that is being announced or
changed is left out too until that is over (`Annonces`, `Chantier`). What is excused
is a name, not a program (`NomsCroises`). A message of `update_etat_joueur` carries a
pseudo: a game thread is still announcing that a player is free when the player
leaves; another program connects with its name and is challenged; the announcement
then reaches the challenger and seems to be about the new player. It takes a second
challenge after the return, and a bound on the messages that wait (`Charge`) keeps
it out of the run `annuaire`; with an exception for the program instead of its name,
the instance `Choix <- <<{bob}, {alice}, {alice}>>`, `Demandeurs = {1}`,
`Partants = {2}`, two challenges, one departure shows it.

`MortApresDepart` says when the server can stop at all (`plante`: the profile of a
program that is gone, an accept whose challenger is gone, a `send` on a socket the
server has closed). Its premise, `PersonneParti`, is that no program has left, and
that no registered program has stopped because something came before or joined to its
ACK. That second half is needed: while the newcomer is announced (serveur.c:131) and
before its ACK (135), the `end_game` of another game may send it the state of a
player. It then exits (client.c:908) and, once it is removed, a broadcast that was
under way may write to its closed socket, which stops the server. **A connection that
overlaps the end of a game can stop the server although no user has left.**

### Canal and Client

One client program, thread by thread, against a server that sends whatever it may
send to one client. `ecoute`, `menus`, `jeux` and `observeurs` are the four
functions given to `pthread_create`; each thread created is an instance, and
`fils` the `pthread_t` variables, which name only the last one. `sem` holds the
six semaphores. An action ends where a thread blocks, is asked something of the
user, or can be cancelled.

| Part of `Client` | Code |
|---|---|
| `RecevoirDefi`, `AccepterDefi`, `RefuserDefi`, `RecevoirAccord`, `RecevoirRefus` | the `DEFI/` branches of `listen_info_serveur` |
| `RecevoirPartie`, `PrendrePlace`, `DeposerMessage` | the `PARTIE` branch: `sem_wait(semOKGame)`, copy, `sem_post(semGame)` |
| `PrendreMessage` ... `FinirJeu` | the loop of `jeu()` |
| `ChoisirPartie` ... `CreerObserveur`, `Mourir` | `menu()` and its cancellation |
| `Rejoindre`, `LireClavier`, `SuivrePartie`, `CesserObservation` | `observeur()` |
| `Quitter`, `ArreterEcoute`, `Terminer`, `ServeurDeconnecte` | the ways the program ends |

`serveur.jeux` says for each game what the server may send next: nothing more than
one question at a time, an end, and possibly a second end (`PARTIE/abandon` when
the opponent leaves while `end_game` runs). `clos` is a game that never starts
(no free slot) or is over.

Several hazards of this code are real and break the properties that matter;
rather than forbid them, the model lets them happen, `historique.accidents`
records that they did, and each property names the ones it needs absent:

| Accident | What happened |
|---|---|
| `sansMenu` | a challenge or an accept came while there was no menu to cancel (client.c:459) |
| `orphelin` | a menu was stopped while it waited for the answer to its challenge (client.c:141) |
| `verrouPerdu` | a menu was cancelled while it held the lock of the list (client.c:104) |
| `messageEcrase` | a line was typed over an `OBS` message not yet read (client.c:288) |
| `abandonTardif` | an end was sent to a game that was over or had been given up (client.c:588) |

`JetonPartie` and `CanalRespecte` except none: they hold through all of these.

## 3. What is checked

Passing runs (TLC; with two workers each finishes in about three minutes or less):

| Run | Instance | Distinct states | Properties besides `TypeInvariant` |
|---|---|---|---|
| `partie` | 6 pits, 2 seeds, 7 to win | 295 675 | `Conservation`, `FinJuste`, `PrisesAdverses` |
| `coup` | 4 pits, 4 seeds, 9 to win | 155 450 | `Conservation`, `BornePrises`, `CampIntact`, `Raffinement` (implements `AwalePartie`), `CoupTermine` |
| `serveur_parties` | 3 clients, 2 slots, games of 1 move, 2 challenges and 1 departure or 1 challenge and 2 departures (`DefisOuDeparts`), nobody comes back (`SansRetour`) | 1 134 921 | `UnePartieParSlot`, `PlacesLibresVierges`, `JoinReveille` |
| `serveur_observateurs` | 3 clients that arrive in order (`ArriveesOrdonnees`), a game of 3 moves, 1 challenge, 1 listing, 1 departure, no symmetry | 756 590 | `PlacesLibresVierges`, `DialogueIntact`, `JoinTermine` |
| `annuaire` | 3 programs, the third may take the name of the first, 2 challenges, 1 departure, no joined messages (`Charge`) | 325 463 | `VueMembres`, `VueEtats`, `MortApresDepart`, `ConnexionAboutit` |
| `client` | 2 episodes, 2 free messages | 377 350 | `JetonPartie`, `UnSeulMaitre`, `UnDefi`, `DepotAttendu`, `CanalRespecte`, `EcouteAvance`, `QuitterTermine`, `ObservationTermine` |

What the less obvious ones say. `FinJuste` says what testFinPartie decides: the score
alone, in every game reached. awale.c:113-120 announces another end, when a player
has no seeds and the other cannot feed it; that branch (awale.c:134) asks for two
conditions that exclude each other, and the theorem `TestSansFamine` says so for
every board. `JoinReveille` is the safety fact behind
`JoinTermine`: the thread that the main thread joins is over, cleaning up or
cancelled, never one that waits for a mailbox only the main thread fills.
`DialogueIntact`: what waits in the mailbox of a game is the answer to the
question asked last, for players that do nothing else; its comment lists what
breaks it otherwise, among them the resignation that is overwritten by the next
request of its author (serveur.c:785). `VueMembres` and `VueEtats`: the list of
every client, with the messages on their way to it, is the list of the server; the
second one leaves out what the section on `Annuaire` says.
`ConnexionAboutit`: whoever connects is answered. `UnSeulMaitre`: one thread at a
time talks to the user. `DepotAttendu`: the listening thread never waits for a
buffer that nobody is going to free.

Bounds. Boards of 6 and 4 pits: with 4 pits and 4 seeds every first move goes
more than once around the board, which 12 pits need 12 seeds in a pit for; with
6 pits, famines, captures of a run of pits and of a whole camp, and the end of
the array all occur. `IterMax = 3` is exact: `game()` distinguishes the turns 1, 2
and later. In `Serveur` two slots are enough for a slot to be reused while
another is busy, and three clients for a departure to renumber somebody who is not
concerned; with two slots and two games there is always a free slot for the
second. Three moves reach the question of resignation, which comes from the
third turn on. `serveur_observateurs` has a liveness property and therefore no
symmetry: instead, since nothing tells programs apart before one leaves, they arrive
in order. With two departures a program that comes back is left to that run, which
has one departure (`SansRetour`). `DefisOuDeparts` keeps that run short: without
it, two games together with two departures, there are 2 211 996 states and the same
properties hold. There are as many threads as challenges, so that an
accept never lacks one. In `Annuaire` three programs are the least with which
somebody connects or leaves while two others play and a third learns of it, or
connects while the game of two others ends; messages are joined in `annuaire_joints`
only (`MaxJonctions`). `Charge` keeps to states with two messages waiting for a
program at most, and with two challenges only as long as the third program is out;
TLC checks the states at that border and does not look behind them. In `Client` two episodes are two games
that overlap, a challenge received while one sent waits, or an observation and a
game. `NbThreads`, `MaxDefis`, `MaxListes`, `MaxDeparts`, `MaxCoups`,
`MaxDemandes`, `MaxEpisodes` and `MaxMessages` only bound how often users and the
network act; `Demandeurs` and `Partants` which programs do. Deadlock is not
checked: games end, users may do nothing, and a finished bound leaves nothing to
do.

Fairness. Users never have any.
`AwaleCoup`: weak fairness of the steps of a move, which is straight-line code of
a runnable thread. `Serveur`: weak fairness of each game thread, which the kernel
schedules when it can run, and of the return of `pthread_join`; none of the select
loop. `Annuaire`: weak fairness of the server and of the connecting programs taken
together, every one of which has a bounded number of steps to make for one
connection. `Client`: weak fairness of the deposit of a message, of a cancelled
thread reaching its cancellation point, of the menu that prints the list, and of
the observer; strong fairness of the lock of the list, since a thread blocked in
`sem_wait` on a semaphore that becomes free again and again gets it. A menu that
waits for its user does not hold that lock.

Runs that TLC finds **violated**, each a statement of the repository (details and
quotations under `findings`):

| Run | Statement | What happens |
|---|---|---|
| `nourrir` | client.c:721: play one of these moves *to feed* the adversary | the list is inverted and renumbered twice |
| `hors_plateau` | awale.c:192: `prises` lists captures of the move | the loop goes past the board |
| `une_seule_partie` | README.md:25: only a player *not in a game* is challenged | nobody checks; crossed challenges start two games |
| `jeu_vivant` | serveur.c:58: `clientsInGame` names the thread of a game *being played* | a removal while `end_game` walks `clients[]` moves a player below its index: it stays routed to a thread that is over |
| `annulation` | README.md:26: a departure ends *its* game | a slot freed early is reused, the wrong thread is cancelled |
| `annuaire_joints` | README.md:18: what waited while the user answered is handled afterwards, which "ne gêne en rien le bon fonctionnement" | one `recv` returns the state of a player and the arrival of another one, one of the two is handled, and the new player is never in the list |

Every property of a passing run has a mutant, an operator whose comment says so
beside the definition it would replace (a loop one short, an array not shifted, a
call dropped), under which TLC finds the property violated.

## 4. What is proved

Each theorem holds for every value of the constants its module's assumptions
allow. An invariant that a run checks is seldom inductive; the paragraphs below
say what had to be added to it, and why. The inductive invariants were checked by
TLC on the instances of the runs before they were proved.

### The rules and one game

Assumptions: those of `Awale` (1 to 6 pits per camp, any number of seeds, a winning
score above half of them).

`Awale_proofs` holds the facts about the operators. `Graines` is written as a sum of
twelve terms, of which pits beyond a smaller board count 0, so that what a write
does to the sum (`GrainesMaj`) is arithmetic and not induction. `EgrenerConserve`:
the closed formula of the sowing keeps the number of seeds, whatever the pit and the
number of laps. `JamaisAnnule`: with the direction -1 that `initPartie` stores, the
cancellation of captures (awale.c:257) never applies, although awale.c:220 says that
a move which empties the adverse camp takes nothing.

`AwaleCoup_proofs`: `TypeCorrect`, `InvariantInductif`, and the properties of the run
`coup` (`GrainesConservees`, `PrisesBornees`, `CampDuJoueurIntact`). `BornePrises`
alone is not inductive: nothing in it says how many captures can still come.
`ParcoursPrises` adds that the pits captured are those between the first pit of the
adverse camp and the one the loop is at, so their number is a distance inside one
camp; the loop condition (not in the mover's camp) then bounds the next step.
`CampIntact` is inductive with it because the loop writes only where it stands.

`AwalePartie_proofs`: `TypePartie`, `ConservationPartie`, `FinPartie`, `PrisesPartie`.
`FinPartie` (`FinJuste`) rests on a theorem of its own, `TestSansFamine`: the famine
test of `testFinPartie` never ends a game, on any board, because the two conditions
that it joins (a player has no seeds, and its adversary is not obliged to feed it)
exclude each other as `obligerNourrir` is written. awale.c:113-120 says otherwise.

`AwaleCoup_proofs` also has `BouclesExactes` and `BouclesConformes`
(`Spec => Raffinement`). The abstract move is a closed formula and the code two
loops, so the invariant `RInv` says what the array holds between two iterations.
`EgrenageEnCours`: the board is the one before the move plus whole laps and the pits
from the one played to `case_parcourue`, and the seeds still in hand are the rest.
`PrisesEnCours`: the captured pits are the run from the arrival to the pit before
`case_parcourue`, empty, the others as the sowing left them. `CoupFini`: the same
when the loop is over. The score that the mapping shows is obtained from
`Conservation`. Every step then maps to a step of `AwalePartie` or to a stutter:
`LireHorsPlateau` to `Planter`, `Tester` to `Jouer` or `Passer`, the iterations to
nothing.

### The server

`Serveur_proofs`, for any number of clients, slots, threads, challenges and
departures: `TypeServeur`, `SlotsServeur` (`UnePartieParSlot`), `PlacesServeur`
(`PlacesLibresVierges`) and `JoinServeur` (`JoinReveille`). `clients[]` has one place
for each program in them; `MAX_CLIENTS`, which the code does not check, is not
modelled. That a departure moves all that a client has and nothing of the others is
not a theorem: between the three shifts `end_game` may clear another client's entry
(hazards at serveur.c:158 and 482, run `jeu_vivant`).

`InvariantServeur` is their conjunction with what follows, each part being needed by
a step of another one:

* `SocketsDistincts`: two places below `nbClients` have different sockets. Without
  it a removal could shift the game of one entry onto another.
* `Routage` and `SlotsEnRoute`: a client routed to a slot is routed to a thread that
  was created there, and that thread, while it is in its game, still has that slot.
* `ThreadsEnRoute`: a thread in its game or in `end_game` has a slot, and one in its
  game finds the game in `parties[]`. A slot freed early is handed to the next game
  while the previous thread is still cleaning up, which is why the second half is
  not said of that one.
* `AnnulableHorsNettoyage`: only a thread in `end_game`, run as a cleanup handler,
  cannot be cancelled. It is what makes `JoinReveille` true of a second departure.
* `PrincipalPlace`: the place that the main thread remembers between the steps of a
  handler is still in use, or just freed, and the thread is one that was created.

`ServeurDialogue_proofs`, for any number of clients, slots, threads, moves and
listings: `DialogueServeur` (`DialogueIntact`). The property is about runs with at
most one challenge ever and no departure (`Tranquille`), and about the time while both
players are in the dialogue; with two challenges, or a client that leaves, the code
does break it (section 3), and the theorem says nothing of the mailbox then. Its invariant `DInv`
(`InvariantDialogueServeur`) has two parts that hold in every run, and one for the
tranquil ones:

* `TypesDialogue`, `TypeBoites`: the messages in the queues and in `messagesParties[]`
  and the state of the client programs. `InvariantServeur` does not have them: it
  says nothing of contents.
* `Presents`: nobody has left, no thread is cancelled, the main thread does not join.
* `Stade`: the dialogue is at one of these stages, and never goes back.
  * `Attente(a, b, etape)`: no game was ever created, so every listing is empty
    (`AvantJeu`), and the one challenge is not sent (`aucun`), on its way to the server
    (`envoye`), on its way to `b` (`transmis`), on its screen (`sollicite`), or its
    accept is on its way (`accepte`). At most one thread can be created from there.
  * `Demarre(a, b)`: the accept is relayed, and `start_game` is next (`demarrer`).
  * `Jeu(t)`: the one game, and where its question is (`Echange`): on its way to the
    mover (`Pose`), on its screen (`Affiche`), answered (`Repondu`) or in the mailbox
    with the token (`Depose`). In each, the other three places are empty, and nothing
    is asked of, or under way from, the opponent (`Rien`): hence one token at most,
    and the right answer.
  * `Clos`: the challenge was refused or lost, the game is over, or a player has left
    the dialogue for good while the thread of the game still runs, so that the
    premise of `DialogueIntact` is false from then on.

Most actions add messages that the stage does not look at, to queues that only lose
their head otherwise. `Glisse` says that, once for all (`GlisseVierge`,
`ApresPas`, `AvantJeuPas`); lemmas by stage and by actor deal with the rest, and
`AttentePas`, `JeuPartiePas` and `ClosPas` assemble them.

### The client

`Client_proofs`, for every number of episodes and messages, hence for any number of
games that overlap: `InvariantClient`, `JetonExclusif` (`JetonPartie`), and
`CanalImplemente`, that `Client` implements `Canal`: no message of a game is lost,
read twice or overwritten before its reader is done.

`JetonPartie` counts tokens; a step that takes one needs to know where the one
token was, and a step of the refinement which message it carries. `IInv` therefore
says that the buffer is in one of four states, `Libre`, `Copie`, `Plein`, `Lu`,
each with the values of both semaphores, of the threads around them, and the
relation between the messages written and read; `Suivant`, that the message that
the listening thread holds is the next one; `JeuxFuturs`, that a game thread to
be created is not running yet. The four actions on the semaphores turn the buffer
from one state into the next (and map to `Ecrire`, `Lire`, `Rendre` or a stutter);
lemma `NeutrePas` deals with the many actions that touch none of it, and the end
of the program maps to `Fermer`.

The same module has `TypeClient`, `UnMaitre` (`UnSeulMaitre`), `DefiUnique`
(`UnDefi`) and `DepotSansBlocage` (`DepotAttendu`). `InvariantDialogue` proves
`IInv` and `DInv` together. `DInv` has one part per resource that threads hand to
each other:

* `Budget` and `Futurs`: each episode gives at most one game or one observer, and one
  menu; the threads already created, those alive and what the requests under way may
  still become add up to no more than the episodes. The type invariant needs it: a
  thread that is created is the next instance, and there must be one.
* `Verrou`: at most one menu is between the `sem_wait` and the `sem_post` of the lock
  of the list, and then the lock is taken.
* `Reponses`: challenges without an answer plus answers not yet read are as many as
  the menus that wait for one, unless a menu was stopped while it waited
  (`orphelin`).
* `Dialogue`: a thread that has the user is the last menu, the last game, the last
  observer or the listening thread, and one of them only, unless `sansMenu`. A menu
  that was cancelled and has not reached its cancellation point does not count, which
  is why the numbers of the instances are needed.
* `Courant`: for the game that is played, what the server may still send, where the
  game thread stands, the message that waits and the one in the buffer go together,
  unless `sansMenu` or `abandonTardif`. `DepotAttendu` follows: while a message waits
  for the buffer, the thread of its game is alive and has not read the end.

### Connections

`Annuaire_proofs`, for any number of programs, names, games, challenges, departures
and joined messages (the assumptions are those of `AnnuaireAssumption`):
`InvariantAnnuaire`, `TypeAnnuaire`, `MortAnnuaire` (`MortApresDepart`) and
`InscritUneFois`. The theorems are about `Annuaire` as it is, with the game threads
between any two sends of a handler. The parts of the invariant and what needs them:

* `Types`: also of every message under way, since what a client reads becomes its
  list. Typing the list of a client that took several messages for its list needs
  the range of `FlattenSeq`; `FlattenSeqType` proves it with the least number of
  messages for which it would fail (`PlusPetit`). `clients[]` has one place for each
  program, so nothing is said of `MAX_CLIENTS`.
* `Poste`: what the main thread remembers from one step of a handler to the next
  (places, sockets, the message that it is broadcasting) is still right, because no
  game thread moves a player.
* `SocketsDistincts`, `FileDistincte`: no program has two places, nor waits in two
  ways to have one. There are as many places as programs, so one that waits finds one
  free (`PlaceLibre`).
* `Connexion`: where a connection stands, said of both sides. A program that the
  server does not know yet has been sent nothing.
* `AccuseSeul`: at most one answer to a profile is on its way, and the program that it
  is for has not read one; a refused program has no place. It is not said that the
  answer comes first: the state of a player may overtake it (serveur.c:131-135).
* `FinAnnoncee`: the server reads an end only from a program that has ended, and is
  removing no other.
* `PersonneParti => Calme`: as long as nobody has left and no registered program has
  stopped on what came with its ACK, the programs that have ended are the refused ones,
  no departure is being handled, challengers and those who accept are in the server's
  list, and no broadcast is longer than that list. `MortApresDepart` is not inductive
  without it: an accept whose challenger has disappeared, or a broadcast over a
  shortened array, is how the server could stop otherwise.

The proof has three layers: general lemmas on what server steps have in common
(`ServeurPas`, `SansInscriptionPas`, `PrincipalPas`, `RetourPas`: queues are only
extended, `Etend`), game threads (`ThreadPas`) and clients (`ClientPas`,
`ReceptionPas`, `EcoutePas`, `EcriturePas`); one lemma per action of `Next`, named
after it; and `NextIInv`, which assembles them.

### Left to TLC

Liveness (`CoupTermine`, `JoinTermine`, `ConnexionAboutit`, `EcouteAvance`,
`QuitterTermine`, `ObservationTermine`): TLAPS proves no property under fairness.
The lists of players (`VueMembres`, `VueEtats`) are only model-checked. Every other
invariant and every action property that a passing run checks is proved. The statements that are violated have counterexamples and no proof.

## 5. Not modelled

* *Writes to a dead peer.* After a peer has reset the connection, `send` kills the
  server (SIGPIPE or the `exit` of `write_client`). The models drop the message
  instead. A crash only truncates a behaviour, so no invariant or action property
  is affected; `JoinTermine` and `ConnexionAboutit` are about a server that
  survives. A write to a socket that the server itself has closed is modelled
  (`EnvoyerMaj`).
* *Reuse of identifiers.* The descriptor of a client that left is only reused by
  the same client when it comes back, never by another one; a `pthread_t` is not
  reused, cancelling or joining a thread already joined does nothing.
* *Pointers of `parties[]`.* A slot keeps the pseudos of its last players as
  pointers; once they have left the memory is freed and a listing may compare
  anything. The model compares the players.
* *Cut messages.* `recv` may also cut a message in two; the models deliver whole
  ones, joined in `Annuaire` only. Texts longer than `BUF_SIZE`, more than 1000
  moves, more than `MAX_CLIENTS` clients and running out of descriptors are out
  of range.
* *Crossing of the modules.* The dialogues of a client are in `Client`, with a
  server of which it sees one connection; the lists are in `Annuaire`, games in
  `Serveur`, whose client programs follow one dialogue at a time. No module has
  all three.
* *In `Client`*: `bufferMenu` and the text of the dialogue (the famine loop that
  accepts nothing is in `AwalePartie`), and `O_NONBLOCK`, which the observer sets
  on the keyboard.
* Drawing, wording, logs, `viderBufferScanf`, stopping the server by the keyboard.

## 6. Plan

Done: the rules and one game (`Awale`, `AwalePartie`, `AwaleCoup`), the server with
threads, cancellation and departures (`Serveur`), the connection and the lists
(`Annuaire`), the threads of the client (`Canal`, `Client`), and the proofs of
section 4. Left, in order of importance:

1. The proofs of `VueMembres` and `VueEtats`, on top of `InvariantAnnuaire`.
2. `Defi`: an abstract specification of challenge, game and end, which `Serveur`
   implements as long as no challenge crosses another and nobody leaves; two of
   the violated runs then show how each premise is needed.
3. `NB_COUPS_MAX` as a bounded counter in `AwalePartie`; a run of `Serveur` with
   fewer slots than games.
