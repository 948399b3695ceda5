------------------------------ MODULE SpaceWars ------------------------------
(***************************************************************************)
(* The game games/spaceWars.c.  A step is one frame, a pass of the loop of *)
(* main: a key is read, bullets rise, enemies fall or appear, and what is  *)
(* then in one cell is gone.  What is drawn is left out.                   *)
(***************************************************************************)
EXTENDS Integers, FiniteSets

CONSTANTS
  WIDTH,        \* of the field
  HEIGHT,
  MAX_BULLETS,
  MAX_ENEMIES,
  MaxKills      \* bound: hits after which a game is not followed any further

ASSUME FieldSizeAssumption ==
  /\ WIDTH \in Nat \ {0} /\ HEIGHT \in Nat /\ HEIGHT >= 3
  /\ MAX_BULLETS \in Nat /\ MAX_ENEMIES \in Nat /\ MaxKills \in Nat

Columns     == 0..WIDTH - 1
Field       == Columns \X (0..HEIGHT - 1)
BulletSlots == 1..MAX_BULLETS
EnemySlots  == 1..MAX_ENEMIES

\* In place of the cell of a bullet or an enemy that is not active.
Off == <<-1, -1>>

\* In place of a column: no enemy appears.
None == -1

VARIABLES
  playerX,
  bullets,   \* the cell of each
  enemies,
  kills,     \* score
  gameOver

WarVars == <<playerX, bullets, enemies, kills, gameOver>>

WarInit ==
  /\ playerX = WIDTH \div 2
  /\ bullets = [i \in BulletSlots |-> Off]
  /\ enemies = [j \in EnemySlots |-> Off]
  /\ kills = 0 /\ gameOver = FALSE

-----------------------------------------------------------------------------
(* The parts of a frame.                                                   *)

Steered(key) ==
  IF key = "a" /\ playerX > 0 THEN playerX - 1
  ELSE IF key = "d" /\ playerX < WIDTH - 1 THEN playerX + 1
  ELSE playerX

\* Mutant: fired from the row of the player.
MuzzleAtPlayer == <<playerX, HEIGHT - 1>>

Muzzle == <<playerX, HEIGHT - 2>>

\* shoot takes the first slot that is free.
Shot(key) ==
  [i \in BulletSlots |->
     IF key = " " /\ bullets[i] = Off /\ \A k \in 1..i - 1 : bullets[k] # Off
     THEN Muzzle ELSE bullets[i]]

\* updateBullets, of one bullet
Risen(cell) == IF cell = Off \/ cell[2] = 0 THEN Off ELSE <<cell[1], cell[2] - 1>>

\* updateEnemies, of one enemy; `spawn' is the column rand() gives a free slot.
Fallen(cell, spawn) ==
  IF cell = Off THEN (IF spawn = None THEN Off ELSE <<spawn, 0>>)
  ELSE IF cell[2] + 1 >= HEIGHT THEN Off ELSE <<cell[1], cell[2] + 1>>

\* Mutant: the row below the field.
RamsBelow(cell, x) == cell # Off /\ cell[2] + 1 = HEIGHT /\ cell[1] = x

\* An enemy comes down on the player at column x.
Rams(cell, x) == cell # Off /\ cell[2] + 1 = HEIGHT - 1 /\ cell[1] = x

Together(b, e) == b # Off /\ b = e

\* checkCollisions takes every enemy that is in one cell with a bullet, ...
EnemiesLeft(bs, es) ==
  [j \in EnemySlots |-> IF \E i \in BulletSlots : Together(bs[i], es[j]) THEN Off ELSE es[j]]

\* ... and a bullet with it, unless an earlier one has taken them all.
BulletsLeft(bs, es) ==
  [i \in BulletSlots |->
     IF \E j \in EnemySlots :
          Together(bs[i], es[j]) /\ \A k \in 1..i - 1 : ~Together(bs[k], es[j])
     THEN Off ELSE bs[i]]

Frame(key, spawn) ==
  /\ ~gameOver /\ kills < MaxKills
  /\ LET x  == Steered(key)
         bs == [i \in BulletSlots |-> Risen(Shot(key)[i])]
         es == [j \in EnemySlots |-> Fallen(enemies[j], spawn[j])]
     IN  /\ playerX' = x
         /\ bullets' = BulletsLeft(bs, es)
         /\ enemies' = EnemiesLeft(bs, es)
         /\ kills' = kills + Cardinality({j \in EnemySlots : EnemiesLeft(bs, es)[j] # es[j]})
         /\ gameOver' = (key = "Esc" \/ \E j \in EnemySlots : Rams(enemies[j], x))

\* The process has ended, or is ended, and another one starts.
Restart ==
  /\ playerX' = WIDTH \div 2
  /\ bullets' = [i \in BulletSlots |-> Off]
  /\ enemies' = [j \in EnemySlots |-> Off]
  /\ kills' = 0 /\ gameOver' = FALSE

WarNext ==
  \/ Restart
  \/ \E key \in {"a", "d", " ", "Esc", "none"}, spawn \in [EnemySlots -> Columns \cup {None}] :
       Frame(key, spawn)

WarSpec == WarInit /\ [][WarNext]_WarVars

-----------------------------------------------------------------------------
(* Properties.                                                             *)

\* The type of each variable; what is active is in the field.
WarTypeOK ==
  /\ playerX \in Columns
  /\ bullets \in [BulletSlots -> Field \cup {Off}]
  /\ enemies \in [EnemySlots -> Field \cup {Off}]
  /\ kills \in Nat /\ gameOver \in BOOLEAN

\* Bullets and enemies approach each other by two rows a frame and are compared
\* once, after both have moved.  A bullet that is an even number of rows below
\* an enemy never gets past it; and from the row HEIGHT - 3 on nothing hits an
\* enemy any more, since bullets start in the row above the player and rise
\* before they are compared: it falls until it has left the field.
ShotsHit ==
  [][~Restart =>
       \A j \in EnemySlots : enemies[j] # Off =>
         /\ \A i \in BulletSlots :
              /\ bullets[i] # Off /\ bullets[i][1] = enemies[j][1]
              /\ bullets[i][2] > enemies[j][2] /\ (bullets[i][2] - enemies[j][2]) % 2 = 0
              /\ bullets'[i] # Off /\ enemies'[j] # Off
              => bullets'[i][2] > enemies'[j][2]
         /\ enemies[j][2] >= HEIGHT - 3 =>
              enemies'[j] = Fallen(enemies[j], None)]_WarVars

\* While the game goes on there is no enemy where the player is: the one that
\* comes down on the player ends the game, and the player cannot steer into one,
\* since those in the last row leave it in the frame in which the player moves.
RamEndsGame ==
  ~gameOver => \A j \in EnemySlots : enemies[j] # <<playerX, HEIGHT - 1>>

=============================================================================
