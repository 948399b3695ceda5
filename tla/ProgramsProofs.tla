---------------------------- MODULE ProgramsProofs ----------------------------
(***************************************************************************)
(* Theorems about the programs that run alone: Space Wars, for every field *)
(* and any number of bullets and enemies, ping pong, for every size of the *)
(* field and of the paddle, the port scanner, for every range of ports,    *)
(* every host and all timeouts, and the types of all four.                 *)
(***************************************************************************)
EXTENDS MCPrograms, Game2048Proofs

-----------------------------------------------------------------------------
(* Space Wars.                                                             *)

\* Bullets have left the muzzle by the time a frame ends, each in a row of its
\* own, since there is one shot a frame.
BulletsHigh  == \A i \in BulletSlots : bullets[i] # Off => bullets[i][2] <= HEIGHT - 3
BulletsApart ==
  \A i, k \in BulletSlots :
    bullets[i] # Off /\ bullets[k] # Off /\ bullets[i][2] = bullets[k][2] => i = k

WarInv == WarTypeOK /\ RamEndsGame /\ BulletsHigh /\ BulletsApart

\* What Frame binds.
NewBullets(key) == [i \in BulletSlots |-> Risen(Shot(key)[i])]
NewEnemies(spawn) == [j \in EnemySlots |-> Fallen(enemies[j], spawn[j])]

LEMMA OffOutside == /\ \A cell \in Field : cell # Off /\ cell[1] \in Columns
                    /\ \A cell \in Field : cell[2] \in 0..HEIGHT - 1
                    /\ None \notin Columns
BY FieldSizeAssumption DEF Field, Columns, Off, None

LEMMA SteeredInField ==
  ASSUME playerX \in Columns, NEW key
  PROVE  Steered(key) \in Columns
BY FieldSizeAssumption DEF Steered, Columns

\* Of two slots only one gets the shot.
LEMMA OneShot ==
  ASSUME WarInv, NEW key, NEW i \in BulletSlots
  PROVE  /\ Shot(key)[i] \in Field \cup {Off}
         /\ Shot(key)[i] = bullets[i] \/ (bullets[i] = Off /\ Shot(key)[i] = Muzzle)
         /\ Shot(key)[i] # Off => Shot(key)[i][2] <= HEIGHT - 2
         /\ \A k \in BulletSlots :
              Shot(key)[i] = Muzzle /\ Shot(key)[k] = Muzzle => i = k
<1>1. Muzzle \in Field /\ Muzzle[2] = HEIGHT - 2 /\ Muzzle # Off
  <2>1. playerX \in Columns /\ HEIGHT - 2 \in 0..HEIGHT - 1
    BY FieldSizeAssumption DEF WarInv, WarTypeOK
  <2> QED BY <2>1, OffOutside DEF Muzzle, Field
<1>2. \A k \in BulletSlots :
        /\ bullets[k] \in Field \cup {Off}
        /\ bullets[k] # Muzzle
        /\ bullets[k] # Off => bullets[k][2] <= HEIGHT - 3 /\ bullets[k][2] \in 0..HEIGHT - 1
  BY <1>1, OffOutside, FieldSizeAssumption DEF WarInv, WarTypeOK, BulletsHigh
<1>3. \A k \in BulletSlots :
        Shot(key)[k] = IF key = " " /\ bullets[k] = Off /\ \A n \in 1..k - 1 : bullets[n] # Off
                       THEN Muzzle ELSE bullets[k]
  BY DEF Shot
<1>4. ASSUME NEW k \in BulletSlots, Shot(key)[i] = Muzzle, Shot(key)[k] = Muzzle
      PROVE  i = k
  <2>1. /\ bullets[i] = Off /\ \A n \in 1..i - 1 : bullets[n] # Off
        /\ bullets[k] = Off /\ \A n \in 1..k - 1 : bullets[n] # Off
    BY <1>2, <1>3, <1>4
  <2>2. ~(i < k) /\ ~(k < i)
    BY <2>1 DEF BulletSlots
  <2> QED BY <2>2 DEF BulletSlots
<1>5. Shot(key)[i] = bullets[i] \/ (bullets[i] = Off /\ Shot(key)[i] = Muzzle)
  BY <1>3
<1>6. Shot(key)[i] \in Field \cup {Off}
  BY <1>1, <1>2, <1>5
<1>7. Shot(key)[i] # Off => Shot(key)[i][2] <= HEIGHT - 2
  BY <1>1, <1>2, <1>5, FieldSizeAssumption
<1> QED BY <1>4, <1>5, <1>6, <1>7

\* A bullet after updateBullets.
LEMMA BulletRises ==
  ASSUME WarInv, NEW key, NEW i \in BulletSlots, NEW k \in BulletSlots
  PROVE  LET bs == NewBullets(key) IN
         /\ bs[i] \in Field \cup {Off}
         /\ bs[i] # Off => bs[i][2] <= HEIGHT - 3
         /\ bs[i] # Off /\ bs[k] # Off /\ bs[i][2] = bs[k][2] => i = k
         /\ bs[i] # Off /\ bullets[i] # Off => bs[i] = <<bullets[i][1], bullets[i][2] - 1>>
<1> DEFINE bs == NewBullets(key)
<1>1. /\ bs[i] = Risen(Shot(key)[i]) /\ bs[k] = Risen(Shot(key)[k])
  BY DEF NewBullets
<1>2. ASSUME NEW n \in BulletSlots, Risen(Shot(key)[n]) # Off
      PROVE  /\ Shot(key)[n] \in Field /\ Shot(key)[n] # Off
             /\ Risen(Shot(key)[n]) = <<Shot(key)[n][1], Shot(key)[n][2] - 1>>
             /\ Risen(Shot(key)[n]) \in Field
             /\ Shot(key)[n][2] \in 1..HEIGHT - 2
  <2>1. Shot(key)[n] # Off /\ Shot(key)[n][2] # 0
    BY <1>2 DEF Risen
  <2>2. Shot(key)[n] \in Field /\ Shot(key)[n][2] \in 1..HEIGHT - 2
    BY <2>1, OneShot, OffOutside, FieldSizeAssumption
  <2>3. Risen(Shot(key)[n]) = <<Shot(key)[n][1], Shot(key)[n][2] - 1>>
    BY <2>1 DEF Risen
  <2>4. Shot(key)[n][1] \in Columns /\ Shot(key)[n][2] - 1 \in 0..HEIGHT - 1
    BY <2>2, OffOutside, FieldSizeAssumption
  <2> QED BY <2>1, <2>2, <2>3, <2>4 DEF Field
<1>3. bs[i] \in Field \cup {Off}
  BY <1>1, <1>2
<1>4. bs[i] # Off => bs[i][2] <= HEIGHT - 3
  BY <1>1, <1>2, FieldSizeAssumption
<1>5. ASSUME bs[i] # Off, bs[k] # Off, bs[i][2] = bs[k][2]
      PROVE  i = k
  <2> DEFINE s == Shot(key)
  <2>1. s[i][2] = s[k][2] /\ s[i] # Off /\ s[k] # Off
    BY <1>1, <1>2, <1>5
  <2>2. \A n \in BulletSlots : s[n] = bullets[n] \/ s[n] = Muzzle
    BY OneShot
  <2>3. CASE s[i] = Muzzle /\ s[k] = Muzzle
    BY <2>3, OneShot
  <2>4. CASE s[i] = bullets[i] /\ s[k] = bullets[k]
    BY <2>1, <2>4 DEF WarInv, BulletsApart
  <2>5. \A n \in BulletSlots : s[n] = bullets[n] /\ s[n] # Off =>
           s[n][2] <= HEIGHT - 3 /\ s[n][2] \in Int
    BY OffOutside, FieldSizeAssumption DEF WarInv, WarTypeOK, BulletsHigh
  <2>6. Muzzle[2] = HEIGHT - 2
    BY DEF Muzzle
  <2> QED BY <2>1, <2>2, <2>3, <2>4, <2>5, <2>6, FieldSizeAssumption
<1>6. bs[i] # Off /\ bullets[i] # Off => bs[i] = <<bullets[i][1], bullets[i][2] - 1>>
  BY <1>1, <1>2, OneShot
<1> QED BY <1>3, <1>4, <1>5, <1>6

\* An enemy after updateEnemies.
LEMMA EnemyFalls ==
  ASSUME WarInv, NEW spawn \in [EnemySlots -> Columns \cup {None}], NEW j \in EnemySlots
  PROVE  LET es == NewEnemies(spawn) IN
         /\ es[j] \in Field \cup {Off}
         /\ enemies[j] # Off => es[j] = Fallen(enemies[j], None)
         /\ enemies[j] # Off /\ es[j] # Off => es[j] = <<enemies[j][1], enemies[j][2] + 1>>
         /\ \A x : es[j] = <<x, HEIGHT - 1>> => Rams(enemies[j], x)
<1> DEFINE es == NewEnemies(spawn)
<1>1. es[j] = Fallen(enemies[j], spawn[j]) /\ spawn[j] \in Columns \cup {None}
  BY DEF NewEnemies
<1>2. enemies[j] \in Field \cup {Off}
  BY DEF WarInv, WarTypeOK
<1>3. CASE enemies[j] = Off
  <2>1. es[j] = Off \/ (spawn[j] \in Columns /\ es[j] = <<spawn[j], 0>>)
    <3>1. es[j] = IF spawn[j] = None THEN Off ELSE <<spawn[j], 0>>
      BY <1>1, <1>3 DEF Fallen
    <3> HIDE DEF es
    <3> QED BY <1>1, <3>1
  <2>2. 0 \in 0..HEIGHT - 1 /\ 0 # HEIGHT - 1 /\ -1 # HEIGHT - 1
    BY FieldSizeAssumption
  <2>3. es[j] \in Field \cup {Off}
    BY <2>1, <2>2 DEF Field
  <2>4. \A x : es[j] # <<x, HEIGHT - 1>>
    <3> HIDE DEF es
    <3>1. es[j] = Off => \A x : es[j] # <<x, HEIGHT - 1>>
      BY <2>2 DEF Off
    <3>2. \A x : <<spawn[j], 0>> # <<x, HEIGHT - 1>>
      BY <2>2
    <3> QED BY <2>1, <3>1, <3>2
  <2> QED BY <1>3, <2>3, <2>4
<1>4. CASE enemies[j] # Off
  <2>1. enemies[j] \in Field /\ enemies[j][1] \in Columns /\ enemies[j][2] \in 0..HEIGHT - 1
    BY <1>2, <1>4, OffOutside
  <2>2. es[j] = Fallen(enemies[j], None)
    BY <1>1, <1>4 DEF Fallen
  <2>3. CASE enemies[j][2] + 1 >= HEIGHT
    <3>1. es[j] = Off
      BY <1>4, <2>2, <2>3 DEF Fallen
    <3> QED BY <2>2, <3>1, FieldSizeAssumption DEF Off
  <2>4. CASE ~(enemies[j][2] + 1 >= HEIGHT)
    <3>1. es[j] = <<enemies[j][1], enemies[j][2] + 1>>
      BY <1>4, <2>2, <2>4 DEF Fallen
    <3>2. es[j] \in Field
      BY <2>1, <2>4, <3>1, FieldSizeAssumption DEF Field
    <3> QED BY <1>4, <2>2, <3>1, <3>2 DEF Rams
  <2> QED BY <2>3, <2>4
<1> QED BY <1>3, <1>4

LEMMA WarInitInv == WarInit => WarInv
<1> SUFFICES ASSUME WarInit PROVE WarInv
  OBVIOUS
<1>1. \A n \in Nat \ {0} : n \div 2 \in 0..n - 1
  OBVIOUS
<1>2. WarTypeOK
  BY <1>1, FieldSizeAssumption DEF WarInit, WarTypeOK, Columns
<1>3. Off # <<playerX, HEIGHT - 1>>
  BY FieldSizeAssumption DEF Off
<1> QED BY <1>2, <1>3 DEF WarInit, WarInv, RamEndsGame, BulletsHigh, BulletsApart

\* A frame in the terms of the lemmas.
LEMMA FrameIs ==
  ASSUME NEW key, NEW spawn, Frame(key, spawn)
  PROVE  /\ playerX' = Steered(key)
         /\ bullets' = BulletsLeft(NewBullets(key), NewEnemies(spawn))
         /\ enemies' = EnemiesLeft(NewBullets(key), NewEnemies(spawn))
         /\ kills' = kills + Cardinality({j \in EnemySlots : enemies'[j] # NewEnemies(spawn)[j]})
         /\ gameOver' = (key = "Esc" \/ \E j \in EnemySlots : Rams(enemies[j], Steered(key)))
BY DEF Frame, NewBullets, NewEnemies

\* Cardinalities of subsets of the slots.
LEMMA HitsAreNat == \A S \in SUBSET EnemySlots : Cardinality(S) \in Nat
<1>1. MAX_ENEMIES \in Nat
  BY FieldSizeAssumption
<1>2. IsFiniteSet(EnemySlots)
  BY <1>1, FS_Interval DEF EnemySlots
<1> QED BY <1>2, FS_Subset, FS_CardinalityType

LEMMA FrameInv ==
  ASSUME WarInv, NEW key,
         NEW spawn \in [EnemySlots -> Columns \cup {None}], Frame(key, spawn)
  PROVE  WarInv'
<1> DEFINE bs == NewBullets(key)
           es == NewEnemies(spawn)
<1>1. \A i \in BulletSlots : bullets'[i] = Off \/ bullets'[i] = bs[i]
  BY FrameIs DEF BulletsLeft
<1>2. \A j \in EnemySlots : enemies'[j] = Off \/ enemies'[j] = es[j]
  <2>1. enemies' = EnemiesLeft(bs, es)
    BY FrameIs
  <2> HIDE DEF bs, es
  <2> QED BY <2>1 DEF EnemiesLeft
<1>3. WarTypeOK'
  <2>1. playerX' \in Columns
    BY FrameIs, SteeredInField DEF WarInv, WarTypeOK
  <2>2. bullets' \in [BulletSlots -> Field \cup {Off}]
    <3>1. bullets' = [i \in BulletSlots |-> bullets'[i]]
      BY FrameIs DEF BulletsLeft
    <3> QED BY <1>1, <3>1, BulletRises
  <2>3. enemies' \in [EnemySlots -> Field \cup {Off}]
    <3>1. enemies' = [j \in EnemySlots |-> enemies'[j]]
      BY FrameIs DEF EnemiesLeft
    <3> QED BY <1>2, <3>1, EnemyFalls
  <2>4. kills' \in Nat
    <3>1. kills' = kills + Cardinality({j \in EnemySlots : enemies'[j] # es[j]})
      BY FrameIs
    <3>2. Cardinality({j \in EnemySlots : enemies'[j] # es[j]}) \in Nat
      BY HitsAreNat
    <3> QED BY <3>1, <3>2 DEF WarInv, WarTypeOK
  <2>5. gameOver' \in BOOLEAN
    BY FrameIs
  <2> QED BY <2>1, <2>2, <2>3, <2>4, <2>5 DEF WarTypeOK
<1>4. RamEndsGame'
  <2> SUFFICES ASSUME NEW j \in EnemySlots, enemies'[j] = <<playerX', HEIGHT - 1>>
               PROVE  gameOver'
    BY DEF RamEndsGame
  <2>1. <<playerX', HEIGHT - 1>> # Off
    BY FieldSizeAssumption DEF Off
  <2>2. es[j] = <<Steered(key), HEIGHT - 1>>
    BY <1>2, <2>1, FrameIs
  <2>3. Rams(enemies[j], Steered(key))
    BY <2>2, EnemyFalls
  <2> QED BY <2>3, FrameIs
<1>5. BulletsHigh'
  BY <1>1, BulletRises DEF BulletsHigh
<1>6. BulletsApart'
  BY <1>1, BulletRises DEF BulletsApart
<1> QED BY <1>3, <1>4, <1>5, <1>6 DEF WarInv

LEMMA WarNextInv == WarInv /\ [WarNext]_WarVars => WarInv'
<1> SUFFICES ASSUME WarInv, [WarNext]_WarVars PROVE WarInv'
  OBVIOUS
<1>1. CASE Restart
  <2>1. WarInit'
    BY <1>1 DEF Restart, WarInit
  <2> QED BY <2>1, WarInitInv, PTL
<1>2. CASE \E key \in {"a", "d", " ", "Esc", "none"},
               spawn \in [EnemySlots -> Columns \cup {None}] : Frame(key, spawn)
  BY <1>2, FrameInv
<1>3. CASE UNCHANGED WarVars
  BY <1>3 DEF WarVars, WarInv, WarTypeOK, RamEndsGame, BulletsHigh, BulletsApart
<1> QED BY <1>1, <1>2, <1>3 DEF WarNext

LEMMA WarAlways == WarSpec => []WarInv
BY WarInitInv, WarNextInv, PTL DEF WarSpec

\* Every variable keeps its type.
THEOREM WarTypeCorrect == WarSpec => []WarTypeOK
<1>1. WarInv => WarTypeOK
  BY DEF WarInv
<1> QED BY <1>1, WarAlways, PTL

\* No enemy is where the player is while the game goes on (updateEnemies).
THEOREM NobodyAtThePlayer == WarSpec => []RamEndsGame
<1>1. WarInv => RamEndsGame
  BY DEF WarInv
<1> QED BY <1>1, WarAlways, PTL

\* Of an odd and an even distance only one lets a bullet pass (checkCollisions).
LEMMA EvenMeets ==
  ASSUME NEW b \in Nat, NEW e \in Nat, b > e, (b - e) % 2 = 0
  PROVE  b - 1 >= e + 1
<1>1. b - e # 1
  OBVIOUS
<1> QED BY <1>1

LEMMA FrameHits ==
  ASSUME WarInv, NEW key,
         NEW spawn \in [EnemySlots -> Columns \cup {None}], Frame(key, spawn),
         NEW j \in EnemySlots, enemies[j] # Off
  PROVE  /\ \A i \in BulletSlots :
              /\ bullets[i] # Off /\ bullets[i][1] = enemies[j][1]
              /\ bullets[i][2] > enemies[j][2] /\ (bullets[i][2] - enemies[j][2]) % 2 = 0
              /\ bullets'[i] # Off /\ enemies'[j] # Off
              => bullets'[i][2] > enemies'[j][2]
         /\ enemies[j][2] >= HEIGHT - 3 => enemies'[j] = Fallen(enemies[j], None)
<1> DEFINE bs == NewBullets(key)
           es == NewEnemies(spawn)
<1>1. enemies[j] \in Field /\ enemies[j][2] \in Nat
  BY OffOutside, FieldSizeAssumption DEF WarInv, WarTypeOK
<1>2. enemies'[j] = IF \E i \in BulletSlots : Together(bs[i], es[j]) THEN Off ELSE es[j]
  BY FrameIs DEF EnemiesLeft
<1>3. \A i \in BulletSlots : bullets'[i] = Off \/ bullets'[i] = bs[i]
  BY FrameIs DEF BulletsLeft
<1>4. ASSUME NEW i \in BulletSlots,
             bullets[i] # Off, bullets[i][1] = enemies[j][1],
             bullets[i][2] > enemies[j][2], (bullets[i][2] - enemies[j][2]) % 2 = 0,
             bullets'[i] # Off, enemies'[j] # Off
      PROVE  bullets'[i][2] > enemies'[j][2]
  <2>1. bullets[i] \in Field /\ bullets[i][2] \in Nat
    BY <1>4, OffOutside, FieldSizeAssumption DEF WarInv, WarTypeOK
  <2>2. bullets'[i] = bs[i] /\ enemies'[j] = es[j] /\ ~Together(bs[i], es[j])
    BY <1>2, <1>3, <1>4
  <2>3. bs[i] = <<bullets[i][1], bullets[i][2] - 1>>
    BY <1>4, <2>2, BulletRises
  <2>4. es[j] = <<enemies[j][1], enemies[j][2] + 1>>
    BY <1>4, <2>2, EnemyFalls
  <2>5. bs[i] # es[j]
    BY <1>4, <2>2 DEF Together
  <2>6. bullets[i][2] - 1 # enemies[j][2] + 1
    BY <1>4, <2>3, <2>4, <2>5
  <2>7. bullets[i][2] - 1 >= enemies[j][2] + 1
    BY <1>1, <1>4, <2>1, EvenMeets
  <2> QED BY <1>1, <2>1, <2>2, <2>3, <2>4, <2>6, <2>7
<1>5. ASSUME enemies[j][2] >= HEIGHT - 3
      PROVE  enemies'[j] = Fallen(enemies[j], None)
  <2>1. es[j] = Fallen(enemies[j], None)
    BY EnemyFalls
  <2>2. ASSUME NEW i \in BulletSlots, Together(bs[i], es[j])
        PROVE  FALSE
    <3>1. bs[i] # Off /\ es[j] # Off /\ bs[i] = es[j]
      BY <2>2 DEF Together
    <3>2. bs[i][2] <= HEIGHT - 3
      BY <3>1, BulletRises
    <3>3. es[j][2] = enemies[j][2] + 1
      BY <3>1, EnemyFalls
    <3> QED BY <1>1, <1>5, <3>1, <3>2, <3>3, FieldSizeAssumption
  <2> QED BY <1>2, <2>1, <2>2
<1> QED BY <1>4, <1>5

\* Which shots hit and which cannot, whatever the player does.
THEOREM ShotsHitAsTheyMust == WarSpec => ShotsHit
<1> DEFINE A == ~Restart =>
       \A j \in EnemySlots : enemies[j] # Off =>
         /\ \A i \in BulletSlots :
              /\ bullets[i] # Off /\ bullets[i][1] = enemies[j][1]
              /\ bullets[i][2] > enemies[j][2] /\ (bullets[i][2] - enemies[j][2]) % 2 = 0
              /\ bullets'[i] # Off /\ enemies'[j] # Off
              => bullets'[i][2] > enemies'[j][2]
         /\ enemies[j][2] >= HEIGHT - 3 =>
              enemies'[j] = Fallen(enemies[j], None)
<1>1. WarInv /\ [WarNext]_WarVars => [A]_WarVars
  <2> SUFFICES ASSUME WarInv, WarNext, ~Restart, NEW j \in EnemySlots, enemies[j] # Off
               PROVE  /\ \A i \in BulletSlots :
                           /\ bullets[i] # Off /\ bullets[i][1] = enemies[j][1]
                           /\ bullets[i][2] > enemies[j][2]
                           /\ (bullets[i][2] - enemies[j][2]) % 2 = 0
                           /\ bullets'[i] # Off /\ enemies'[j] # Off
                           => bullets'[i][2] > enemies'[j][2]
                      /\ enemies[j][2] >= HEIGHT - 3 =>
                           enemies'[j] = Fallen(enemies[j], None)
    OBVIOUS
  <2>1. PICK key \in {"a", "d", " ", "Esc", "none"},
             spawn \in [EnemySlots -> Columns \cup {None}] : Frame(key, spawn)
    BY DEF WarNext
  <2> QED BY <2>1, FrameHits
<1> QED BY <1>1, WarAlways, PTL DEF WarSpec, ShotsHit

-----------------------------------------------------------------------------
(* Ping pong.                                                              *)

\* What holds between two passes of the loop.
PongInv == PongTypeOK /\ BallInField

\* The ball is put back away from every edge.
LEMMA CentreInside ==
  /\ Centre = [x |-> Centre.x, y |-> Centre.y]
  /\ Centre.x \in 1..MAX_WIDTH - 2
  /\ Centre.y \in 1..MAX_HEIGHT - 2
<1>1. \A n \in Nat : n >= 3 => n \div 2 \in 1..n - 2
  OBVIOUS
<1> QED BY <1>1, FieldAssumption DEF Centre

LEMMA PongInitInv == PongInit => PongInv
BY CentreInside, FieldAssumption DEF PongInit, PongInv, PongTypeOK, BallInField, Centre

\* The ball and its direction after update.
LEMMA UpdateInv ==
  ASSUME PongInv, update
  PROVE  /\ ball' \in [x : Int, y : Int] /\ dir' \in [x : {-1, 1}, y : {-1, 1}]
         /\ BallInField'
<1> DEFINE moved  == [x |-> ball.x + dir.x, y |-> ball.y + dir.y]
           turned == [x |-> IF AtPaddle(moved) THEN -dir.x ELSE dir.x,
                      y |-> Turns(moved.y, dir.y)]
<1>1. /\ ball.x \in 1..MAX_WIDTH - 1 /\ ball.y \in 0..MAX_HEIGHT - 1
      /\ dir.x \in {-1, 1} /\ dir.y \in {-1, 1} /\ paddle_y \in Int
      /\ ball.x = MAX_WIDTH - 1 => dir.x = -1
      /\ ball.y = 0 => dir.y = 1
      /\ ball.y = MAX_HEIGHT - 1 => dir.y = -1
  BY DEF PongInv, PongTypeOK, BallInField
<1>2. /\ moved.x \in 0..MAX_WIDTH - 1 /\ moved.y \in 0..MAX_HEIGHT - 1
      /\ moved.x \in Int /\ moved.y \in Int
  BY <1>1, FieldAssumption
<1>3. /\ turned.x \in {-1, 1} /\ turned.y \in {-1, 1}
      /\ moved.y = 0 => turned.y = 1
      /\ moved.y = MAX_HEIGHT - 1 => turned.y = -1
  BY <1>1, <1>2, FieldAssumption DEF Turns
<1>4. moved.x = MAX_WIDTH - 1 => turned.x = 1
  BY <1>1, <1>2, FieldAssumption DEF AtPaddle
<1>5. ball' = Settled(moved, turned).ball /\ dir' = Settled(moved, turned).dir
  BY DEF update
<1>6. CASE moved.x <= 0
  <2>1. ball' = Centre /\ dir' = [x |-> 1, y |-> 1]
    BY <1>5, <1>6, CentreInside, FieldAssumption DEF Settled
  <2> QED BY <2>1, CentreInside, FieldAssumption DEF BallInField
<1>7. CASE ~(moved.x <= 0)
  <2>1. /\ ball' = moved
        /\ dir' = [x |-> IF moved.x >= MAX_WIDTH - 1 THEN -turned.x ELSE turned.x,
                   y |-> turned.y]
    BY <1>5, <1>7 DEF Settled
  <2> QED BY <1>2, <1>3, <1>4, <1>7, <2>1, FieldAssumption DEF BallInField
<1> QED BY <1>6, <1>7

LEMMA PongNextInv == PongInv /\ [PongNext]_PongVars => PongInv'
<1> SUFFICES ASSUME PongInv, [PongNext]_PongVars PROVE PongInv'
  OBVIOUS
<1>1. CASE PongNext
  <2>1. PICK key : Pass(key)
    BY <1>1 DEF PongNext
  <2>2. paddle_y' \in Int
    BY <2>1, FieldAssumption DEF Pass
  <2> QED BY <2>1, <2>2, UpdateInv DEF Pass, PongInv, PongTypeOK
<1>2. CASE UNCHANGED PongVars
  BY <1>2 DEF PongVars, PongInv, PongTypeOK, BallInField
<1> QED BY <1>1, <1>2

LEMMA PongAlways == PongSpec => []PongInv
BY PongInitInv, PongNextInv, PTL DEF PongSpec

\* Every variable keeps its type.
THEOREM PongTypeCorrect == PongSpec => []PongTypeOK
<1>1. PongInv => PongTypeOK
  BY DEF PongInv
<1> QED BY <1>1, PongAlways, PTL

\* The ball stays in the field, whatever the keys: update keeps it there.
THEOREM BallStaysInField == PongSpec => []BallInField
<1>1. PongInv => BallInField
  BY DEF PongInv
<1> QED BY <1>1, PongAlways, PTL

-----------------------------------------------------------------------------
(* The port scanner.                                                       *)

\* What a thread has printed and heard at each of its places.
HeardSoFar(t, does) ==
  /\ t.heard["tcp"] # "none" => does.tcp
  /\ t.at \in {"none", "failed", "start"} => t.heard["tcp"] = "none"
  /\ t.at \in {"none", "failed", "start", "tcp"} =>
       t.printed = {} /\ t.skipped = {} /\ t.heard["udp"] = "none"
  /\ t.at = "udp" =>
       /\ "udp" \notin t.skipped /\ t.printed \subseteq {"tcp OPEN"}
       /\ t.heard["tcp"] = "prompt" => "tcp OPEN" \in t.printed
PrintedSoFar == \A q \in Ports : HeardSoFar(threads[q], target[q])

\* A thread that is under way is not late, and each of its places is reached
\* within a lag of the moment at which the one before could be left.
NotLate(q) ==
  LET t == threads[q] IN
  /\ clock <= Due(q)
  /\ t.at = "start" => t.from = t.born
  /\ t.at = "tcp" => t.from <= t.born + Lag
  /\ t.at = "udp" => t.from <= t.born + TCP_TIMEOUT + 2 * Lag
ThreadsInTime == mpc # "exited" => \A q \in Ports : Unfinished(threads[q]) => NotLate(q)

KilledAtExit == mpc # "exited" => \A q \in Ports : threads[q].at # "killed"

\* The slot is back before another is asked for: MAX_THREADS bounds nothing.
LoopInv ==
  /\ p >= start_port
  /\ sem = IF mpc \in {"create", "release"} THEN MAX_THREADS - 1 ELSE MAX_THREADS

ScanInv ==
  ScanTypeOK /\ ReportsTrue /\ OnlyLastPortsCutOff
  /\ PrintedSoFar /\ ThreadsInTime /\ KilledAtExit /\ LoopInv

-----------------------------------------------------------------------------
(* The records of the threads.                                             *)

LEMMA NoThreadType ==
  /\ NoThread \in Thread
  /\ NoThread.at = "none" /\ NoThread.printed = {} /\ NoThread.skipped = {}
  /\ NoThread.heard["tcp"] = "none" /\ NoThread.heard["udp"] = "none"
BY DEF NoThread, Thread, Places, Protocols

\* What one call does to the record of its thread.
Advances(t, u, place, from, lines, unable) ==
  /\ u.at = place /\ u.from = from /\ u.born = t.born /\ u.heard = t.heard
  /\ u.printed = t.printed \cup lines /\ u.skipped = t.skipped \cup unable

LEMMA EndsMoves ==
  ASSUME threads \in [Ports -> Thread], NEW q \in Ports,
         NEW lines \in SUBSET ReportLines, Ends(q, lines)
  PROVE  /\ threads' \in [Ports -> Thread]
         /\ \A r \in Ports \ {q} : threads'[r] = threads[r]
         /\ Advances(threads[q], threads'[q], "done", threads[q].from, lines, {})
<1>1. threads[q] \in Thread /\ "done" \in Places
  BY DEF Places
<1>2. /\ threads'[q] = [threads[q] EXCEPT !.at = "done", !.printed = @ \cup lines]
      /\ \A r \in Ports \ {q} : threads'[r] = threads[r]
      /\ threads' = [r \in Ports |-> threads'[r]]
  BY DEF Ends
<1>3. threads'[q] \in Thread
  BY <1>1, <1>2 DEF Thread
<1>4. Advances(threads[q], threads'[q], "done", threads[q].from, lines, {})
  BY <1>1, <1>2 DEF Thread, Advances
<1> QED BY <1>2, <1>3, <1>4

LEMMA CallsUdpMoves ==
  ASSUME threads \in [Ports -> Thread], clock \in Nat, NEW q \in Ports,
         NEW lines \in SUBSET ReportLines, NEW unable \in SUBSET {"tcp"}, CallsUdp(q, lines, unable)
  PROVE  /\ threads' \in [Ports -> Thread]
         /\ \A r \in Ports \ {q} : threads'[r] = threads[r]
         /\ \/ Advances(threads[q], threads'[q], "udp", clock, lines, unable)
            \/ Advances(threads[q], threads'[q], "done", threads[q].from, lines, unable \cup {"udp"})
<1>1. /\ threads[q] \in Thread /\ "done" \in Places /\ "udp" \in Places
      /\ threads[q].printed \cup lines \in SUBSET ReportLines
      /\ threads[q].skipped \cup unable \in SUBSET Protocols
      /\ threads[q].skipped \cup unable \cup {"udp"} \in SUBSET Protocols
  <2>1. threads[q] \in Thread
    OBVIOUS
  <2> QED BY <2>1 DEF Thread, Places, Protocols
<1>2. CASE threads' = [threads EXCEPT ![q].at = "udp", ![q].from = clock,
                                      ![q].printed = @ \cup lines, ![q].skipped = @ \cup unable]
  <2>1. /\ threads'[q] = [threads[q] EXCEPT !.at = "udp", !.from = clock,
                                            !.printed = @ \cup lines, !.skipped = @ \cup unable]
        /\ \A r \in Ports \ {q} : threads'[r] = threads[r]
        /\ threads' = [r \in Ports |-> threads'[r]]
    BY <1>2
  <2>2. threads'[q] \in Thread
    BY <1>1, <2>1 DEF Thread
  <2>3. Advances(threads[q], threads'[q], "udp", clock, lines, unable)
    BY <1>1, <2>1 DEF Thread, Advances
  <2> QED BY <2>1, <2>2, <2>3
<1>3. CASE threads' = [threads EXCEPT ![q].at = "done", ![q].printed = @ \cup lines,
                                      ![q].skipped = @ \cup unable \cup {"udp"}]
  <2>1. /\ threads'[q] = [threads[q] EXCEPT !.at = "done", !.printed = @ \cup lines,
                                            !.skipped = @ \cup unable \cup {"udp"}]
        /\ \A r \in Ports \ {q} : threads'[r] = threads[r]
        /\ threads' = [r \in Ports |-> threads'[r]]
    BY <1>3
  <2>2. threads'[q] \in Thread
    BY <1>1, <2>1 DEF Thread
  <2>3. Advances(threads[q], threads'[q], "done", threads[q].from, lines, unable \cup {"udp"})
    BY <1>1, <2>1 DEF Thread, Advances
  <2> QED BY <2>1, <2>2, <2>3
<1> QED BY <1>2, <1>3 DEF CallsUdp

\* What a thread that moves has done: it has begun, called udp or ended.
Begun(q) ==
  /\ threads[q].at = "start"
  /\ Advances(threads[q], threads'[q], "tcp", clock, {}, {})

Called(q) ==
  \E unable \in SUBSET {"tcp"}, lines \in SUBSET {"tcp OPEN"} :
    /\ \/ threads[q].at = "start" /\ unable = {"tcp"} /\ lines = {}
       \/ /\ threads[q].at = "tcp" /\ unable = {}
          /\ \/ lines = {"tcp OPEN"} /\ threads[q].heard["tcp"] # "none"
             \/ lines = {} /\ threads[q].heard["tcp"] # "prompt"
    /\ \/ Advances(threads[q], threads'[q], "udp", clock, lines, unable)
       \/ Advances(threads[q], threads'[q], "done", threads[q].from, lines, unable \cup {"udp"})

\* The last line, by what the port has sent and what has come in time.
UdpLines(t, does, lines) ==
  \/ lines = {"udp OPEN"} /\ does.udp = "answers" /\ t.heard["udp"] # "none"
  \/ lines = {} /\ does.udp # "answers" /\ t.heard["udp"] # "none"
  \/ lines = {"udp OPEN - FILTERED"} /\ t.heard["udp"] # "prompt"

Ended(q) ==
  \E lines \in SUBSET ReportLines :
    /\ threads[q].at = "udp" /\ UdpLines(threads[q], target[q], lines)
    /\ Advances(threads[q], threads'[q], "done", threads[q].from, lines, {})

LEMMA ThreadMoves ==
  ASSUME ScanTypeOK, NEW q \in Ports, thread(q)
  PROVE  /\ threads' \in [Ports -> Thread]
         /\ \A r \in Ports \ {q} : threads'[r] = threads[r]
         /\ Begun(q) \/ Called(q) \/ Ended(q)
<1>1. threads \in [Ports -> Thread] /\ clock \in Nat
  BY DEF ScanTypeOK
<1>2. /\ {} \in SUBSET ReportLines /\ {"tcp OPEN"} \in SUBSET ReportLines /\ {"udp OPEN"} \in SUBSET ReportLines
      /\ {"udp OPEN - FILTERED"} \in SUBSET ReportLines
  BY DEF ReportLines
<1>3. CASE Begin(q)
  <2>1. CASE threads' = [threads EXCEPT ![q].at = "tcp", ![q].from = clock]
    <3>1. /\ threads'[q] = [threads[q] EXCEPT !.at = "tcp", !.from = clock]
          /\ \A r \in Ports \ {q} : threads'[r] = threads[r]
          /\ threads' = [r \in Ports |-> threads'[r]]
      BY <1>1, <2>1
    <3>2. threads[q] \in Thread /\ "tcp" \in Places
      BY <1>1 DEF Places
    <3>3. threads'[q] \in Thread
      BY <1>1, <3>1, <3>2 DEF Thread
    <3>4. Advances(threads[q], threads'[q], "tcp", clock, {}, {})
      BY <3>1, <3>2 DEF Thread, Advances
    <3> QED BY <1>1, <1>3, <3>1, <3>3, <3>4 DEF Begin, Begun
  <2>2. CASE CallsUdp(q, {}, {"tcp"})
    BY <1>1, <1>2, <1>3, <2>2, CallsUdpMoves DEF Begin, Called
  <2> QED BY <1>3, <2>1, <2>2 DEF Begin
<1>4. CASE TcpOpen(q)
  BY <1>1, <1>2, <1>4, CallsUdpMoves DEF TcpOpen, Called
<1>5. CASE TcpTimesOut(q)
  BY <1>1, <1>2, <1>5, CallsUdpMoves DEF TcpTimesOut, TimesOut, Called
<1>6. CASE UdpAnswered(q)
  BY <1>1, <1>2, <1>6, EndsMoves DEF UdpAnswered, Ended, UdpLines
<1>7. CASE UdpFails(q)
  BY <1>1, <1>2, <1>7, EndsMoves DEF UdpFails, Ended, UdpLines
<1>8. CASE UdpTimesOut(q)
  BY <1>1, <1>2, <1>8, EndsMoves DEF UdpTimesOut, TimesOut, Ended, UdpLines
<1> QED BY <1>3, <1>4, <1>5, <1>6, <1>7, <1>8 DEF thread

-----------------------------------------------------------------------------
(* What is printed.                                                        *)

\* What a thread may have printed where it is, and must have printed at the end.
Report(t, does) ==
  /\ HeardSoFar(t, does) /\ OnlyTrueLines(t, does)
  /\ t.at = "done" => AllLines(t, does)

LEMMA ReportOfAll ==
  PrintedSoFar /\ ReportsTrue <=> \A q \in Ports : Report(threads[q], target[q])
BY DEF PrintedSoFar, ReportsTrue, Report

LEMMA SameReport ==
  ASSUME NEW t, NEW u, NEW does, Report(t, does), u.at = t.at \/ u.at = "killed",
         u.printed = t.printed, u.skipped = t.skipped, u.heard = t.heard
  PROVE  Report(u, does)
BY DEF Report, HeardSoFar, OnlyTrueLines, AllLines

LEMMA ThreadPrints ==
  ASSUME ScanInv, NEW q \in Ports, thread(q)
  PROVE  PrintedSoFar' /\ ReportsTrue'
<1>1. /\ target' = target /\ target \in [Ports -> Port] /\ threads \in [Ports -> Thread]
      /\ ScanTypeOK
  BY DEF thread, ScanInv, ScanTypeOK
<1>2. \A r \in Ports \ {q} : threads'[r] = threads[r]
  BY <1>1, ThreadMoves
<1>3. \A r \in Ports : Report(threads[r], target[r])
  BY ReportOfAll DEF ScanInv
<1> DEFINE t == threads[q]
           u == threads'[q]
           does == target[q]
<1>4. HeardSoFar(t, does) /\ OnlyTrueLines(t, does)
  BY <1>3 DEF Report
<1>5. Report(u, does)
  <2>1. CASE Begun(q)
    <3>1. t.at = "start" /\ Advances(t, u, "tcp", clock, {}, {})
      BY <2>1 DEF Begun
    <3> HIDE DEF t, u, does
    <3> QED BY <1>4, <3>1 DEF Advances, Report, HeardSoFar, OnlyTrueLines
  <2>2. CASE Called(q)
    <3>1. PICK unable \in SUBSET {"tcp"}, lines \in SUBSET {"tcp OPEN"} :
            /\ \/ t.at = "start" /\ unable = {"tcp"} /\ lines = {}
               \/ /\ t.at = "tcp" /\ unable = {}
                  /\ \/ lines = {"tcp OPEN"} /\ t.heard["tcp"] # "none"
                     \/ lines = {} /\ t.heard["tcp"] # "prompt"
            /\ \/ Advances(t, u, "udp", clock, lines, unable)
               \/ Advances(t, u, "done", t.from, lines, unable \cup {"udp"})
      BY <2>2 DEF Called
    <3> HIDE DEF t, u, does
    <3>2. /\ t.printed = {} /\ t.skipped = {} /\ t.heard["udp"] = "none"
          /\ t.heard["tcp"] # "none" => does.tcp
          /\ t.at = "start" => t.heard["tcp"] = "none"
      BY <1>4, <3>1 DEF HeardSoFar
    <3>3. /\ u.heard = t.heard /\ u.printed = lines
          /\ \/ u.at = "udp" /\ u.skipped = unable
             \/ u.at = "done" /\ u.skipped = unable \cup {"udp"}
      BY <3>1, <3>2 DEF Advances
    <3>4. /\ "tcp OPEN" \in lines => t.heard["tcp"] # "none"
          /\ t.heard["tcp"] = "prompt" => "tcp OPEN" \in lines
      BY <3>1, <3>2
    <3>5. HeardSoFar(u, does)
      BY <3>1, <3>2, <3>3, <3>4 DEF HeardSoFar
    <3>6. OnlyTrueLines(u, does)
      BY <3>2, <3>3, <3>4 DEF OnlyTrueLines
    <3>7. u.at = "done" => AllLines(u, does)
      BY <3>2, <3>3, <3>4 DEF AllLines
    <3> QED BY <3>5, <3>6, <3>7 DEF Report
  <2>3. CASE Ended(q)
    <3>1. PICK lines \in SUBSET ReportLines :
            /\ t.at = "udp" /\ UdpLines(t, does, lines)
            /\ Advances(t, u, "done", t.from, lines, {})
      BY <2>3 DEF Ended
    <3> HIDE DEF t, u, does
    <3>2. /\ u.at = "done" /\ u.heard = t.heard /\ u.skipped = t.skipped
          /\ u.printed = t.printed \cup lines
      BY <3>1 DEF Advances
    <3>3. /\ "udp" \notin t.skipped /\ t.printed \subseteq {"tcp OPEN"}
          /\ t.heard["tcp"] = "prompt" => "tcp OPEN" \in t.printed
          /\ "tcp OPEN" \in t.printed => does.tcp
      BY <1>4, <3>1 DEF HeardSoFar, OnlyTrueLines
    <3>4. HeardSoFar(u, does)
      BY <1>4, <3>2 DEF HeardSoFar
    <3>5. OnlyTrueLines(u, does)
      BY <3>1, <3>2, <3>3 DEF OnlyTrueLines, UdpLines
    <3>6. AllLines(u, does)
      BY <3>1, <3>2, <3>3 DEF AllLines, UdpLines
    <3> QED BY <3>4, <3>5, <3>6 DEF Report
  <2> QED BY <1>1, <2>1, <2>2, <2>3, ThreadMoves
<1>6. \A r \in Ports : Report(threads'[r], target'[r])
  BY <1>1, <1>2, <1>3, <1>5
<1> QED BY <1>6, ReportOfAll DEF PrintedSoFar, ReportsTrue, Report

\* An answer changes what a thread has heard, and nothing else of it.
LEMMA AnswerMoves ==
  ASSUME ScanTypeOK, NEW q \in Ports, Answer(q)
  PROVE  /\ threads' \in [Ports -> Thread]
         /\ \A r \in Ports : /\ threads'[r].at = threads[r].at
                             /\ threads'[r].from = threads[r].from
                             /\ threads'[r].born = threads[r].born
         /\ \A r \in Ports \ {q} : threads'[r] = threads[r]
         /\ threads'[q].printed = threads[q].printed /\ threads'[q].skipped = threads[q].skipped
         /\ \/ /\ threads[q].at = "tcp" /\ target[q].tcp
               /\ threads'[q].heard["udp"] = threads[q].heard["udp"]
            \/ /\ threads[q].at = "udp"
               /\ threads'[q].heard["tcp"] = threads[q].heard["tcp"]
<1> DEFINE t == threads[q]
           u == threads'[q]
           time == IF clock < t.from + Timeout(t.at) THEN "prompt" ELSE "late"
<1>1. threads \in [Ports -> Thread] /\ t \in Thread /\ t.at \in Protocols
  BY DEF ScanTypeOK, Answer
<1>2. time \in {"prompt", "late"}
  OBVIOUS
<1>3. threads' = [threads EXCEPT ![q].heard = [@ EXCEPT ![t.at] = time]]
  BY DEF Answer
<1> HIDE DEF time
<1>4. /\ u = [t EXCEPT !.heard = [@ EXCEPT ![t.at] = time]]
      /\ \A r \in Ports \ {q} : threads'[r] = threads[r]
      /\ threads' = [r \in Ports |-> threads'[r]]
  BY <1>1, <1>3
<1>5. t.heard \in [Protocols -> {"none", "prompt", "late"}]
  BY <1>1 DEF Thread
<1>6. /\ [t.heard EXCEPT ![t.at] = time] \in [Protocols -> {"none", "prompt", "late"}]
      /\ \A proto \in Protocols : proto # t.at => [t.heard EXCEPT ![t.at] = time][proto] = t.heard[proto]
  BY <1>1, <1>2, <1>5
<1>7. /\ u.at = t.at /\ u.from = t.from /\ u.born = t.born
      /\ u.printed = t.printed /\ u.skipped = t.skipped
      /\ u.heard = [t.heard EXCEPT ![t.at] = time]
      /\ u \in Thread
  BY <1>1, <1>4, <1>6 DEF Thread
<1>8. \/ t.at = "tcp" /\ target[q].tcp
      \/ t.at = "udp"
  BY <1>1 DEF Protocols, Answer
<1>9. \A proto \in {"tcp", "udp"} : proto # t.at => u.heard[proto] = t.heard[proto]
  BY <1>6, <1>7 DEF Protocols
<1>10. threads' \in [Ports -> Thread]
  BY <1>1, <1>4, <1>7
<1> QED BY <1>4, <1>7, <1>8, <1>9, <1>10

LEMMA AnswerInv ==
  ASSUME ScanInv, NEW q \in Ports, Answer(q)
  PROVE  ScanInv'
<1>1. ScanTypeOK /\ UNCHANGED <<mpc, p, sem, since, clock, target>>
  BY DEF ScanInv, Answer
<1>2. \A r \in Ports : /\ threads'[r].at = threads[r].at
                       /\ threads'[r].from = threads[r].from
                       /\ threads'[r].born = threads[r].born
  BY <1>1, AnswerMoves
<1>3. ScanTypeOK' /\ LoopInv'
  <2>1. threads' \in [Ports -> Thread]
    BY <1>1, AnswerMoves
  <2> QED BY <1>1, <2>1 DEF ScanInv, ScanTypeOK, LoopInv
<1>4. PrintedSoFar' /\ ReportsTrue'
  <2> DEFINE t == threads[q]
             u == threads'[q]
             does == target[q]
  <2>1. \A r \in Ports : Report(threads[r], target[r])
    BY ReportOfAll DEF ScanInv
  <2>2. /\ u.at = t.at /\ u.printed = t.printed /\ u.skipped = t.skipped
        /\ \/ t.at = "tcp" /\ does.tcp /\ u.heard["udp"] = t.heard["udp"]
           \/ t.at = "udp" /\ u.heard["tcp"] = t.heard["tcp"]
    BY <1>1, AnswerMoves
  <2>3. HeardSoFar(t, does) /\ OnlyTrueLines(t, does)
    BY <2>1 DEF Report
  <2>4. Report(u, does)
    <3> HIDE DEF t, u, does
    <3>1. HeardSoFar(u, does)
      BY <2>2, <2>3 DEF HeardSoFar
    <3>2. t.printed \subseteq {"tcp OPEN"}
      BY <2>2, <2>3 DEF HeardSoFar
    <3>3. u.printed = t.printed /\ "udp OPEN - FILTERED" \notin u.printed
      <4>1. u.printed = t.printed
        BY <2>2
      <4>2. "udp OPEN - FILTERED" \notin {"tcp OPEN"}
        OBVIOUS
      <4>3. "udp OPEN - FILTERED" \notin t.printed
        BY <3>2, <4>2
      <4> QED BY <4>1, <4>3
    <3>4. OnlyTrueLines(u, does)
      BY <2>3, <3>3 DEF OnlyTrueLines
    <3> QED BY <2>2, <3>1, <3>4 DEF Report
  <2>5. \A r \in Ports \ {q} : threads'[r] = threads[r]
    BY <1>1, AnswerMoves
  <2>6. \A r \in Ports : Report(threads'[r], target'[r])
    BY <1>1, <2>1, <2>4, <2>5
  <2> QED BY <2>6, ReportOfAll DEF PrintedSoFar, ReportsTrue, Report
<1>5. ThreadsInTime'
  BY <1>1, <1>2 DEF ScanInv, ThreadsInTime, Unfinished, NotLate, Due
<1>6. KilledAtExit' /\ OnlyLastPortsCutOff'
  BY <1>1, <1>2 DEF ScanInv, KilledAtExit, OnlyLastPortsCutOff
<1> QED BY <1>3, <1>4, <1>5, <1>6 DEF ScanInv

-----------------------------------------------------------------------------
(* Time.                                                                   *)

\* The last moment at which a thread that is not late moves.
LEMMA LatestMove ==
  ASSUME ScanTypeOK, NEW q \in Ports, Unfinished(threads[q]), NotLate(q)
  PROVE  /\ clock <= threads[q].born + TCP_TIMEOUT + UDP_TIMEOUT + 3 * Lag
         /\ threads[q].at = "start" => clock <= threads[q].born + Lag
         /\ threads[q].at = "tcp" => clock <= threads[q].born + TCP_TIMEOUT + 2 * Lag
<1> DEFINE t == threads[q]
<1>1. /\ t.from \in Nat /\ t.born \in Nat /\ clock \in Nat
      /\ t.at \in Protocols <=> t.at = "tcp" \/ t.at = "udp"
  BY DEF ScanTypeOK, Thread, Protocols
<1>2. CASE t.at = "start"
  BY <1>1, <1>2, TimesAssumption DEF NotLate, Due
<1>3. CASE t.at = "tcp"
  <2>1. Due(q) <= t.from + TCP_TIMEOUT + Lag
    BY <1>1, <1>3, TimesAssumption DEF Due, Timeout
  <2>2. /\ clock <= Due(q) /\ t.from <= t.born + Lag
        /\ Due(q) \in Int
    BY <1>1, <1>3, TimesAssumption DEF NotLate, Due, Timeout
  <2> QED BY <1>1, <1>3, <2>1, <2>2, TimesAssumption
<1>4. CASE t.at = "udp"
  <2>1. Due(q) <= t.from + UDP_TIMEOUT + Lag
    BY <1>1, <1>4, TimesAssumption DEF Due, Timeout
  <2>2. /\ clock <= Due(q) /\ t.from <= t.born + TCP_TIMEOUT + 2 * Lag
        /\ Due(q) \in Int
    BY <1>1, <1>4, TimesAssumption DEF NotLate, Due, Timeout
  <2> QED BY <1>1, <1>4, <2>1, <2>2, TimesAssumption
<1> QED BY <1>2, <1>3, <1>4 DEF Unfinished

LEMMA ThreadKeepsTime ==
  ASSUME ScanInv, NEW q \in Ports, thread(q)
  PROVE  ThreadsInTime' /\ KilledAtExit' /\ OnlyLastPortsCutOff'
<1> DEFINE t == threads[q]
           u == threads'[q]
<1>1. /\ ScanTypeOK /\ mpc # "exited" /\ mpc' = mpc /\ since' = since /\ clock' = clock
      /\ target' = target /\ threads \in [Ports -> Thread] /\ target \in [Ports -> Port]
  BY DEF thread, ScanInv, ScanTypeOK
<1>2. /\ threads' \in [Ports -> Thread]
      /\ \A r \in Ports \ {q} : threads'[r] = threads[r]
      /\ Begun(q) \/ Called(q) \/ Ended(q)
  BY <1>1, ThreadMoves
<1>3. /\ t.at \in {"start", "tcp", "udp"}
      /\ u.born = t.born
      /\ \/ t.at = "start" /\ u.at = "tcp" /\ u.from = clock
         \/ t.at \in {"start", "tcp"} /\ u.at = "udp" /\ u.from = clock
         \/ u.at = "done"
  BY <1>2 DEF Begun, Called, Ended, Advances
<1>4. /\ clock \in Nat /\ t.born \in Nat /\ u.from \in Nat
  BY <1>1, <1>2 DEF ScanTypeOK, Thread
<1>5. Unfinished(t) /\ NotLate(q)
  BY <1>1, <1>3 DEF ScanInv, ThreadsInTime, Unfinished
<1>6. ASSUME u.at = "tcp"
      PROVE  NotLate(q)'
  <2>1. u.from = clock /\ clock <= u.born + Lag
    BY <1>1, <1>3, <1>5, <1>6, LatestMove
  <2>2. Due(q)' = clock + TCP_TIMEOUT + Lag
    BY <1>1, <1>6, <2>1 DEF Due, Timeout, Protocols
  <2>3. clock <= Due(q)'
    BY <1>4, <2>2, TimesAssumption
  <2> QED BY <1>1, <1>6, <2>1, <2>3 DEF NotLate
<1>7. ASSUME u.at = "udp"
      PROVE  NotLate(q)'
  <2>1. u.from = clock /\ clock <= u.born + TCP_TIMEOUT + 2 * Lag
    BY <1>1, <1>3, <1>4, <1>5, <1>7, LatestMove, TimesAssumption
  <2>2. Due(q)' = clock + UDP_TIMEOUT + Lag
    BY <1>1, <1>7, <2>1 DEF Due, Timeout, Protocols
  <2>3. clock <= Due(q)'
    BY <1>4, <2>2, TimesAssumption
  <2> QED BY <1>1, <1>7, <2>1, <2>3 DEF NotLate
<1>8. ThreadsInTime'
  <2> SUFFICES ASSUME NEW r \in Ports, Unfinished(threads'[r])
               PROVE  NotLate(r)'
    BY DEF ThreadsInTime, Unfinished
  <2>1. CASE r = q
    BY <1>3, <1>6, <1>7, <2>1 DEF Unfinished
  <2>2. CASE r # q
    <3>1. threads'[r] = threads[r]
      BY <1>2, <2>2
    <3>2. NotLate(r)
      BY <1>1, <3>1 DEF ScanInv, ThreadsInTime
    <3> QED BY <1>1, <3>1, <3>2 DEF NotLate, Due
  <2> QED BY <2>1, <2>2
<1>9. \A r \in Ports : threads'[r].at # "killed"
  BY <1>1, <1>2, <1>3 DEF ScanInv, KilledAtExit
<1> QED BY <1>8, <1>9 DEF KilledAtExit, OnlyLastPortsCutOff

\* Exit cuts off the threads that were created last.
LEMMA ExitInTime ==
  ASSUME ScanInv, Exit
  PROVE  OnlyLastPortsCutOff'
<1> SUFFICES ASSUME NEW q \in Ports, threads'[q].at = "killed"
             PROVE  since' - threads'[q].born <= TCP_TIMEOUT - GRACE + 3 * Lag
  BY DEF OnlyLastPortsCutOff
<1>1. /\ ScanTypeOK /\ mpc = "sleep" /\ since' = since /\ clock >= since + UDP_TIMEOUT + GRACE
      /\ threads \in [Ports -> Thread] /\ since \in Nat /\ clock \in Nat
  BY TimesAssumption DEF ScanInv, ScanTypeOK, Exit, NapTime
<1>2. Unfinished(threads[q]) /\ threads'[q] = [threads[q] EXCEPT !.at = "killed"]
  BY <1>1 DEF Exit, ScanInv, KilledAtExit
<1>3. threads[q] \in Thread /\ threads'[q].born = threads[q].born /\ threads[q].born \in Nat
  BY <1>1, <1>2 DEF Thread
<1>4. clock <= threads[q].born + TCP_TIMEOUT + UDP_TIMEOUT + 3 * Lag
  BY <1>1, <1>2, LatestMove DEF ScanInv, ThreadsInTime
<1> QED BY <1>1, <1>3, <1>4, TimesAssumption

-----------------------------------------------------------------------------
(* The invariant.                                                          *)

LEMMA ScanInitInv == ScanInit => ScanInv
<1> SUFFICES ASSUME ScanInit PROVE ScanInv
  OBVIOUS
<1>1. \A q \in Ports : threads[q] = NoThread
  BY DEF ScanInit
<1>2. ScanTypeOK
  BY NoThreadType, PortsAssumption, ThreadsAssumption, TargetsAssumption
  DEF ScanInit, ScanTypeOK
<1>3. ReportsTrue /\ OnlyLastPortsCutOff /\ PrintedSoFar /\ KilledAtExit
  BY <1>1, NoThreadType DEF ReportsTrue, OnlyTrueLines, OnlyLastPortsCutOff, PrintedSoFar, HeardSoFar,
                            KilledAtExit
<1>4. ThreadsInTime
  BY <1>1, NoThreadType DEF ThreadsInTime, Unfinished
<1>5. LoopInv
  BY PortsAssumption DEF ScanInit, LoopInv
<1> QED BY <1>2, <1>3, <1>4, <1>5 DEF ScanInv

\* The steps of main before it exits change no thread but the one created.
LEMMA MainInv ==
  ASSUME ScanInv, Startup \/ Acquire \/ Release \/ LoopEnds
  PROVE  ScanInv'
<1>1. /\ ScanTypeOK /\ mpc # "exited" /\ mpc' # "exited"
      /\ clock' = clock /\ target' = target /\ threads' = threads
  BY DEF ScanInv, Startup, Acquire, Release, LoopEnds, Goto
<1>2. ScanTypeOK' /\ LoopInv'
  <2>1. /\ p' \in Nat /\ sem' \in 0..MAX_THREADS
        /\ mpc' \in {"create", "release"} => p' \in Ports
        /\ LoopInv'
    <3>1. /\ p \in Nat /\ p >= start_port /\ start_port \in Nat /\ sem \in 0..MAX_THREADS
          /\ sem = IF mpc \in {"create", "release"} THEN MAX_THREADS - 1 ELSE MAX_THREADS
      BY PortsAssumption DEF ScanInv, ScanTypeOK, LoopInv
    <3>2. CASE Startup
      BY <3>1, <3>2, ThreadsAssumption DEF Startup, Goto, LoopInv
    <3>3. CASE Acquire
      <4>1. p \in Ports
        BY <3>1, <3>3, PortsAssumption DEF Acquire, Ports
      <4> QED BY <3>1, <3>3, <4>1, ThreadsAssumption DEF Acquire, Goto, LoopInv
    <3>4. CASE Release
      BY <3>1, <3>4, ThreadsAssumption DEF Release, Goto, LoopInv
    <3>5. CASE LoopEnds
      BY <3>1, <3>5, ThreadsAssumption DEF LoopEnds, Goto, LoopInv
    <3> QED BY <3>2, <3>3, <3>4, <3>5
  <2>2. /\ since' \in Nat
        /\ mpc' \in {"off", "acquire", "create", "release", "sleep", "exited"}
    BY DEF ScanInv, ScanTypeOK, Startup, Acquire, Release, LoopEnds, Goto
  <2> QED BY <1>1, <2>1, <2>2 DEF ScanTypeOK
<1>3. ReportsTrue' /\ PrintedSoFar'
  BY <1>1 DEF ScanInv, ReportsTrue, PrintedSoFar
<1>4. ThreadsInTime'
  BY <1>1 DEF ScanInv, ThreadsInTime, Unfinished, NotLate, Due
<1>5. KilledAtExit' /\ OnlyLastPortsCutOff'
  BY <1>1 DEF ScanInv, KilledAtExit, OnlyLastPortsCutOff
<1> QED BY <1>2, <1>3, <1>4, <1>5 DEF ScanInv

LEMMA CreateInv ==
  ASSUME ScanInv, Create
  PROVE  ScanInv'
<1>1. /\ ScanTypeOK /\ mpc = "create" /\ mpc' = "release" /\ since' = clock
      /\ clock' = clock /\ target' = target /\ p' = p /\ sem' = sem /\ p \in Ports
      /\ threads \in [Ports -> Thread] /\ clock \in Nat
  BY DEF ScanInv, ScanTypeOK, Create, Goto
<1>2. PICK place \in {"start", "failed"} :
        threads' = [threads EXCEPT ![p] = [NoThread EXCEPT !.at = place,
                                                           !.from = clock, !.born = clock]]
  BY DEF Create
<1>3. /\ \A q \in Ports \ {p} : threads'[q] = threads[q]
      /\ threads'[p] = [NoThread EXCEPT !.at = place, !.from = clock, !.born = clock]
  BY <1>1, <1>2
<1>4. /\ threads'[p] \in Thread
      /\ threads'[p].at = place /\ threads'[p].from = clock /\ threads'[p].born = clock
      /\ threads'[p].printed = {} /\ threads'[p].skipped = {}
      /\ threads'[p].heard["tcp"] = "none" /\ threads'[p].heard["udp"] = "none"
  <2>1. place \in Places
    BY DEF Places
  <2>2. threads'[p] = [at |-> place, from |-> clock, born |-> clock, skipped |-> {},
                       heard |-> [proto \in Protocols |-> "none"], printed |-> {}]
    BY <1>3 DEF NoThread
  <2>3. [proto \in Protocols |-> "none"] \in [Protocols -> {"none", "prompt", "late"}]
    OBVIOUS
  <2>4. threads'[p] \in Thread
    BY <1>1, <2>1, <2>2, <2>3 DEF Thread
  <2> QED BY <2>2, <2>4 DEF Protocols
<1>5. ScanTypeOK' /\ LoopInv'
  <2>1. threads' \in [Ports -> Thread]
    BY <1>1, <1>2, <1>4
  <2> QED BY <1>1, <2>1 DEF ScanInv, ScanTypeOK, LoopInv
<1>6. PrintedSoFar' /\ ReportsTrue'
  <2>1. \A r \in Ports : Report(threads[r], target[r])
    BY ReportOfAll DEF ScanInv
  <2>2. Report(threads'[p], target[p])
    BY <1>4 DEF Report, HeardSoFar, OnlyTrueLines
  <2>3. \A r \in Ports : Report(threads'[r], target'[r])
    BY <1>1, <1>3, <2>1, <2>2
  <2> QED BY <2>3, ReportOfAll DEF PrintedSoFar, ReportsTrue, Report
<1>8. ThreadsInTime'
  <2> SUFFICES ASSUME NEW q \in Ports, Unfinished(threads'[q])
               PROVE  NotLate(q)'
    BY DEF ThreadsInTime, Unfinished
  <2>1. CASE q = p
    <3>1. place = "start"
      BY <1>4, <2>1 DEF Unfinished
    <3>2. Due(q)' = clock + 0 + Lag
      BY <1>4, <2>1, <3>1 DEF Due, Protocols
    <3>3. clock' <= Due(q)'
      BY <1>1, <3>2, TimesAssumption
    <3> QED BY <1>1, <1>4, <2>1, <3>1, <3>3 DEF NotLate
  <2>2. CASE q # p
    <3>1. threads'[q] = threads[q]
      BY <1>3, <2>2
    <3>2. NotLate(q)
      BY <1>1, <3>1 DEF ScanInv, ThreadsInTime
    <3> QED BY <1>1, <3>1, <3>2 DEF NotLate, Due
  <2> QED BY <2>1, <2>2
<1>9. KilledAtExit' /\ OnlyLastPortsCutOff'
  BY <1>1, <1>3, <1>4 DEF ScanInv, KilledAtExit, OnlyLastPortsCutOff
<1> QED BY <1>5, <1>6, <1>8, <1>9 DEF ScanInv

LEMMA ExitInv ==
  ASSUME ScanInv, Exit
  PROVE  ScanInv'
<1>1. /\ ScanTypeOK /\ mpc = "sleep" /\ mpc' = "exited"
      /\ UNCHANGED <<p, sem, since, clock, target>>
      /\ threads \in [Ports -> Thread]
  BY DEF ScanInv, ScanTypeOK, Exit
<1>2. ASSUME NEW q \in Ports
      PROVE  /\ threads'[q] \in Thread
             /\ threads'[q].printed = threads[q].printed
             /\ threads'[q].skipped = threads[q].skipped
             /\ threads'[q].heard = threads[q].heard
             /\ threads'[q].at = threads[q].at \/ threads'[q].at = "killed"
  <2>1. threads'[q] = IF Unfinished(threads[q]) THEN [threads[q] EXCEPT !.at = "killed"]
                                                ELSE threads[q]
    BY DEF Exit
  <2>2. threads[q] \in Thread /\ "killed" \in Places
    BY <1>1 DEF Places
  <2> QED BY <2>1, <2>2 DEF Thread
<1>3. ScanTypeOK' /\ LoopInv'
  <2>1. threads' = [q \in Ports |-> threads'[q]]
    BY DEF Exit
  <2>2. threads' \in [Ports -> Thread]
    BY <1>2, <2>1
  <2> QED BY <1>1, <2>2 DEF ScanInv, ScanTypeOK, LoopInv
<1>4. PrintedSoFar' /\ ReportsTrue'
  <2>1. \A r \in Ports : Report(threads[r], target[r])
    BY ReportOfAll DEF ScanInv
  <2>2. \A r \in Ports : Report(threads'[r], target'[r])
    BY <1>1, <1>2, <2>1, SameReport
  <2> QED BY <2>2, ReportOfAll DEF PrintedSoFar, ReportsTrue, Report
<1>6. ThreadsInTime' /\ KilledAtExit'
  BY <1>1 DEF ThreadsInTime, KilledAtExit
<1> QED BY <1>3, <1>4, <1>6, ExitInTime DEF ScanInv

LEMMA TickInv ==
  ASSUME ScanInv, Tick
  PROVE  ScanInv'
<1>1. /\ ScanTypeOK /\ mpc # "exited" /\ clock' = clock + 1
      /\ UNCHANGED <<mpc, p, sem, since, target, threads>>
      /\ \A q \in Ports : Unfinished(threads[q]) => clock < Due(q)
      /\ threads \in [Ports -> Thread] /\ target \in [Ports -> Port] /\ clock \in Nat
  BY DEF ScanInv, ScanTypeOK, Tick
<1>2. ScanTypeOK' /\ LoopInv'
  BY <1>1 DEF ScanInv, ScanTypeOK, LoopInv
<1>3. ReportsTrue' /\ PrintedSoFar' /\ KilledAtExit' /\ OnlyLastPortsCutOff'
  BY <1>1 DEF ScanInv, ReportsTrue, PrintedSoFar, KilledAtExit, OnlyLastPortsCutOff
<1>4. ThreadsInTime'
  <2> SUFFICES ASSUME NEW q \in Ports, Unfinished(threads[q])
               PROVE  NotLate(q)'
    BY <1>1 DEF ThreadsInTime, Unfinished
  <2>1. NotLate(q) /\ clock < Due(q) /\ Due(q)' = Due(q)
    BY <1>1 DEF ScanInv, ThreadsInTime, Due
  <2>2. Due(q) \in Int
    <3>1. threads[q].from \in Nat
      BY <1>1 DEF Thread
    <3> QED BY <3>1, TimesAssumption DEF Due, Timeout
  <2>3. clock' <= Due(q)'
    BY <1>1, <2>1, <2>2
  <2> QED BY <1>1, <2>1, <2>3 DEF NotLate
<1> QED BY <1>2, <1>3, <1>4 DEF ScanInv

LEMMA ThreadInv ==
  ASSUME ScanInv, NEW q \in Ports, thread(q)
  PROVE  ScanInv'
<1>1. ScanTypeOK' /\ LoopInv'
  <2>1. threads' \in [Ports -> Thread]
    BY ThreadMoves DEF ScanInv
  <2> QED BY <2>1 DEF ScanInv, ScanTypeOK, LoopInv, thread
<1> QED BY <1>1, ThreadPrints, ThreadKeepsTime DEF ScanInv

LEMMA ScanNextInv == ScanInv /\ [ScanNext]_ScanVars => ScanInv'
<1> SUFFICES ASSUME ScanInv, [ScanNext]_ScanVars PROVE ScanInv'
  OBVIOUS
<1>1. CASE Main
  BY <1>1, MainInv, CreateInv, ExitInv DEF Main
<1>2. CASE Tick
  BY <1>2, TickInv
<1>3. CASE \E q \in Ports : thread(q)
  BY <1>3, ThreadInv
<1>6. CASE \E q \in Ports : Answer(q)
  BY <1>6, AnswerInv
<1>4. CASE Again
  <2>1. ScanInit'
    BY <1>4 DEF Again, ScanInit
  <2> QED BY <2>1, ScanInitInv, PTL
<1>5. CASE UNCHANGED ScanVars
  <2>1. ScanTypeOK' /\ LoopInv'
    BY <1>5 DEF ScanVars, ScanInv, ScanTypeOK, LoopInv
  <2>2. ReportsTrue' /\ PrintedSoFar' /\ KilledAtExit' /\ OnlyLastPortsCutOff'
    BY <1>5 DEF ScanVars, ScanInv, ReportsTrue, PrintedSoFar, KilledAtExit, OnlyLastPortsCutOff
  <2>3. ThreadsInTime'
    BY <1>5 DEF ScanVars, ScanInv, ThreadsInTime, Unfinished, NotLate, Due
  <2> QED BY <2>1, <2>2, <2>3 DEF ScanInv
<1> QED BY <1>1, <1>2, <1>3, <1>4, <1>5, <1>6 DEF ScanNext, ScanStep

LEMMA ScanAlways == ScanSpec => []ScanInv
BY ScanInitInv, ScanNextInv, PTL DEF ScanSpec

-----------------------------------------------------------------------------
(* The port scanner: theorems.                                             *)

\* Every variable keeps its type.
THEOREM ScanTypeCorrect == ScanSpec => []ScanTypeOK
<1>1. ScanInv => ScanTypeOK
  BY DEF ScanInv
<1> QED BY <1>1, ScanAlways, PTL

\* Every line of the report is true, and a thread that ends has reported whatever
\* was answered in time, but for the protocol it got no socket for (tcp, udp).
THEOREM ReportsAreTrue == ScanSpec => []ReportsTrue
<1>1. ScanInv => ReportsTrue
  BY DEF ScanInv
<1> QED BY <1>1, ScanAlways, PTL

\* The sleep of main is long enough for all but the last threads (main, thread).
THEOREM EarlyPortsAreScanned == ScanSpec => []OnlyLastPortsCutOff
<1>1. ScanInv => OnlyLastPortsCutOff
  BY DEF ScanInv
<1> QED BY <1>1, ScanAlways, PTL

\* main never waits for a slot: the semaphore limits no number of threads.
THEOREM SlotAlwaysFree == ScanSpec => [](mpc = "acquire" => sem > 0)
<1>1. ScanInv => (mpc = "acquire" => sem > 0)
  BY ThreadsAssumption DEF ScanInv, LoopInv
<1> QED BY <1>1, ScanAlways, PTL

-----------------------------------------------------------------------------
(* All of them, as they are run together.                                  *)

\* Every variable of every program keeps its type in a behaviour of any one.
THEOREM TypesOfAll == FairRunSpec => []TypesOK
<1> DEFINE Inv == IInv /\ WarInv /\ PongInv /\ ScanInv
<1>1. RunInit => Inv
  BY IInvInit, WarInitInv, PongInitInv, ScanInitInv DEF RunInit
<1>2. ASSUME Inv, [RunNext]_RunVars PROVE Inv'
  <2>1. [Next]_vars /\ [WarNext]_WarVars /\ [PongNext]_PongVars /\ [ScanNext]_ScanVars
    BY <1>2 DEF RunNext, RunVars, RunGame, RunWar, RunPong, RunScan
  <2>2. IInv'
    BY <1>2, <2>1, IInvNext
  <2>3. WarInv' /\ PongInv' /\ ScanInv'
    BY <1>2, <2>1, WarNextInv, PongNextInv, ScanNextInv
  <2> QED BY <2>2, <2>3
<1>3. Inv => TypesOK
  <2>1. IInv => TypeOK
    BY TypeOfInv
  <2> QED BY <2>1 DEF TypesOK, WarInv, PongInv, ScanInv
<1> HIDE DEF Inv
<1> QED BY <1>1, <1>2, <1>3, PTL DEF FairRunSpec

===============================================================================
