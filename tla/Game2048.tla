------------------------------ MODULE Game2048 ------------------------------
(***************************************************************************)
(* The game games/2048.cpp: its moves, the tile that appears after every   *)
(* key, the score, the end of a game, and the file of scores.              *)
(*                                                                         *)
(* A step is one pass of the loop that reads keys, or one choice of the    *)
(* menu.  A tile is its number, 0 an empty cell; what is printed is left   *)
(* out, but for the leader that is read back from scores.txt.              *)
(***************************************************************************)
EXTENDS Integers, Sequences

CONSTANTS
  SIZE,       \* of the board
  Players,    \* names that are entered
  Lines,      \* lines of any length to try the rules of a move on
  MaxGames    \* bound: games in the file

ASSUME SizeAssumption == SIZE \in Nat \ {0, 1}
ASSUME BoundsAssumption == Lines \subseteq Seq(Nat) \ {<<>>} /\ MaxGames \in Nat

\* What keyPress returns.  An arrow of the numeric keypad counts as a letter.
\* Any other arrow is two keys without effect, since its first byte, a signed
\* char, never equals 0xE0.
Moves == {"a", "d", "w", "s"}
Keys  == Moves \cup {"q", "other"}

Cells == (1..SIZE) \X (1..SIZE)

NoPlayer == ""
Nobody   == [player |-> NoPlayer, score |-> 0]
Error    == [player |-> "Error.", score |-> 0]

VARIABLES
  screen,  \* "menu", "game", "leaderboard", or "off": the program does not run
  player,  \* local variables of a game
  score,
  board,
  scores,  \* the games in scores.txt
  leader   \* who is displayed as the highest scorer, if anyone

vars == <<screen, player, score, board, scores, leader>>

-----------------------------------------------------------------------------
(* One row or column, from the side its tiles move to.                     *)

\* One pass of a loop that shifts: an empty cell j gets the next tile.
PullAt(line, j) ==
  LET full == {k \in j + 1..Len(line) : line[k] # 0}
      next == CHOOSE k \in full : \A n \in full : k <= n
  IN  IF line[j] # 0 \/ full = {} THEN line
      ELSE [line EXCEPT ![j] = line[next], ![next] = 0]

Shifted(line) ==
  LET after[j \in 0..Len(line) - 1] == IF j = 0 THEN line ELSE PullAt(after[j - 1], j)
  IN  after[Len(line) - 1]

\* Mutant: the second of two merged tiles stays.
MergeAtKeeping(m, j) ==
  IF m.line[j] # m.line[j + 1] \/ m.line[j] = 0 THEN m
  ELSE [line |-> [m.line EXCEPT ![j] = 2 * @], gain |-> m.gain + m.line[j]]

\* Mutant: what was merged may merge with the next tile again.
MergeAtTwice(m, j) ==
  IF m.line[j] # m.line[j + 1] \/ m.line[j] = 0 THEN m
  ELSE [line |-> [m.line EXCEPT ![j] = 0, ![j + 1] = 2 * @], gain |-> m.gain + m.line[j]]

\* Mutant: the score counts the tile that results.
MergeAtDoubled(m, j) ==
  IF m.line[j] # m.line[j + 1] \/ m.line[j] = 0 THEN m
  ELSE [line |-> [m.line EXCEPT ![j] = 2 * @, ![j + 1] = 0], gain |-> m.gain + 2 * m.line[j]]

\* Mutant: += 2 for *= 2.
MergeAtAdding(m, j) ==
  IF m.line[j] # m.line[j + 1] \/ m.line[j] = 0 THEN m
  ELSE [line |-> [m.line EXCEPT ![j] = 2 + @, ![j + 1] = 0], gain |-> m.gain + m.line[j]]

\* One pass of the loop that merges; updateScore is given the old number.
MergeAt(m, j) ==
  IF m.line[j] # m.line[j + 1] \/ m.line[j] = 0 THEN m
  ELSE [line |-> [m.line EXCEPT ![j] = 2 * @, ![j + 1] = 0], gain |-> m.gain + m.line[j]]

Merged(line) ==
  LET after[j \in 0..Len(line) - 1] ==
        IF j = 0 THEN [line |-> line, gain |-> 0] ELSE MergeAt(after[j - 1], j)
  IN  after[Len(line) - 1]

\* The line and what is scored.
Pushed(line) ==
  LET m == Merged(Shifted(line)) IN [line |-> Shifted(m.line), gain |-> m.gain]

-----------------------------------------------------------------------------
(* The board.                                                              *)

\* f[1] + ... + f[n]
SumTo(f, n) ==
  LET upTo[k \in 0..n] == IF k = 0 THEN 0 ELSE upTo[k - 1] + f[k] IN upTo[n]

\* The i-th cell of the n-th line when the tiles move as `key' says.
Cell(key, n, i) ==
  CASE key = "a" -> <<n, i>> [] key = "d" -> <<n, SIZE + 1 - i>>
    [] key = "w" -> <<i, n>> [] key = "s" -> <<SIZE + 1 - i, n>>

Line(b, key, n) == [i \in 1..SIZE |-> b[Cell(key, n, i)]]

\* moveLeft, moveRight, moveUp and moveDown: the board and what is scored.
Moved(b, key) ==
  LET pushed  == [n \in 1..SIZE |-> Pushed(Line(b, key, n))]
      new(c)  == LET n == CHOOSE n \in 1..SIZE : \E i \in 1..SIZE : Cell(key, n, i) = c
                 IN  pushed[n].line[CHOOSE i \in 1..SIZE : Cell(key, n, i) = c]
  IN  [board |-> [c \in Cells |-> new(c)],
       gain  |-> SumTo([n \in 1..SIZE |-> pushed[n].gain], SIZE)]

isBoardFull(b) == \A c \in Cells : b[c] # 0

\* The boards spawnNumber may leave.
Spawns(b) ==
  IF isBoardFull(b) THEN {b} ELSE {[b EXCEPT ![c] = 2] : c \in {d \in Cells : b[d] = 0}}

\* Two tiles, maybe in one cell, and a third in the corner, maybe over one.
InitialBoards ==
  {[[c \in Cells |-> IF c \in {d, e} THEN 2 ELSE 0] EXCEPT ![<<1, 1>>] = 4] :
     d \in Cells, e \in Cells}

\* Mutant: only neighbours in a row are compared.
RowsOver(b) ==
  \A c \in Cells : b[c] # 0 /\ (c[2] < SIZE => b[c] # b[<<c[1], c[2] + 1>>])

isGameOver(b) ==
  \A c \in Cells :
    /\ b[c] # 0
    /\ c[2] < SIZE => b[c] # b[<<c[1], c[2] + 1>>]
    /\ c[1] < SIZE => b[c] # b[<<c[1] + 1, c[2]>>]

-----------------------------------------------------------------------------
(* The program.                                                            *)

\* Mutant: >= for >.
BetterOrEqual(best, game) == IF game.score >= best.score /\ game.score > 0 THEN game ELSE best

\* One game that displayLeaderboard reads.
Better(best, game) == IF game.score > best.score THEN game ELSE best

Empty == [c \in Cells |-> 0]

\* Who has the highest score of all, and more than 0.
Best(games) ==
  LET best[k \in 0..Len(games)] == IF k = 0 THEN Nobody ELSE Better(best[k - 1], games[k])
  IN  best[Len(games)]

\* The variables of a game go with it.
NoGame == player' = NoPlayer /\ score' = 0 /\ board' = Empty

\* saveScore, unless scores.txt cannot be opened, and back to the menu.
Finish(s) ==
  /\ screen' = "menu"
  /\ scores' \in {scores, Append(scores, [player |-> player, score |-> s])}
  /\ NoGame

Launch ==
  /\ screen = "off"
  /\ screen' = "menu"
  /\ UNCHANGED <<player, score, board, scores, leader>>

NewGame(p) ==
  /\ screen = "menu" /\ Len(scores) < MaxGames
  /\ screen' = "game"
  /\ player' = p /\ score' = 0
  /\ board' \in InitialBoards
  /\ UNCHANGED <<scores, leader>>

\* A key is read and acted on, and then a tile appears, whatever the key was.
Press(key) ==
  /\ screen = "game" /\ ~isGameOver(board)
  /\ LET moved == IF key \in Moves THEN Moved(board, key) ELSE [board |-> board, gain |-> 0]
     IN  \/ key # "q" /\ board' \in Spawns(moved.board) /\ score' = score + moved.gain
            /\ UNCHANGED <<screen, player, scores>>
         \/ key = "q" /\ Finish(score + moved.gain)
  /\ UNCHANGED leader

GameOver ==
  /\ screen = "game" /\ isGameOver(board)
  /\ Finish(score)
  /\ UNCHANGED leader

\* Nobody is looked for if scores.txt cannot be opened.
displayLeaderboard ==
  /\ screen = "menu"
  /\ screen' = "leaderboard"
  /\ leader' \in {Best(scores), Error}
  /\ UNCHANGED <<player, score, board, scores>>

Continue ==
  /\ screen = "leaderboard"
  /\ screen' = "menu"
  /\ leader' = Nobody
  /\ UNCHANGED <<player, score, board, scores>>

\* "quit" in the menu, or the window is closed, maybe in the middle of a game.
Leave ==
  /\ screen # "off"
  /\ screen' = "off"
  /\ NoGame
  /\ leader' = Nobody
  /\ UNCHANGED scores

Init ==
  /\ screen = "off"
  /\ player = NoPlayer /\ score = 0 /\ board = Empty
  /\ scores = <<>>
  /\ leader = Nobody

Next ==
  \/ Launch \/ GameOver \/ displayLeaderboard \/ Continue \/ Leave
  \/ \E p \in Players : NewGame(p)
  \/ \E key \in Keys : Press(key)

Spec == Init /\ [][Next]_vars

-----------------------------------------------------------------------------
(* Properties.                                                             *)

\* 2^k
Power[k \in Nat] == IF k = 0 THEN 1 ELSE 2 * Power[k - 1]

\* A tile is empty or a power of two.
IsTile(v) == v = 0 \/ \E k \in 1..SIZE * SIZE + 1 : v = Power[k]

\* The type of each variable; only tiles are on the board.
TypeOK ==
  /\ screen \in {"menu", "game", "leaderboard", "off"}
  /\ player \in Players \cup {NoPlayer} /\ score \in Nat
  /\ board \in [Cells -> Nat] /\ \A c \in Cells : IsTile(board[c])
  /\ scores \in Seq([player : Players, score : Nat])
  /\ leader \in [player : Players, score : Nat \ {0}] \cup {Nobody, Error}

\* What merging twos up to a tile has scored: k - 1 levels of half the tile.
Worth(v) ==
  IF v = 0 THEN 0 ELSE LET k == CHOOSE n \in 1..SIZE * SIZE + 1 : v = Power[n] IN (k - 1) * Power[k - 1]

\* The sum over all cells, row by row.
BoardSum(b) == SumTo([r \in 1..SIZE |-> SumTo([c \in 1..SIZE |-> b[<<r, c>>]], SIZE)], SIZE)
Total(b)    == BoardSum(b)

\* The board tells the score, whatever was pressed: every merge was counted
\* once, but the 4 of initializeBoard, which is worth 2, was not merged.
ScoreMatchesBoard ==
  screen = "game" =>
    score + 2 = BoardSum([c \in Cells |-> Worth(board[c])])

\* Moves and merges lose no tile and make none up: a key adds the one tile that
\* spawnNumber places, unless it finds the board full.
TilesConserved ==
  [][screen = "game" /\ screen' = "game" =>
       \/ Total(board') = Total(board) + 2
       \/ isBoardFull(board') /\ Total(board') = Total(board)]_vars

\* The game ends when no key has an effect any more, and not before.
Ineffective(b) == isBoardFull(b) /\ \A key \in Moves : Moved(b, key).board = b
GameOverExact == screen = "game" => (isGameOver(board) <=> Ineffective(board))

\* The tiles among the first k cells, in their order.
Tiles(line, k) ==
  LET tiles[n \in 0..k] ==
        IF n = 0 THEN <<>>
        ELSE IF line[n] = 0 THEN tiles[n - 1] ELSE Append(tiles[n - 1], line[n])
  IN  tiles[k]

\* The rules of the game for the tiles from the i-th on: what is nearest to the
\* side merges first, and no tile merges twice in one move.
Rules(line) ==
  LET tiles == Tiles(line, Len(line))
      from[i \in 1..Len(tiles) + 2] ==
        IF i > Len(tiles) THEN <<>>
        ELSE IF i < Len(tiles) /\ tiles[i] = tiles[i + 1]
             THEN <<2 * tiles[i]>> \o from[i + 2]
             ELSE <<tiles[i]>> \o from[i + 1]
  IN  [i \in 1..Len(line) |-> IF i <= Len(from[1]) THEN from[1][i] ELSE 0]

\* Long lines, which need not be on any board.
LinesByTheRules == \A line \in Lines : Pushed(line).line = Rules(line)

\* The three loops of a move together do what the rules say to every line.
MovesByTheRules ==
  /\ LinesByTheRules
  /\ screen = "game" =>
       \A key \in Moves :
         LET new == Moved(board, key).board
         IN  \A n \in 1..SIZE : Line(new, key, n) = Rules(Line(board, key, n))

\* Who is displayed has the highest score of all the games saved so far, and
\* was the first to reach it.  Nobody is only if no game scored, or scores.txt could
\* not be opened.
LeaderIsFirstBest ==
  screen = "leaderboard" /\ leader # Error =>
    \/ leader = Nobody /\ \A j \in DOMAIN scores : scores[j].score = 0
    \/ \E i \in DOMAIN scores :
         /\ leader = scores[i] /\ scores[i].score > 0
         /\ \A j \in DOMAIN scores : /\ scores[j].score <= scores[i].score
                                     /\ j < i => scores[j].score < scores[i].score

=============================================================================
