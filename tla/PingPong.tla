------------------------------- MODULE PingPong -------------------------------
(***************************************************************************)
(* The game games/PingPong.c: a ball between a wall and a paddle.  A step  *)
(* is one pass of the loop of main, which moves the ball (update) and then *)
(* reads a key, if one was pressed (move).  It ends with the process only. *)
(***************************************************************************)
EXTENDS Integers

CONSTANTS
  MAX_WIDTH,          \* of the field
  MAX_HEIGHT,
  PADDLE_MAX_HEIGHT,
  PaddleRange         \* bound: rows the paddle may get beyond the field

ASSUME FieldAssumption ==
  /\ MAX_WIDTH \in Nat /\ MAX_WIDTH >= 3 /\ MAX_HEIGHT \in Nat /\ MAX_HEIGHT >= 3
  /\ PADDLE_MAX_HEIGHT \in Nat /\ PaddleRange \in Nat

VARIABLES
  ball,      \* [x, y]
  dir,       \* [x, y], each 1 or -1
  paddle_y   \* the paddle's first row

PongVars == <<ball, dir, paddle_y>>

Centre == [x |-> MAX_WIDTH \div 2, y |-> MAX_HEIGHT \div 2]

\* Mutant: y is not turned at the lower edge.
TurnsUpperOnly(y, d) == IF y <= 0 THEN -d ELSE d

Turns(y, d) == IF y <= 0 \/ y >= MAX_HEIGHT - 1 THEN -d ELSE d

AtPaddle(b) == b.x = 1 /\ b.y >= paddle_y /\ b.y < paddle_y + PADDLE_MAX_HEIGHT

\* The end of update: the ball that got past the paddle starts again, and one
\* at the wall turns.
Settled(b, d) ==
  LET at == IF b.x <= 0 THEN [ball |-> Centre, dir |-> [x |-> 1, y |-> 1]]
                        ELSE [ball |-> b, dir |-> d]
  IN  [at EXCEPT !.dir.x = IF at.ball.x >= MAX_WIDTH - 1 THEN -@ ELSE @]

update ==
  LET moved  == [x |-> ball.x + dir.x, y |-> ball.y + dir.y]
      turned == [x |-> IF AtPaddle(moved) THEN -dir.x ELSE dir.x,
                 y |-> Turns(moved.y, dir.y)]
      end    == Settled(moved, turned)
  IN  ball' = end.ball /\ dir' = end.dir

\* move, with the limit of each key tested for the other one.
Move(key) ==
  paddle_y' = IF key = "w" /\ paddle_y < MAX_HEIGHT THEN paddle_y - 1
              ELSE IF key = "s" /\ paddle_y > 0 THEN paddle_y + 1
              ELSE paddle_y

PongInit ==
  /\ ball = Centre
  /\ dir = [x |-> 1, y |-> 1]
  /\ paddle_y = MAX_HEIGHT \div 2

\* "other" is any other key, or none.
Pass(key) ==
  /\ update
  /\ Move(key)
  /\ paddle_y' \in -PaddleRange..MAX_HEIGHT + PaddleRange

PongNext == \E key \in {"w", "s", "other"} : Pass(key)

PongSpec == PongInit /\ [][PongNext]_PongVars

-----------------------------------------------------------------------------
(* Properties.                                                             *)

\* The type of each variable.
PongTypeOK ==
  /\ ball \in [x : Int, y : Int]
  /\ dir \in [x : {-1, 1}, y : {-1, 1}]
  /\ paddle_y \in Int

\* The ball stays in the field and never sticks to an edge, wherever the paddle
\* is: each direction is turned at most once at an edge, although update first
\* moves the ball and turns it afterwards, and a ball that is put back into the
\* centre is compared with the wall again.
BallInField ==
  /\ ball.x \in 1..MAX_WIDTH - 1 /\ ball.y \in 0..MAX_HEIGHT - 1
  /\ ball.x = MAX_WIDTH - 1 => dir.x = -1
  /\ ball.y = 0 => dir.y = 1
  /\ ball.y = MAX_HEIGHT - 1 => dir.y = -1

=============================================================================
