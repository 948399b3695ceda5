CONSTANTS
  SIZE = 2
  Players = {"p1", "p2"}
  Lines <- LinesOfFour
  MaxGames = 2

  WIDTH = 2
  HEIGHT = 6
  MAX_BULLETS = 2
  MAX_ENEMIES = 2
  MaxKills = 2

  MAX_WIDTH = 20
  MAX_HEIGHT = 10
  PADDLE_MAX_HEIGHT = 3
  PaddleRange = 4

  start_port = 1
  end_port = 2
  MAX_THREADS = 1
  TCP_TIMEOUT = 1
  UDP_TIMEOUT = 2
  GRACE = 1
  Targets <- SomeTargets
  Lag = 1

SPECIFICATION FairRunSpec
INVARIANT TypesOK
INVARIANT ScoreMatchesBoard
INVARIANT GameOverExact
INVARIANT MovesByTheRules
INVARIANT LeaderIsFirstBest
INVARIANT RamEndsGame
INVARIANT BallInField
 
INVARIANT OnlyLastPortsCutOff
PROPERTY TilesConserved
PROPERTY ShotsHit
PROPERTY ScanEnds
