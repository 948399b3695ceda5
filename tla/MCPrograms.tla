------------------------------ MODULE MCPrograms ------------------------------
(***************************************************************************)
(* The programs that run alone and share nothing: 2048, Space Wars, ping   *)
(* pong and the port scanner.  A behaviour is one of one of them, and the  *)
(* others stay where they begin.                                           *)
(***************************************************************************)
EXTENDS Game2048, SpaceWars, PingPong, PortScan, TLC

VARIABLE program

RunVars == <<program, vars, WarVars, PongVars, ScanVars>>

\* Lines as long as those of the code.
LinesOfFour == [1..4 -> {0, 2, 4}]

\* Hosts on which the ports behave in every way, and one port takes both waits.
Does(tcp, udp) == [tcp |-> tcp, udp |-> udp]
SomeTargets ==
  {1 :> Does(FALSE, "silent") @@ 2 :> Does(TRUE, "answers"),
   1 :> Does(FALSE, "refuses") @@ 2 :> Does(FALSE, "overlong")}

RunInit ==
  /\ program \in {"2048", "spaceWars", "PingPong", "PortScan"}
  /\ Init /\ WarInit /\ PongInit /\ ScanInit

RunGame == program = "2048"      /\ Next     /\ UNCHANGED <<program, WarVars, PongVars, ScanVars>>
RunWar  == program = "spaceWars" /\ WarNext  /\ UNCHANGED <<program, vars, PongVars, ScanVars>>
RunPong == program = "PingPong"  /\ PongNext /\ UNCHANGED <<program, vars, WarVars, ScanVars>>
RunScan == program = "PortScan"  /\ ScanNext /\ UNCHANGED <<program, vars, WarVars, PongVars>>

RunNext == RunGame \/ RunWar \/ RunPong \/ RunScan

\* The fairness of FairScanSpec; the games claim none.
FairRunSpec ==
  /\ RunInit /\ [][RunNext]_RunVars
  /\ WF_RunVars(program = "PortScan" /\ ScanStep /\ UNCHANGED <<program, vars, WarVars, PongVars>>)

\* The type of each variable of each program.
TypesOK == TypeOK /\ WarTypeOK /\ PongTypeOK /\ ScanTypeOK

=============================================================================
