--------------------------- MODULE MCModule2Device ---------------------------
(* Small instances of Module2Device: message 1 is longer than message 0, as *)
(* "module2 message 10\n" is than "module2 message 9\n".                    *)
EXTENDS Module2Device

Lengths == [n \in 0..MaxMessages |-> IF n = 0 THEN 1 ELSE 3]

=============================================================================
