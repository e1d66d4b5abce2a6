----------------------------- MODULE MCEvolution -----------------------------
(***************************************************************************)
(* An instance of Evolution for TLC: three releases; deposits gain a field *)
(* in each, openings in the last, which also has closings.                 *)
(***************************************************************************)
EXTENDS Evolution

MCEventShape(v, t) ==
    CASE t = "Deposited" -> v
      [] t = "Opened"    -> IF v = 3 THEN 2 ELSE 1
      [] t = "Closed"    -> IF v = 3 THEN 1 ELSE 0

MCStateShape(v) == v

MCByType == [t \in {"Opened", "Deposited", "Closed"} |->
                CASE t = "Deposited" -> <<1, 2>>
                  [] t = "Opened"    -> <<1>>
                  [] t = "Closed"    -> <<>>]
=============================================================================
