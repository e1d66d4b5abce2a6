------------------------------ MODULE MCService ------------------------------
(***************************************************************************)
(* Instances of Service for TLC: the Acc aggregate of                      *)
(* tests/store_conformance.rs, with a command that records two events and  *)
(* one that must leave something over, whose injected environment decides  *)
(* whether it records an event or none.                                    *)
(***************************************************************************)
EXTENDS Service, TLC

MCPayload == {"Added", "Removed"}

Total(state) ==
    Cardinality({k \in DOMAIN state : state[k] = "Added"})
      - Cardinality({k \in DOMAIN state : state[k] = "Removed"})

MCHandle(command, state) ==
    CASE command = "Add"    -> {Ok(<<"Added">>)}
      [] command = "AddTwo" -> {Ok(<<"Added", "Added">>)}
      [] command = "Charge" -> IF Total(state) < 2 THEN {Rejected}
                               ELSE {Ok(<<>>), Ok(<<"Removed">>)}

TaskSymmetry == Permutations(Task)
=============================================================================
