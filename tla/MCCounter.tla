------------------------------ MODULE MCCounter ------------------------------
(***************************************************************************)
(* Instances of Counter for TLC: invocations of one restate-counter        *)
(* object, next to in-process calls.                                       *)
(***************************************************************************)
EXTENDS Counter

CONSTANT c1

Invoke(handler, kind, by) ==
    [id |-> kind, key |-> c1, handler |-> handler, command |-> [kind |-> kind, by |-> by]]

MCBy == {-1, 1}

MCInvocation == {Invoke("apply", "Increment", 1), Invoke("submit", "Decrement", 1),
                 Invoke("get", "Reset", 0)}

Ask(mode, kind, by) ==
    [stream |-> c1, mode |-> mode, command |-> [kind |-> kind, by |-> by]]

MCLocalRequest == {Ask("execute_with_retry", "Decrement", 1),
                   Ask("execute_snapshotting", "Increment", -1)}
=============================================================================
