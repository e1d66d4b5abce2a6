-------------------------- MODULE MCDurableAccount --------------------------
(***************************************************************************)
(* An instance of DurableAccount for TLC: one account is opened and money  *)
(* paid in.                                                                *)
(***************************************************************************)
EXTENDS DurableAccount

CONSTANT alice

MCInvocation == {Method(1, alice, [kind |-> "Open", amount |-> 0]),
                 Method(2, alice, [kind |-> "Deposit", amount |-> 1])}
=============================================================================
