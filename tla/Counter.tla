------------------------------- MODULE Counter -------------------------------
(***************************************************************************)
(* examples/counter and examples/restate-counter: the Counter aggregate,   *)
(* in process and as a Virtual Object.  CounterHandle is given to Service  *)
(* as its Handle.                                                          *)
(***************************************************************************)
EXTENDS RestateObject, SequencesExt

CONSTANTS
    By,             \* the amounts in commands; i64, so they may be negative
    Bits,           \* the bits of the value: 64
    ChecksOverflow  \* whether Increment looks before it adds: TRUE in examples/counter,
                    \* FALSE in restate-counter; both where both use one store

Half == 2^(Bits - 1)

ASSUME CounterAssumption ==
    /\ Bits \in Nat \ {0}
    /\ Half \in Nat \ {0}  \* for the provers, which know nothing of powers
    /\ By \subseteq (-Half)..(Half - 1)
    /\ ChecksOverflow \subseteq BOOLEAN

(* CounterCommand and CounterEvent *)
CounterCommand == [kind : {"Increment", "Decrement"}, by : By]
                  \cup [kind : {"Reset"}, by : {0}]

CounterEvent == [kind : {"Incremented", "Decremented"}, by : By]
                \cup [kind : {"Reset"}, by : {0}]

(* i64, in a build that wraps; one that checks for overflow panics here. *)
Wrapped(n) == ((n + Half) % (2 * Half)) - Half

(* Aggregate::apply *)
ApplyEvent(value, event) ==
    CASE event.kind = "Incremented" -> Wrapped(value + event.by)
      [] event.kind = "Decremented" -> Wrapped(value - event.by)
      [] event.kind = "Reset"       -> 0

Value(history) == FoldLeft(ApplyEvent, 0, history)

(* Aggregate::handle *)
CounterDecides(command, value, checked) ==
    CASE command.kind = "Increment" ->
           IF checked /\ value + command.by # Wrapped(value + command.by)
           THEN Rejected
           ELSE Ok(<<[kind |-> "Incremented", by |-> command.by]>>)
      [] command.kind = "Decrement" ->
           IF Wrapped(value - command.by) < 0
           THEN Rejected
           ELSE Ok(<<[kind |-> "Decremented", by |-> command.by]>>)
      [] command.kind = "Reset" -> Ok(<<[kind |-> "Reset", by |-> 0]>>)

CounterHandle(command, history) ==
    {CounterDecides(command, Value(history), checked) : checked \in ChecksOverflow}

-----------------------------------------------------------------------------
(* Properties. *)

(* The counter "refuses to go negative": however durable and in-process    *)
(* commands race and are run again, the recorded history of a counter goes *)
(* below zero only by an Increment, of a negative amount or past the end   *)
(* of i64; never by decrements that were each legal when decided.          *)
NegativeOnlyByIncrement ==
    \A s \in Stream : \A v \in 1..CurrentVersion(log, s) :
        LET before == Value(PrefixAt(s, v - 1))
            event  == History(log, s)[v]
        IN before >= 0 /\ Value(PrefixAt(s, v)) < 0 =>
              /\ event.kind = "Incremented"
              /\ event.by < 0 \/ before + event.by >= Half
=============================================================================
