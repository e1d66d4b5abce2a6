----------------------------- MODULE GlobalRead -----------------------------
(***************************************************************************)
(* EventStore::read_all: pages through the log in global order.  Only the  *)
(* name of an event decides whether it is read, so the log is given here   *)
(* as the sequence of its events' names, and a page as the set of the      *)
(* positions in it: global_position makes their order.                     *)
(***************************************************************************)
EXTENDS Integers, Sequences, FiniteSets

(* Mutant: the event at the position is given again. *)
MatchingInclusive(names, wanted, after) ==
    {p \in DOMAIN names : p >= after /\ names[p] \in wanted}

(* The events an enum with these names is given, strictly after a position. *)
Matching(names, wanted, after) ==
    {p \in DOMAIN names : p > after /\ names[p] \in wanted}

(* Mutant: the limit is ignored. *)
ReadAllUnlimited(names, wanted, after, limit) == Matching(names, wanted, after)

(* The limit is looked at after an event is taken: limit 0 yields one, too. *)
ReadAll(names, wanted, after, limit) ==
    LET matching == Matching(names, wanted, after)
    IN {p \in matching :
            Cardinality({q \in matching : q < p}) < (IF limit = 0 THEN 1 ELSE limit)}

(* Mutant: pages are walked from their end. *)
FirstDescending(page) == CHOOSE p \in page : \A q \in page : q <= p

(* The event of a page that is handled next. *)
First(page) == CHOOSE p \in page : \A q \in page : p <= q

(* A page in the order it is handed out: ORDER BY global_position. *)
Ascending(page) ==
    [k \in 1..Cardinality(page) |->
        CHOOSE p \in page : Cardinality({q \in page : q < p}) = k - 1]
=============================================================================
