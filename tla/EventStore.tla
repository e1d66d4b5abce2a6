----------------------------- MODULE EventStore ------------------------------
(***************************************************************************)
(* What the EventStore trait promises of append, and what Service takes    *)
(* from it: at one instant the batch is checked against its expectation    *)
(* and stored whole, numbered on from the stream's version, or the call    *)
(* fails and the log is as it was.                                         *)
(***************************************************************************)
EXTENDS EventLog

CONSTANTS
    Batch,       \* the event lists callers append
    Expectation, \* the ExpectedRevisions they append them with
    MayLose      \* whether the last appends may not survive a crash

VARIABLES
    log,    \* every stored event, in global order
    answer  \* how the last append to end ended

vars == <<log, answer>>

Request == [stream : Stream, expected : Expectation, batch : Batch]

Init ==
    /\ log = <<>>
    /\ answer = Stored(CHOOSE r \in Request : TRUE, <<>>, 0)

Fits(r) == Passes(r.expected, CurrentVersion(log, r.stream))

(* "Appending an empty slice is a no-op", whatever is expected. *)
AppendNothing(r) ==
    /\ r.batch = <<>>
    /\ answer' = Stored(r, <<>>, 0)
    /\ UNCHANGED log

Accept(r) ==
    /\ r.batch # <<>>
    /\ Fits(r)
    /\ log' = Appended(log, r.stream, r.batch)
    /\ answer' = Stored(r, Recorded(log, r.stream, r.batch), Len(log))

Refuse(r) ==
    /\ r.batch # <<>>
    /\ ~Fits(r)
    /\ answer' = Failed(r, "Conflict")
    /\ UNCHANGED log

Fail(r) ==
    /\ \E error \in {"Serialization", "Backend"} : answer' = Failed(r, error)
    /\ UNCHANGED log

(* A crash takes back the newest events and no others. *)
Lose ==
    /\ MayLose
    /\ \E n \in 0..Len(log) : log' = SubSeq(log, 1, n)
    /\ UNCHANGED answer

(* An answer names the request it is to. *)
Next ==
    \/ Lose
    \/ \E r \in Request :
        /\ answer'.to = r
        /\ AppendNothing(r) \/ Accept(r) \/ Refuse(r) \/ Fail(r)

Spec == Init /\ [][Next]_vars
=============================================================================
