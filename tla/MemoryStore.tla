----------------------------- MODULE MemoryStore -----------------------------
(***************************************************************************)
(* MemoryStore's event log.  Every operation holds the store's mutex from  *)
(* its first look at the log to its last, so each is one step here.  Its   *)
(* documents are modelled where they are used: Service's snapshots,        *)
(* Subscriptions' checkpoint and markers, Projections' read model.         *)
(***************************************************************************)
EXTENDS EventLog, SequencesExt

CONSTANTS
    Batch,        \* the event lists callers append
    Expectation,  \* the ExpectedRevisions they append them with
    Unencodable,  \* payloads whose Serialize fails
    MaxEvents     \* bound: the length the log may reach

ASSUME MemoryStoreAssumption ==
    /\ Batch \subseteq Seq(Payload)
    /\ Expectation \subseteq [kind : {"Any", "NoStream", "Exact"}, version : Nat]
    /\ Unencodable \subseteq Payload
    /\ MaxEvents \in Nat
    /\ Stream # {} /\ Batch # {} /\ Expectation # {}

VARIABLES
    log,    \* Inner's log
    answer  \* what the last append returned

vars == <<log, answer>>

Request == [stream : Stream, expected : Expectation, batch : Batch]

TypeOK == log \in Seq(StoredEvent) /\ answer \in Answer(Request)

Init ==
    /\ log = <<>>
    /\ answer = Stored(CHOOSE r \in Request : TRUE, <<>>, 0)

(* The loop pushes each event as soon as it is encoded, and `?` leaves it  *)
(* at the first that is not: the log keeps those before it.                *)
Pushed(batch) ==
    LET bad == SelectInSeq(batch, LAMBDA payload : payload \in Unencodable)
    IN IF bad = 0 THEN batch ELSE SubSeq(batch, 1, bad - 1)

AppendNothing(r) ==
    /\ r.batch = <<>>
    /\ answer' = Stored(r, <<>>, 0)
    /\ UNCHANGED log

Fits(r) == Passes(r.expected, CurrentVersion(log, r.stream))

AppendBatch(r) ==
    /\ r.batch # <<>>
    /\ Len(log) + Len(r.batch) <= MaxEvents
    /\ Fits(r)
    /\ log' = Appended(log, r.stream, Pushed(r.batch))
    /\ answer' = IF Pushed(r.batch) = r.batch
                 THEN Stored(r, Recorded(log, r.stream, r.batch), Len(log))
                 ELSE Failed(r, "Serialization")

(* Mutant: a batch that does not fit is answered for as an empty one. *)
AppendConflictsQuietly(r) ==
    /\ r.batch # <<>>
    /\ ~Fits(r)
    /\ answer' = Stored(r, <<>>, 0)
    /\ UNCHANGED log

AppendConflicts(r) ==
    /\ r.batch # <<>>
    /\ ~Fits(r)
    /\ answer' = Failed(r, "Conflict")
    /\ UNCHANGED log

Next == \E r \in Request : AppendNothing(r) \/ AppendBatch(r) \/ AppendConflicts(r)

Spec == Init /\ [][Next]_vars

-----------------------------------------------------------------------------
(* Mutant: the event at the version is loaded again. *)
MatchesInclusive(s, after) == {p \in PositionsOf(log, s) : log[p].version >= after}

(* load_from's filter of the whole log, as it is coded. *)
Matches(s, after) == {p \in PositionsOf(log, s) : log[p].version > after}

(* sort_by_key on the version, which is stable: where the event at p goes. *)
Place(positions, p) ==
    Cardinality({q \in positions :
        \/ log[q].version < log[p].version
        \/ log[q].version = log[p].version /\ q < p}) + 1

Sorted(positions) ==
    [k \in 1..Cardinality(positions) |->
        log[CHOOSE p \in positions : Place(positions, p) = k]]

TailByScan(s, after) == Sorted(Matches(s, after))

-----------------------------------------------------------------------------
(* Properties. *)

(* The scan of the log, whatever expectations streams were written with    *)
(* and whatever a failed append left behind, yields exactly the versions   *)
(* after the given one, none missing and none twice: what EventLog's       *)
(* LoadFrom, and so Service, takes a stream to be.                         *)
TailsContiguous ==
    \A s \in Stream, after \in 0..(Len(log) + 1) :
        TailByScan(s, after) = LoadFrom(log, s, after)

(* The answer tells where the events are: each stands in the log, as       *)
(* returned, at the global position returned, and nothing after them.      *)
AnswersTellPlaces ==
    answer.tag = "Ok" /\ answer.events # <<>> =>
        SubSeq(log, answer.after + 1, Len(log)) = answer.events

(* Every append of events that encode, and every other one that does not   *)
(* fit, keeps the EventStore trait's promise, on any log that is left by   *)
(* appends of events that do not encode.                                   *)
Contract == INSTANCE EventStore WITH MayLose <- FALSE

ImplementsEventStore ==
    /\ Contract!Init
    /\ [][answer'.tag # "Serialization" => Contract!Next]_vars

(* MemoryStore is "behaviourally identical" to the persistent backends,    *)
(* which append in one transaction: an append that fails writes nothing.   *)
FailedAppendsWriteNothing == [][answer'.tag # "Ok" => log' = log]_vars
=============================================================================
