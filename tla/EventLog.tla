------------------------------ MODULE EventLog ------------------------------
(***************************************************************************)
(* The globally ordered, append-only event log both stores keep, and the   *)
(* reads that EventStore offers on it.                                     *)
(*                                                                         *)
(* A log is a sequence of stored events; an event's global_position is its *)
(* index.  A stream is one (aggregate_type, stream_id) pair.  Ids,         *)
(* timestamps and metadata are carried by the store and read by nobody in  *)
(* src/, so a stored event is its stream, its version and its payload.     *)
(***************************************************************************)
EXTENDS Integers, Sequences, FiniteSetsExt

CONSTANTS Stream, Payload

StoredEvent == [stream : Stream, version : Nat \ {0}, payload : Payload]

(* The log positions that hold the events of stream s. *)
PositionsOf(log, s) == {p \in DOMAIN log : log[p].stream = s}

VersionsOf(log, s) == {log[p].version : p \in PositionsOf(log, s)}

(* COALESCE(MAX(version), 0) over the stream. *)
CurrentVersion(log, s) == Max(VersionsOf(log, s) \cup {0})

-----------------------------------------------------------------------------
(* ExpectedRevision: what an append demands of the stream's version. *)

AnyRevision == [kind |-> "Any", version |-> 0]
NoStream    == [kind |-> "NoStream", version |-> 0]
Exact(v)    == [kind |-> "Exact", version |-> v]

(* ExpectedRevision::check *)
Passes(expected, actual) ==
    \/ expected.kind = "Any"
    \/ expected.kind = "NoStream" /\ actual = 0
    \/ expected.kind = "Exact" /\ actual = expected.version

-----------------------------------------------------------------------------
(* append: the batch goes to the end of the log, numbered from the stream's *)
(* current version on.  What it returns is the batch as stored.            *)

(* Mutant: a batch starts at the current version. *)
NumberedFromCurrent(s, version, payloads) ==
    [k \in 1..Len(payloads) |->
        [stream |-> s, version |-> version + k - 1, payload |-> payloads[k]]]

NumberedFrom(s, version, payloads) ==
    [k \in 1..Len(payloads) |->
        [stream |-> s, version |-> version + k, payload |-> payloads[k]]]

Recorded(log, s, payloads) ==
    NumberedFrom(s, CurrentVersion(log, s), payloads)

Appended(log, s, payloads) == log \o Recorded(log, s, payloads)

(* How an append ends: with the events as stored, at the global positions  *)
(* after + 1, after + 2 and so on; or with an error.  It is kept together  *)
(* with the request it answers.                                            *)
Answer(requests) ==
    [to : requests, tag : {"Ok", "Conflict", "Serialization", "Backend"},
     events : Seq(StoredEvent), after : Nat]

Failed(r, error) == [to |-> r, tag |-> error, events |-> <<>>, after |-> 0]

(* Mutant: positions are taken one too far. *)
StoredOneFurther(r, events, after) ==
    [to |-> r, tag |-> "Ok", events |-> events, after |-> after + 1]

Stored(r, events, after) ==
    [to |-> r, tag |-> "Ok", events |-> events, after |-> after]

-----------------------------------------------------------------------------
(* load_from: the stored events of s after a version, ORDER BY version.    *)
(* The versions of a stream are contiguous (Contiguous below), so the k-th *)
(* one is version after + k.  load is load_from with after = 0.            *)

PositionAt(log, s, v) == CHOOSE p \in PositionsOf(log, s) : log[p].version = v

LoadFrom(log, s, after) ==
    [k \in 1..(CurrentVersion(log, s) - after) |->
        log[PositionAt(log, s, after + k)]]

Load(log, s) == LoadFrom(log, s, 0)

Payloads(stored) == [k \in DOMAIN stored |-> stored[k].payload]

(* The events of stream s, which are all of the stream's state there is. *)
History(log, s) == Payloads(Load(log, s))

-----------------------------------------------------------------------------
(* What the EventStore trait demands of a log: the versions of a stream    *)
(* are contiguous from 1, none is given twice, and they grow with the      *)
(* global position.                                                        *)
Contiguous(log) ==
    \A s \in Stream :
        /\ VersionsOf(log, s) = 1..CurrentVersion(log, s)
        /\ \A p, q \in PositionsOf(log, s) :
              p < q => log[p].version < log[q].version

=============================================================================
