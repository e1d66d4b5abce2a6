----------------------------- MODULE SqliteStore -----------------------------
(***************************************************************************)
(* SqliteStore: several stores open on one database file, in one process   *)
(* or in many.  A store does one operation at a time, behind its async     *)
(* mutex, but an append is a transaction of several statements with awaits *)
(* between them, and the stores' transactions interleave as SQLite lets    *)
(* them: each reads the snapshot its first statement took, one at a time   *)
(* may write, and a snapshot that is no longer the newest cannot write.    *)
(*                                                                         *)
(* Of the documents, one is kept: a checkpoint, which holds a global       *)
(* position its writer has read.                                           *)
(***************************************************************************)
EXTENDS EventLog

CONSTANTS
    Store,        \* the SqliteStores open on the file
    Batch,        \* the event lists callers append
    Expectation,  \* the ExpectedRevisions they append them with
    Unencodable,  \* payloads whose Serialize fails
    MaxEvents,    \* bound: no append is begun that may take the log further
    MaxLosses     \* bound: how often the power is lost

ASSUME SqliteStoreAssumption ==
    /\ Batch \subseteq Seq(Payload)
    /\ Expectation \subseteq [kind : {"Any", "NoStream", "Exact"}, version : Nat]
    /\ Unencodable \subseteq Payload
    /\ MaxEvents \in Nat
    /\ MaxLosses \in Nat
    /\ Stream # {} /\ Batch # {} /\ Expectation # {}

VARIABLES
    log,        \* the committed rows of events
    checkpoint, \* the committed document; 0 where there is none
    reverts,    \* the committed states a loss of power may go back to
    losses,     \* how often it did
    pc,         \* what each store is at
    request,    \* the append it is at
    pending,    \* the rows its open transaction has inserted
    position,   \* the position it is to save
    stale,      \* stores with an open snapshot that is not the newest
    writer,     \* the stores with an open write transaction: one at most
    answer      \* how the last append to end ended

database == <<log, checkpoint, reverts, losses>>
vars == <<log, checkpoint, reverts, losses, pc, request, pending, position,
          stale, writer, answer>>

Request == [stream : Stream, expected : Expectation, batch : Batch]

TypeOK ==
    /\ log \in Seq(StoredEvent)
    /\ checkpoint \in Nat
    /\ reverts \subseteq [log : Seq(StoredEvent), checkpoint : Nat]
    /\ losses \in 0..MaxLosses
    /\ pc \in [Store -> {"idle", "query", "insert", "save"}]
    /\ request \in [Store -> Request]
    /\ pending \in [Store -> Seq(StoredEvent)]
    /\ position \in [Store -> Nat]
    /\ stale \subseteq Store
    /\ writer \subseteq Store /\ Cardinality(writer) <= 1
    /\ answer \in Answer(Request)

NoRequest == CHOOSE r \in Request : TRUE

Init ==
    /\ log = <<>>
    /\ checkpoint = 0
    /\ reverts = {}
    /\ losses = 0
    /\ pc = [c \in Store |-> "idle"]
    /\ request = [c \in Store |-> NoRequest]
    /\ pending = [c \in Store |-> <<>>]
    /\ position = [c \in Store |-> 0]
    /\ stale = {}
    /\ writer = {}
    /\ answer = Stored(NoRequest, <<>>, 0)

Goto(c, label) == pc' = [pc EXCEPT ![c] = label]

(* The operation is over, and with it the store's transaction. *)
End(c) ==
    /\ Goto(c, "idle")
    /\ request' = [request EXCEPT ![c] = NoRequest]
    /\ pending' = [pending EXCEPT ![c] = <<>>]
    /\ position' = [position EXCEPT ![c] = 0]
    /\ writer' = writer \ {c}

(* The Transaction is dropped without a commit: SQLite rolls it back. *)
Rollback(c) ==
    /\ End(c)
    /\ stale' = stale \ {c}
    /\ UNCHANGED database

(* The committed state a loss of power may go back to from now on, as      *)
(* synchronous = NORMAL does not wait for the disk.                        *)
Undone == IF losses < MaxLosses THEN {[log |-> log, checkpoint |-> checkpoint]} ELSE {}

(* A committed write: every other open snapshot is now an old one. *)
Written(c) ==
    /\ End(c)
    /\ stale' = {d \in Store \ {c} : pc[d] = "insert"}
    /\ reverts' = reverts \cup Undone
    /\ UNCHANGED losses

-----------------------------------------------------------------------------
(* append of no events: it returns before it waits for the mutex. *)
AppendNothing ==
    /\ \E r \in Request : r.batch = <<>> /\ answer' = Stored(r, <<>>, 0)
    /\ UNCHANGED <<database, pc, request, pending, position, stale, writer>>

(* append: the mutex is taken and a deferred transaction begun. *)
BeginAppend(c) ==
    /\ pc[c] = "idle"
    /\ \E r \in Request :
        /\ r.batch # <<>>
        /\ Len(log) + Len(r.batch) <= MaxEvents
        /\ request' = [request EXCEPT ![c] = r]
    /\ Goto(c, "query")
    /\ UNCHANGED <<database, pending, position, stale, writer, answer>>

Fits(c) == Passes(request[c].expected, CurrentVersion(log, request[c].stream))

(* Mutant: the version is read and not checked. *)
CheckNothing(c) ==
    /\ pc[c] = "query"
    /\ Goto(c, "insert")
    /\ UNCHANGED <<database, request, pending, position, stale, writer, answer>>

(* SELECT MAX(version), which takes the snapshot, and the check on it. *)
Check(c) ==
    /\ pc[c] = "query"
    /\ Fits(c)
    /\ Goto(c, "insert")
    /\ UNCHANGED <<database, request, pending, position, stale, writer, answer>>

CheckConflicts(c) ==
    /\ pc[c] = "query"
    /\ ~Fits(c)
    /\ answer' = Failed(request[c], "Conflict")
    /\ Rollback(c)

Rows(c) == Recorded(log, request[c].stream, request[c].batch)

(* SQLITE_BUSY, or SQLITE_BUSY_SNAPSHOT: the transaction has read, so the  *)
(* busy timeout does not apply to its first write.                         *)
Blocked(c) == c \notin writer /\ (c \in stale \/ writer # {})

NextRow(c) == Rows(c)[Len(pending[c]) + 1]

Inserting(c) == pc[c] = "insert" /\ Len(pending[c]) < Len(request[c].batch)

(* INSERT the next event of the batch.  As the snapshot is the newest, its *)
(* version is free: the UNIQUE index has nothing to refuse.                *)
Insert(c) ==
    /\ Inserting(c)
    /\ NextRow(c).payload \notin Unencodable
    /\ ~Blocked(c)
    /\ pending' = [pending EXCEPT ![c] = Append(@, NextRow(c))]
    /\ writer' = writer \cup {c}
    /\ UNCHANGED <<database, pc, request, position, stale, answer>>

(* Mutant: what was inserted before the failure is committed. *)
InsertFailsHalfway(c) ==
    /\ Inserting(c)
    /\ NextRow(c).payload \in Unencodable
    /\ answer' = Failed(request[c], "Serialization")
    /\ log' = log \o pending[c]
    /\ Written(c)
    /\ UNCHANGED checkpoint

InsertFails(c) ==
    /\ Inserting(c)
    /\ \/ NextRow(c).payload \in Unencodable /\ answer' = Failed(request[c], "Serialization")
       \/ NextRow(c).payload \notin Unencodable /\ Blocked(c)
          /\ answer' = Failed(request[c], "Backend")
    /\ Rollback(c)

CommitAppend(c) ==
    /\ pc[c] = "insert"
    /\ Len(pending[c]) = Len(request[c].batch)
    /\ log' = log \o pending[c]
    /\ answer' = Stored(request[c], pending[c], Len(log))
    /\ Written(c)
    /\ UNCHANGED checkpoint

-----------------------------------------------------------------------------
(* Mutant: positions are given out before their commit. *)
BeginSaveUncommitted(c) ==
    /\ pc[c] = "idle"
    /\ \E d \in Store : \E p \in 1..(Len(log) + Len(pending[d])) :
          position' = [position EXCEPT ![c] = p]
    /\ Goto(c, "save")
    /\ UNCHANGED <<database, request, pending, stale, writer, answer>>

(* save: one statement, which does wait for another writer, 5 s long. *)
BeginSave(c) ==
    /\ pc[c] = "idle"
    /\ \E p \in (1..Len(log)) \ {checkpoint} : position' = [position EXCEPT ![c] = p]
    /\ Goto(c, "save")
    /\ UNCHANGED <<database, request, pending, stale, writer, answer>>

Save(c) ==
    /\ pc[c] = "save"
    /\ writer = {}
    /\ checkpoint' = position[c]
    /\ Written(c)
    /\ UNCHANGED <<log, answer>>

SaveTimesOut(c) ==
    /\ pc[c] = "save"
    /\ writer # {}
    /\ Rollback(c)
    /\ UNCHANGED answer

-----------------------------------------------------------------------------
(* The future is dropped at an await, or its process dies. *)
Drop(c) ==
    /\ pc[c] # "idle"
    /\ Rollback(c)
    /\ UNCHANGED answer

(* The log file reaches the disk. *)
Sync ==
    /\ reverts # {}
    /\ reverts' = {}
    /\ UNCHANGED <<log, checkpoint, losses, pc, request, pending, position,
                   stale, writer, answer>>

Survivors == reverts \cup {[log |-> log, checkpoint |-> checkpoint]}

(* Power is lost: what was committed since the last Sync may be, too, in   *)
(* the order it was committed in.                                          *)
PowerLoss ==
    /\ losses < MaxLosses
    /\ losses' = losses + 1
    /\ \E state \in Survivors :
        /\ log' = state.log
        /\ checkpoint' = state.checkpoint
    /\ reverts' = {}
    /\ pc' = [c \in Store |-> "idle"]
    /\ request' = [c \in Store |-> NoRequest]
    /\ pending' = [c \in Store |-> <<>>]
    /\ position' = [c \in Store |-> 0]
    /\ stale' = {}
    /\ writer' = {}
    /\ UNCHANGED answer

Step(c) ==
    \/ Check(c) \/ CheckConflicts(c) \/ Insert(c) \/ InsertFails(c) \/ CommitAppend(c)
    \/ Save(c) \/ SaveTimesOut(c)

Next ==
    \/ AppendNothing
    \/ \E c \in Store : BeginAppend(c) \/ BeginSave(c) \/ Step(c) \/ Drop(c)
    \/ Sync
    \/ PowerLoss

Spec == Init /\ [][Next]_vars

-----------------------------------------------------------------------------
(* Properties. *)

(* What an open transaction is about to commit still fits the log: no      *)
(* other store's write slips between its check and its commit.             *)
WritersAreCurrent ==
    \A c \in writer :
        /\ Fits(c)
        /\ pending[c] = SubSeq(Rows(c), 1, Len(pending[c]))

(* Events and documents go through one write-ahead log: after any crash a  *)
(* checkpoint names a position that is still in the log, so no event that  *)
(* is recorded anew at a position is taken for one already handled.        *)
CheckpointWithinLog == checkpoint <= Len(log)

(* However transactions interleave, and whichever of them roll back, the   *)
(* stores on one file keep the EventStore trait's promise together; a loss *)
(* of power takes back the newest events, and the versions they had go to  *)
(* the next append.                                                        *)
Contract == INSTANCE EventStore WITH MayLose <- MaxLosses > 0

ImplementsEventStore == Contract!Spec

(* "A busy timeout so brief writer contention waits instead of erroring":  *)
(* with no other fault, no append ends in StoreError::Backend.             *)
ContentionWaits == answer.tag # "Backend"
=============================================================================
