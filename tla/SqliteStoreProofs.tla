-------------------------- MODULE SqliteStoreProofs --------------------------
(***************************************************************************)
(* What SqliteStore keeps for any number of stores on one file, however    *)
(* their transactions interleave and however often the power is lost.      *)
(***************************************************************************)
EXTENDS SqliteStore, EventLogProofs, FiniteSetTheorems

(* What the store's transaction has read and inserted is what an append    *)
(* to the log as it is now would read and insert.                          *)
Current(c) ==
    /\ Fits(c)
    /\ Len(pending[c]) <= Len(request[c].batch)
    /\ pending[c] = SubSeq(Rows(c), 1, Len(pending[c]))

(* SQLite's isolation: only the writer has rows of its own, a store whose  *)
(* snapshot is old never is the writer, and the others are current.  A     *)
(* transaction has events to insert, so it only commits as the writer.     *)
Isolated(c) ==
    /\ pc[c] \in {"query", "insert"} => request[c].batch # <<>>
    /\ c \in stale \cup writer => pc[c] = "insert"
    /\ c \in stale => c \notin writer
    /\ c \notin writer => pending[c] = <<>>
    /\ pc[c] = "insert" /\ c \notin stale => Current(c)
    /\ pc[c] = "save" => position[c] <= Len(log)

(* A state that a loss of power may bring back. *)
Restorable(state) ==
    /\ Sound(state.log)
    /\ \E n \in 0..Len(log) : state.log = SubSeq(log, 1, n)
    /\ state.checkpoint <= Len(state.log)

SInv ==
    /\ TypeOK
    /\ \A c, d \in writer : c = d
    /\ Sound(log)
    /\ CheckpointWithinLog
    /\ \A state \in reverts : Restorable(state)
    /\ \A c \in Store : Isolated(c)

-----------------------------------------------------------------------------
(* A set with no two elements has at most one. *)
LEMMA AtMostOne ==
    ASSUME NEW S, \A x, y \in S : x = y
    PROVE  Cardinality(S) \in Nat /\ Cardinality(S) <= 1
<1>1. CASE S = {}
    BY <1>1, FS_EmptySet
<1>2. CASE S # {}
    <2>1. PICK x : x \in S
        BY <1>2
    <2>2. S = {x}
        BY <2>1
    <2> QED BY <2>2, FS_Singleton
<1> QED BY <1>1, <1>2

(* What a request is made of. *)
LEMMA Requests ==
    /\ NoRequest \in Request
    /\ \A r \in Request : r.stream \in Stream /\ r.expected \in Expectation
                          /\ r.batch \in Batch /\ r.batch \in Seq(Payload)
                          /\ Len(r.batch) \in Nat
<1>1. PICK s \in Stream, e \in Expectation, b \in Batch : TRUE
    BY SqliteStoreAssumption
<1>2. [stream |-> s, expected |-> e, batch |-> b] \in Request
    BY <1>1 DEF Request
<1>3. NoRequest \in Request
    BY <1>2 DEF NoRequest
<1>4. ASSUME NEW r \in Request
      PROVE  r.stream \in Stream /\ r.expected \in Expectation /\ r.batch \in Batch
    BY <1>4 DEF Request
<1>5. ASSUME NEW b2 \in Batch
      PROVE  b2 \in Seq(Payload) /\ Len(b2) \in Nat
    <2>1. b2 \in Seq(Payload)
        BY SqliteStoreAssumption
    <2> QED BY <2>1, LenProperties
<1> QED BY <1>3, <1>4, <1>5

(* What a store at an append is to insert. *)
LEMMA RowsAre ==
    ASSUME TypeOK, Sound(log), NEW c \in Store
    PROVE  /\ request[c] \in Request
           /\ Rows(c) \in Seq(StoredEvent)
           /\ Len(Rows(c)) = Len(request[c].batch)
           /\ pending[c] \in Seq(StoredEvent)
           /\ Len(pending[c]) \in Nat
<1>1. request[c] \in Request /\ pending[c] \in Seq(StoredEvent)
    BY DEF TypeOK
<1>2. request[c].stream \in Stream /\ request[c].batch \in Seq(Payload)
    BY <1>1, Requests
<1>3. Rows(c) \in Seq(StoredEvent) /\ Len(Rows(c)) = Len(request[c].batch)
    BY <1>2, RecordedIs DEF Rows
<1> QED BY <1>1, <1>3, LenProperties

(* Only the newest state is written to, and a commit writes what an append *)
(* to it would.                                                            *)
LEMMA CommitAppends ==
    ASSUME SInv, NEW c \in Store, CommitAppend(c)
    PROVE  /\ c \in writer /\ c \notin stale
           /\ Fits(c)
           /\ pending[c] = Rows(c)
           /\ log' = Appended(log, request[c].stream, request[c].batch)
           /\ answer' = Stored(request[c], Rows(c), Len(log))
           /\ checkpoint' = checkpoint
           /\ Sound(log')
           /\ \A d \in Store : d # c => d \notin writer /\ pending[d] = <<>>
<1>1. TypeOK /\ Sound(log) /\ Isolated(c)
    BY DEF SInv
<1>2. /\ request[c] \in Request
      /\ Rows(c) \in Seq(StoredEvent)
      /\ Len(Rows(c)) = Len(request[c].batch)
    BY <1>1, RowsAre
<1>3. pc[c] = "insert" /\ Len(pending[c]) = Len(request[c].batch)
    BY DEF CommitAppend
<1>4. request[c].stream \in Stream /\ request[c].batch \in Seq(Payload) /\ request[c].batch # <<>>
    BY <1>1, <1>2, <1>3, Requests DEF Isolated
<1>5. pending[c] # <<>>
    BY <1>3, <1>4, EmptySeq, LenProperties
<1>6. c \in writer /\ c \notin stale
    BY <1>1, <1>5 DEF Isolated
<1>7. Current(c)
    BY <1>1, <1>3, <1>6 DEF Isolated
<1>8. pending[c] = Rows(c)
    <2>1. pending[c] = SubSeq(Rows(c), 1, Len(Rows(c)))
        BY <1>2, <1>3, <1>7 DEF Current
    <2>2. SubSeq(Rows(c), 1, Len(Rows(c))) = Rows(c)
        BY <1>2, SubSeqFull
    <2> QED BY <2>1, <2>2
<1>9. log' = Appended(log, request[c].stream, request[c].batch)
    BY <1>8 DEF CommitAppend, Appended, Rows
<1>10. Sound(log')
    BY <1>1, <1>4, <1>9, AppendKeepsSound
<1>11. ASSUME NEW d \in Store, d # c PROVE d \notin writer /\ pending[d] = <<>>
    <2>1. d \notin writer
        BY <1>6, <1>11 DEF SInv
    <2>2. Isolated(d)
        BY DEF SInv
    <2> QED BY <2>1, <2>2 DEF Isolated
<1> QED BY <1>6, <1>7, <1>8, <1>9, <1>10, <1>11 DEF CommitAppend, Current

-----------------------------------------------------------------------------
(* Type correctness. *)

(* What an append may be answered. *)
LEMMA AnswersTyped ==
    ASSUME NEW r \in Request
    PROVE  /\ \A es \in Seq(StoredEvent), n \in Nat : Stored(r, es, n) \in Answer(Request)
           /\ \A e \in {"Conflict", "Serialization", "Backend"} : Failed(r, e) \in Answer(Request)
    BY EmptySeq DEF Stored, Failed, Answer

(* The invariant holds of an empty file. *)
LEMMA EmptyStates == Init => SInv
<1> SUFFICES ASSUME Init PROVE SInv
    OBVIOUS
<1>1. NoRequest \in Request
    BY Requests
<1>2. <<>> \in Seq(StoredEvent) /\ Len(<<>>) = 0
    BY EmptySeq
<1>3. answer \in Answer(Request)
    BY <1>1, <1>2, AnswersTyped DEF Init
<1>4. \A c, d \in writer : c = d
    BY DEF Init
<1>5. Cardinality(writer) <= 1
    BY <1>4, AtMostOne
<1>6. TypeOK
    BY <1>1, <1>2, <1>3, <1>5, SqliteStoreAssumption DEF Init, TypeOK
<1>7. Sound(log)
    BY EmptyLog DEF Init
<1>8. \A c \in Store : Isolated(c)
    BY DEF Init, Isolated
<1> QED BY <1>2, <1>4, <1>6, <1>7, <1>8 DEF SInv, Init, CheckpointWithinLog

(* Where a store whose operation is over is left. *)
LEMMA EndTyped ==
    ASSUME TypeOK, NEW c \in Store, End(c)
    PROVE  /\ pc' \in [Store -> {"idle", "query", "insert", "save"}]
           /\ request' \in [Store -> Request]
           /\ pending' \in [Store -> Seq(StoredEvent)]
           /\ position' \in [Store -> Nat]
           /\ writer' \subseteq Store
           /\ pc'[c] = "idle" /\ pending'[c] = <<>>
           /\ \A d \in Store \ {c} : /\ pc'[d] = pc[d] /\ request'[d] = request[d]
                                     /\ pending'[d] = pending[d] /\ position'[d] = position[d]
<1>1. NoRequest \in Request /\ <<>> \in Seq(StoredEvent)
    BY Requests, EmptySeq
<1> QED BY <1>1 DEF TypeOK, End, Goto

(* Every step is a commit of an append, of a save, a rollback, a step of   *)
(* one store's own, the write-ahead log's reaching the disk, a loss of     *)
(* power, or no step.                                                      *)
RollsBack(c) == CheckConflicts(c) \/ InsertFails(c) \/ SaveTimesOut(c) \/ Drop(c)

(* The kinds of steps. *)
LEMMA Kinds ==
    ASSUME [Next]_vars
    PROVE  \/ \E c \in Store : \/ BeginAppend(c) \/ BeginSave(c) \/ Check(c) \/ Insert(c)
                               \/ CommitAppend(c) \/ Save(c) \/ RollsBack(c)
           \/ AppendNothing
           \/ Sync
           \/ PowerLoss
           \/ UNCHANGED vars
    BY DEF Next, Step, RollsBack

(* A transaction that fails is one that was open, and is rolled back. *)
LEMMA RollsBackIs ==
    ASSUME TypeOK, NEW c \in Store, RollsBack(c)
    PROVE  Rollback(c) /\ pc[c] # "idle" /\ answer' \in Answer(Request)
<1>1. answer \in Answer(Request) /\ request[c] \in Request
    BY DEF TypeOK
<1>2. \A e \in {"Conflict", "Serialization", "Backend"} : Failed(request[c], e) \in Answer(Request)
    BY <1>1, AnswersTyped
<1>3. CASE CheckConflicts(c)
    BY <1>2, <1>3 DEF CheckConflicts
<1>4. CASE InsertFails(c)
    BY <1>2, <1>4 DEF InsertFails, Inserting
<1>5. CASE SaveTimesOut(c) \/ Drop(c)
    BY <1>1, <1>5 DEF SaveTimesOut, Drop
<1> QED BY <1>3, <1>4, <1>5 DEF RollsBack

(* There is never a second writer. *)
LEMMA WriterStep ==
    ASSUME SInv, [Next]_vars
    PROVE  (\A c, d \in writer : c = d)' /\ (Cardinality(writer) <= 1)'
<1>1. \A c, d \in writer : c = d
    BY DEF SInv
<1>2. writer' \subseteq writer \/ (\E c \in Store : Insert(c))
    <2>1. ASSUME NEW c \in Store, BeginAppend(c) \/ BeginSave(c) \/ Check(c)
          PROVE  writer' = writer
        BY <2>1 DEF BeginAppend, BeginSave, Check
    <2>2. ASSUME NEW c \in Store, CommitAppend(c) \/ Save(c) \/ RollsBack(c)
          PROVE  writer' = writer \ {c}
        BY <2>2 DEF CommitAppend, Save, RollsBack, CheckConflicts, InsertFails, SaveTimesOut,
                    Drop, Rollback, Written, End
    <2>3. CASE AppendNothing \/ Sync \/ PowerLoss \/ UNCHANGED vars
        BY <2>3 DEF AppendNothing, Sync, PowerLoss, vars
    <2> QED BY <2>1, <2>2, <2>3, Kinds
<1>3. ASSUME NEW c \in Store, Insert(c) PROVE \A d, e \in writer' : d = e
    <2>1. writer' = writer \cup {c} /\ (c \in writer \/ writer = {})
        BY <1>3 DEF Insert, Blocked
    <2> QED BY <2>1, <1>1
<1>4. \A c, d \in writer' : c = d
    BY <1>1, <1>2, <1>3
<1>5. Cardinality(writer') <= 1
    BY <1>4, AtMostOne
<1> QED BY <1>4, <1>5

(* Where a loss of power may go back to is a state of the file. *)
LEMMA UndoneTyped ==
    ASSUME TypeOK
    PROVE  Undone \subseteq [log : Seq(StoredEvent), checkpoint : Nat]
    BY DEF TypeOK, Undone

(* Types are kept. *)
LEMMA TypeStep ==
    ASSUME SInv, [Next]_vars
    PROVE  TypeOK'
<1> USE DEF TypeOK
<1>1. TypeOK /\ Sound(log) /\ Cardinality(writer') <= 1
    BY WriterStep DEF SInv
<1>2. ASSUME NEW c \in Store, BeginAppend(c) PROVE TypeOK'
    BY <1>1, <1>2 DEF BeginAppend, Goto, database
<1>3. ASSUME NEW c \in Store, BeginSave(c) PROVE TypeOK'
    <2>1. Len(log) \in Nat
        BY <1>1, LenProperties
    <2>2. position' \in [Store -> Nat]
        BY <1>1, <1>3, <2>1 DEF BeginSave
    <2> QED BY <1>1, <1>3, <2>2 DEF BeginSave, Goto, database
<1>4. ASSUME NEW c \in Store, Check(c) PROVE TypeOK'
    BY <1>1, <1>4 DEF Check, Goto, database
<1>5. ASSUME NEW c \in Store, Insert(c) PROVE TypeOK'
    <2>1. /\ Rows(c) \in Seq(StoredEvent) /\ Len(Rows(c)) = Len(request[c].batch)
          /\ pending[c] \in Seq(StoredEvent) /\ Len(pending[c]) \in Nat
        BY <1>1, RowsAre
    <2>2. Len(pending[c]) < Len(request[c].batch)
        BY <1>5 DEF Insert, Inserting
    <2>3. Len(Rows(c)) \in Nat
        BY <2>1, LenProperties
    <2>4. Len(pending[c]) + 1 \in 1..Len(Rows(c))
        BY <2>1, <2>2, <2>3
    <2>5. NextRow(c) \in StoredEvent
        BY <2>1, <2>4, ElementOfSeq DEF NextRow
    <2>6. Append(pending[c], NextRow(c)) \in Seq(StoredEvent)
        BY <2>1, <2>5, AppendProperties
    <2>7. pending' \in [Store -> Seq(StoredEvent)]
        BY <1>1, <1>5, <2>6 DEF Insert
    <2> QED BY <1>1, <1>5, <2>7 DEF Insert, database
<1>6. ASSUME NEW c \in Store, CommitAppend(c) PROVE TypeOK'
    <2>1. End(c) /\ losses' = losses /\ checkpoint' = checkpoint /\ stale' \subseteq Store
          /\ reverts' = reverts \cup Undone
        BY <1>6 DEF CommitAppend, Written
    <2>2. /\ Sound(log')
          /\ answer' = Stored(request[c], Rows(c), Len(log))
        BY <1>6, CommitAppends
    <2>3. answer' \in Answer(Request)
        BY <1>1, <2>2, RowsAre, AnswersTyped, LenProperties DEF Sound
    <2>4. log' \in Seq(StoredEvent)
        BY <2>2 DEF Sound
    <2> QED BY <1>1, <2>1, <2>3, <2>4, EndTyped, UndoneTyped
<1>7. ASSUME NEW c \in Store, Save(c) PROVE TypeOK'
    <2>1. End(c) /\ losses' = losses /\ log' = log /\ answer' = answer /\ stale' \subseteq Store
          /\ checkpoint' = position[c] /\ reverts' = reverts \cup Undone
        BY <1>7 DEF Save, Written
    <2> QED BY <1>1, <2>1, EndTyped, UndoneTyped
<1>8. ASSUME NEW c \in Store, RollsBack(c) PROVE TypeOK'
    <2>1. Rollback(c) /\ answer' \in Answer(Request)
        BY <1>1, <1>8, RollsBackIs
    <2>2. End(c) /\ stale' \subseteq stale /\ UNCHANGED <<log, checkpoint, reverts, losses>>
        BY <2>1 DEF Rollback, database
    <2> QED BY <1>1, <2>1, <2>2, EndTyped
<1>9. CASE Sync
    BY <1>1, <1>9 DEF Sync
<1>10. CASE PowerLoss
    <2>1. NoRequest \in Request /\ <<>> \in Seq(StoredEvent)
        BY Requests, EmptySeq
    <2>2. \A state \in Survivors : state.log \in Seq(StoredEvent) /\ state.checkpoint \in Nat
        BY <1>1 DEF Survivors
    <2>3. log' \in Seq(StoredEvent) /\ checkpoint' \in Nat
        BY <2>2, <1>10 DEF PowerLoss
    <2>4. losses' \in 0..MaxLosses
        BY <1>1, <1>10, SqliteStoreAssumption DEF PowerLoss
    <2> QED BY <1>1, <1>10, <2>1, <2>3, <2>4 DEF PowerLoss
<1>11. CASE UNCHANGED vars
    BY <1>1, <1>11 DEF vars
<1>12. CASE AppendNothing
    <2>1. answer' \in Answer(Request)
        BY <1>12, AnswersTyped, EmptySeq DEF AppendNothing
    <2> QED BY <1>1, <1>12, <2>1 DEF AppendNothing, database
<1> QED BY <1>2, <1>3, <1>4, <1>5, <1>6, <1>7, <1>8, <1>9, <1>10, <1>11, <1>12, Kinds

-----------------------------------------------------------------------------
(* How the committed state changes. *)

(* The log has a length. *)
LEMMA Lengths ==
    ASSUME SInv
    PROVE  log \in Seq(StoredEvent) /\ Len(log) \in Nat
    BY LenProperties DEF SInv, Sound

(* A step commits an append, a save, goes back to a state that power may   *)
(* take, or leaves the committed state alone.                              *)
LEMMA DatabaseSteps ==
    ASSUME SInv, [Next]_vars
    PROVE  \/ \E c \in Store : CommitAppend(c) /\ reverts' = reverts \cup Undone
           \/ \E c \in Store : Save(c) /\ reverts' = reverts \cup Undone
           \/ PowerLoss
           \/ log' = log /\ checkpoint' = checkpoint /\ reverts' \subseteq reverts
<1>1. TypeOK
    BY DEF SInv
<1>2. ASSUME NEW c \in Store, BeginAppend(c) \/ BeginSave(c) \/ Check(c) \/ Insert(c)
      PROVE  UNCHANGED database
    BY <1>2 DEF BeginAppend, BeginSave, Check, Insert
<1>3. ASSUME NEW c \in Store, RollsBack(c) PROVE UNCHANGED database
    BY <1>1, <1>3, RollsBackIs DEF Rollback
<1>4. UNCHANGED database => log' = log /\ checkpoint' = checkpoint /\ reverts' \subseteq reverts
    BY DEF database
<1>5. CASE AppendNothing \/ Sync \/ UNCHANGED vars
    BY <1>5 DEF AppendNothing, Sync, vars, database
<1>6. ASSUME NEW c \in Store, CommitAppend(c) \/ Save(c)
      PROVE  reverts' = reverts \cup Undone
    BY <1>6 DEF CommitAppend, Save, Written
<1> QED BY <1>2, <1>3, <1>4, <1>5, <1>6, Kinds

(* The state a commit replaces may be brought back after it, and so may    *)
(* those before it.                                                        *)
LEMMA RestorableOn ==
    ASSUME SInv, log' \in Seq(StoredEvent), NEW es \in Seq(StoredEvent), log' = log \o es,
           NEW state \in reverts \cup Undone
    PROVE  Restorable(state)'
<1>1. log \in Seq(StoredEvent) /\ Len(log) \in Nat /\ Len(es) \in Nat /\ Sound(log)
    BY Lengths, LenProperties DEF SInv
<1>2. Len(log') = Len(log) + Len(es)
    BY <1>1, ConcatProperties
<1>3. \E n \in 0..Len(log) : state.log = SubSeq(log, 1, n)
    <2>1. CASE state \in reverts
        BY <2>1 DEF SInv, Restorable
    <2>2. CASE state \in Undone
        <3>1. state.log = log
            BY <2>2 DEF Undone
        <3>2. log = SubSeq(log, 1, Len(log)) /\ Len(log) \in 0..Len(log)
            BY <1>1, SubSeqFull
        <3> QED BY <3>1, <3>2
    <2> QED BY <2>1, <2>2
<1>4. Sound(state.log) /\ state.checkpoint <= Len(state.log)
    <2>1. CASE state \in reverts
        BY <2>1 DEF SInv, Restorable
    <2>2. CASE state \in Undone
        BY <2>2, <1>1 DEF SInv, Undone, CheckpointWithinLog
    <2> QED BY <2>1, <2>2
<1>5. PICK n \in 0..Len(log) : state.log = SubSeq(log, 1, n)
    BY <1>3
<1>6. SubSeq(log', 1, n) = SubSeq(log, 1, n)
    BY <1>1, SubSeqBeforeConcat
<1>7. n \in 0..Len(log')
    BY <1>1, <1>2
<1> QED BY <1>4, <1>5, <1>6, <1>7 DEF Restorable

(* A loss of power leaves a prefix of the log, and a checkpoint within it. *)
LEMMA LostLog ==
    ASSUME SInv, PowerLoss
    PROVE  /\ Sound(log')
           /\ checkpoint' <= Len(log')
           /\ \E n \in 0..Len(log) : log' = SubSeq(log, 1, n)
<1>1. log \in Seq(StoredEvent) /\ Len(log) \in Nat /\ Sound(log) /\ checkpoint <= Len(log)
    BY Lengths DEF SInv, CheckpointWithinLog
<1>2. PICK state \in Survivors : log' = state.log /\ checkpoint' = state.checkpoint
    BY DEF PowerLoss
<1>3. CASE state \in reverts
    BY <1>2, <1>3 DEF SInv, Restorable
<1>4. CASE state = [log |-> log, checkpoint |-> checkpoint]
    <2>1. log = SubSeq(log, 1, Len(log)) /\ Len(log) \in 0..Len(log)
        BY <1>1, SubSeqFull
    <2> QED BY <1>1, <1>2, <1>4, <2>1
<1> QED BY <1>2, <1>3, <1>4 DEF Survivors

(* What is committed, and what power may take it back to, stays sound. *)
LEMMA DatabaseStep ==
    ASSUME SInv, [Next]_vars
    PROVE  /\ Sound(log')
           /\ CheckpointWithinLog'
           /\ (\A state \in reverts : Restorable(state))'
<1>1. /\ log \in Seq(StoredEvent) /\ Len(log) \in Nat /\ Sound(log)
      /\ TypeOK /\ checkpoint \in Nat /\ checkpoint <= Len(log)
    BY Lengths DEF SInv, CheckpointWithinLog, TypeOK
<1>2. ASSUME NEW c \in Store, CommitAppend(c), reverts' = reverts \cup Undone
      PROVE  /\ Sound(log')
             /\ checkpoint' <= Len(log')
             /\ \A state \in reverts' : Restorable(state)'
    <2>1. /\ Sound(log') /\ checkpoint' = checkpoint
          /\ log' = log \o pending[c] /\ pending[c] \in Seq(StoredEvent)
        BY <1>1, <1>2, CommitAppends DEF CommitAppend, TypeOK
    <2>2. log' \in Seq(StoredEvent)
        BY <2>1 DEF Sound
    <2>3. Len(log') = Len(log) + Len(pending[c]) /\ Len(pending[c]) \in Nat
        BY <1>1, <2>1, ConcatProperties, LenProperties
    <2>4. \A state \in reverts \cup Undone : Restorable(state)'
        BY <2>1, <2>2, RestorableOn
    <2> QED BY <1>1, <1>2, <2>1, <2>3, <2>4
<1>3. ASSUME NEW c \in Store, Save(c), reverts' = reverts \cup Undone
      PROVE  /\ Sound(log')
             /\ checkpoint' <= Len(log')
             /\ \A state \in reverts' : Restorable(state)'
    <2>1. log' = log /\ checkpoint' = position[c] /\ pc[c] = "save"
        BY <1>3 DEF Save
    <2>2. position[c] <= Len(log)
        BY <2>1 DEF SInv, Isolated
    <2>3. <<>> \in Seq(StoredEvent) /\ log = log \o <<>>
        BY <1>1, EmptySeq, ConcatEmptySeq
    <2>4. log' \in Seq(StoredEvent) /\ log' = log \o <<>>
        BY <1>1, <2>1, <2>3
    <2>5. \A state \in reverts \cup Undone : Restorable(state)'
        BY <2>3, <2>4, RestorableOn
    <2> QED BY <1>1, <1>3, <2>1, <2>2, <2>5
<1>4. CASE PowerLoss
    <2>1. reverts' = {}
        BY <1>4 DEF PowerLoss
    <2> QED BY <1>4, <2>1, LostLog DEF CheckpointWithinLog
<1>5. CASE log' = log /\ checkpoint' = checkpoint /\ reverts' \subseteq reverts
    <2>1. \A state \in reverts : Restorable(state)' <=> Restorable(state)
        BY <1>5 DEF Restorable
    <2> QED BY <1>1, <1>5, <2>1 DEF SInv, CheckpointWithinLog
<1> QED BY <1>2, <1>3, <1>4, <1>5, DatabaseSteps DEF CheckpointWithinLog

-----------------------------------------------------------------------------
(* How the transactions change. *)

-----------------------------------------------------------------------------
(* How the transactions change. *)

(* A store is as isolated as before where nothing it depends on changes.   *)
LEMMA Keeps ==
    ASSUME NEW d \in Store, Isolated(d), log' = log,
           pc'[d] = pc[d], request'[d] = request[d], pending'[d] = pending[d],
           position'[d] = position[d],
           d \in stale' <=> d \in stale, d \in writer' <=> d \in writer
    PROVE  Isolated(d)'
<1>1. Current(d)' <=> Current(d)
    BY DEF Current, Fits, Rows
<1> QED BY <1>1 DEF Isolated

(* A store that is at no operation is isolated. *)
LEMMA Apart ==
    ASSUME NEW d \in Store,
           pc'[d] = "idle", pending'[d] = <<>>, d \notin stale', d \notin writer'
    PROVE  Isolated(d)'
    BY DEF Isolated

(* A store that reads or inserts disturbs no isolation ... *)
LEMMA OwnStepsIsolate ==
    ASSUME SInv, NEW c \in Store, BeginAppend(c) \/ BeginSave(c) \/ Check(c) \/ Insert(c)
    PROVE  \A d \in Store : Isolated(d)'
<1>1. TypeOK /\ Isolated(c) /\ Sound(log) /\ \A x, y \in writer : x = y
    BY DEF SInv
<1>2. log' = log /\ stale' = stale
    BY DEF BeginAppend, BeginSave, Check, Insert, database
<1>3. ASSUME NEW d \in Store, d # c PROVE Isolated(d)'
    <2>1. Isolated(d)
        BY DEF SInv
    <2>2. /\ pc'[d] = pc[d] /\ request'[d] = request[d] /\ pending'[d] = pending[d]
          /\ position'[d] = position[d] /\ (d \in writer' <=> d \in writer)
        BY <1>1, <1>3 DEF BeginAppend, BeginSave, Check, Insert, TypeOK, Goto
    <2> QED BY <1>2, <2>1, <2>2, Keeps
<1>4. CASE BeginAppend(c)
    <2>1. c \notin stale /\ c \notin writer /\ pending[c] = <<>>
        BY <1>1, <1>4 DEF BeginAppend, Isolated
    <2>2. /\ pc'[c] = "query" /\ request'[c].batch # <<>>
          /\ pending' = pending /\ writer' = writer
        BY <1>1, <1>4 DEF BeginAppend, Goto, TypeOK
    <2>3. Isolated(c)'
        BY <1>2, <2>1, <2>2 DEF Isolated
    <2> QED BY <1>3, <2>3
<1>5. CASE BeginSave(c)
    <2>1. c \notin stale /\ c \notin writer /\ pending[c] = <<>>
        BY <1>1, <1>5 DEF BeginSave, Isolated
    <2>2. pc'[c] = "save" /\ pending' = pending /\ writer' = writer /\ position'[c] <= Len(log)
        <3>1. Len(log) \in Nat
            BY Lengths
        <3> QED BY <1>1, <1>5, <3>1 DEF BeginSave, Goto, TypeOK
    <2>3. Isolated(c)'
        BY <1>2, <2>1, <2>2 DEF Isolated
    <2> QED BY <1>3, <2>3
<1>6. CASE Check(c)
    <2>1. c \notin stale /\ c \notin writer /\ pending[c] = <<>> /\ request[c].batch # <<>>
        BY <1>1, <1>6 DEF Check, Isolated
    <2>2. /\ pc'[c] = "insert" /\ pending' = pending /\ writer' = writer /\ request' = request
        BY <1>1, <1>6 DEF Check, Goto, TypeOK
    <2>3. Fits(c)
        BY <1>6 DEF Check
    <2>4. Len(request[c].batch) \in Nat
        BY <1>1, RowsAre, Requests
    <2>5. SubSeq(Rows(c), 1, 0) = <<>> /\ Len(<<>>) = 0
        BY SubSeqEmpty, EmptySeq
    <2>6. Current(c)
        BY <2>1, <2>3, <2>4, <2>5 DEF Current
    <2>7. Current(c)'
        BY <1>2, <2>2, <2>6 DEF Current, Fits, Rows
    <2>8. Isolated(c)'
        BY <1>2, <2>1, <2>2, <2>7 DEF Isolated
    <2> QED BY <1>3, <2>8
<1>7. CASE Insert(c)
    <2> DEFINE n == Len(pending[c])
    <2>1. /\ pc[c] = "insert" /\ n < Len(request[c].batch)
          /\ c \notin writer => c \notin stale
        BY <1>7 DEF Insert, Inserting, Blocked
    <2>2. c \notin stale /\ Current(c)
        BY <1>1, <2>1 DEF Isolated
    <2>3. /\ Rows(c) \in Seq(StoredEvent) /\ Len(Rows(c)) = Len(request[c].batch)
          /\ pending[c] \in Seq(StoredEvent) /\ n \in Nat
          /\ Len(Rows(c)) \in Nat
        BY <1>1, RowsAre, LenProperties
    <2>4. pending'[c] = Append(pending[c], Rows(c)[n + 1])
        BY <1>1, <1>7 DEF Insert, NextRow, TypeOK
    <2>5. pc' = pc /\ request' = request /\ c \in writer'
        BY <1>7 DEF Insert
    <2>6. n + 1 \in 1..Len(Rows(c)) /\ 1 \in 1..Len(Rows(c)) /\ n + 1 \in 1..Len(Rows(c))
          /\ (n + 1) - 1 = n
        BY <2>1, <2>3
    <2>7. Rows(c)[n + 1] \in StoredEvent
        BY <2>3, <2>6, ElementOfSeq
    <2>8. SubSeq(Rows(c), 1, n + 1) = SubSeq(Rows(c), 1, n) \o <<Rows(c)[n + 1]>>
        BY <2>3, <2>6, SubSeqRecursiveSecond
    <2>9. /\ Append(pending[c], Rows(c)[n + 1]) = pending[c] \o <<Rows(c)[n + 1]>>
          /\ Len(Append(pending[c], Rows(c)[n + 1])) = n + 1
        <3>1. Append(pending[c], Rows(c)[n + 1]) = pending[c] \o <<Rows(c)[n + 1]>>
            BY <2>3, <2>7, AppendIsConcat
        <3>2. Len(Append(pending[c], Rows(c)[n + 1])) = n + 1
            BY <2>3, <2>7, AppendProperties
        <3> QED BY <3>1, <3>2
    <2>10. pending[c] = SubSeq(Rows(c), 1, n)
        BY <2>2 DEF Current
    <2>11. Len(pending'[c]) = n + 1 /\ pending'[c] = SubSeq(Rows(c), 1, n + 1)
        BY <2>4, <2>8, <2>9, <2>10
    <2>12. n + 1 <= Len(request[c].batch)
        BY <2>3, <2>6
    <2>13. Current(c)'
        BY <1>2, <2>2, <2>5, <2>11, <2>12 DEF Current, Fits, Rows
    <2>14. Isolated(c)'
        BY <1>2, <2>1, <2>2, <2>5, <2>13 DEF Isolated
    <2> QED BY <1>3, <2>14
<1> QED BY <1>4, <1>5, <1>6, <1>7

(* An operation that ends without a commit. *)
LEMMA RollbackIsolates ==
    ASSUME SInv, NEW c \in Store, Rollback(c)
    PROVE  \A d \in Store : Isolated(d)'
<1>1. TypeOK
    BY DEF SInv
<1>2. End(c) /\ stale' = stale \ {c} /\ log' = log /\ writer' = writer \ {c}
    BY DEF Rollback, End, database
<1>3. Isolated(c)'
    BY <1>1, <1>2, EndTyped, Apart
<1>4. ASSUME NEW d \in Store, d # c PROVE Isolated(d)'
    <2>1. Isolated(d)
        BY DEF SInv
    <2>2. /\ pc'[d] = pc[d] /\ request'[d] = request[d]
          /\ pending'[d] = pending[d] /\ position'[d] = position[d]
        BY <1>1, <1>2, <1>4, EndTyped
    <2> QED BY <1>2, <1>4, <2>1, <2>2, Keeps
<1> QED BY <1>3, <1>4

(* A committed write makes the other open snapshots old ones; none of them *)
(* belongs to a writer, for the one writer is the store that commits.      *)
LEMMA WriteIsolates ==
    ASSUME SInv, NEW c \in Store, Written(c), writer \subseteq {c},
           log' \in Seq(StoredEvent), Len(log) <= Len(log')
    PROVE  \A d \in Store : Isolated(d)'
<1>1. TypeOK
    BY DEF SInv
<1>2. End(c) /\ stale' = {d \in Store \ {c} : pc[d] = "insert"} /\ writer' = writer \ {c}
    BY DEF Written, End
<1>3. Isolated(c)'
    BY <1>1, <1>2, EndTyped, Apart
<1>4. ASSUME NEW d \in Store, d # c PROVE Isolated(d)'
    <2>1. /\ pc'[d] = pc[d] /\ request'[d] = request[d]
          /\ pending'[d] = pending[d] /\ position'[d] = position[d]
        BY <1>1, <1>2, <1>4, EndTyped
    <2>2. Isolated(d) /\ d \notin writer /\ d \notin writer'
        BY <1>2, <1>4 DEF SInv
    <2>3. pending[d] = <<>>
        BY <2>2 DEF Isolated
    <2>4. d \in stale' <=> pc'[d] = "insert"
        BY <1>2, <1>4, <2>1
    <2>5. pc[d] = "save" => position[d] <= Len(log')
        <3>1. position[d] \in Nat /\ Len(log) \in Nat /\ Len(log') \in Nat
            BY <1>1, Lengths, LenProperties DEF TypeOK
        <3> QED BY <2>2, <3>1 DEF Isolated
    <2> QED BY <2>1, <2>2, <2>3, <2>4, <2>5 DEF Isolated
<1> QED BY <1>3, <1>4

(* ... and nor does any other step. *)
LEMMA IsolatedStep ==
    ASSUME SInv, [Next]_vars
    PROVE  (\A d \in Store : Isolated(d))'
<1>1. TypeOK /\ \A d \in Store : Isolated(d)
    BY DEF SInv
<1>2. log \in Seq(StoredEvent) /\ Len(log) \in Nat
    BY Lengths
<1>3. ASSUME NEW c \in Store, BeginAppend(c) \/ BeginSave(c) \/ Check(c) \/ Insert(c)
      PROVE  \A d \in Store : Isolated(d)'
    BY <1>3, OwnStepsIsolate
<1>4. ASSUME NEW c \in Store, RollsBack(c)
      PROVE  \A d \in Store : Isolated(d)'
    BY <1>1, <1>4, RollsBackIs, RollbackIsolates
<1>5. ASSUME NEW c \in Store, CommitAppend(c)
      PROVE  \A d \in Store : Isolated(d)'
    <2>1. /\ log' = log \o pending[c] /\ Written(c) /\ pending[c] \in Seq(StoredEvent)
        BY <1>1, <1>5 DEF CommitAppend, TypeOK
    <2>2. writer \subseteq {c}
        BY <1>1, <1>5, CommitAppends DEF TypeOK
    <2>3. log' \in Seq(StoredEvent) /\ Len(log) <= Len(log')
        BY <1>2, <2>1, ConcatProperties, LenProperties
    <2> QED BY <2>1, <2>2, <2>3, WriteIsolates
<1>6. ASSUME NEW c \in Store, Save(c)
      PROVE  \A d \in Store : Isolated(d)'
    <2>1. writer = {} /\ Written(c) /\ log' = log
        BY <1>6 DEF Save
    <2> QED BY <1>2, <2>1, WriteIsolates
<1>7. CASE AppendNothing \/ Sync \/ UNCHANGED vars
    <2>1. UNCHANGED <<log, pc, request, pending, position, stale, writer>>
        BY <1>7 DEF AppendNothing, Sync, vars, database
    <2> QED BY <1>1, <2>1, Keeps
<1>8. CASE PowerLoss
    <2>1. \A d \in Store : /\ pc'[d] = "idle" /\ pending'[d] = <<>>
                           /\ d \notin stale' /\ d \notin writer'
        BY <1>8 DEF PowerLoss
    <2> QED BY <2>1, Apart
<1> QED BY <1>3, <1>4, <1>5, <1>6, <1>7, <1>8, Kinds

-----------------------------------------------------------------------------
(* Every step keeps the invariant. *)
LEMMA StepSInv == SInv /\ [Next]_vars => SInv'
<1> SUFFICES ASSUME SInv, [Next]_vars PROVE SInv'
    OBVIOUS
<1> QED BY TypeStep, WriterStep, DatabaseStep, IsolatedStep DEF SInv

(* The inductive invariant holds in every state. *)
THEOREM Invariance == Spec => []SInv
<1> QED BY EmptyStates, StepSInv, PTL DEF Spec

(* The model's variables keep their types, and at most one store has an    *)
(* open write transaction.                                                 *)
THEOREM TypeCorrect == Spec => []TypeOK
<1>1. SInv => TypeOK
    BY DEF SInv
<1> QED BY <1>1, Invariance, PTL

(* What a write transaction is about to commit still fits the log: SQLite  *)
(* refuses the first write on a snapshot that is no longer the newest, so  *)
(* the version check made on it cannot go stale before the commit.         *)
THEOREM WritersStayCurrent == Spec => []WritersAreCurrent
<1>1. SInv => WritersAreCurrent
    <2> SUFFICES ASSUME SInv, NEW c \in writer PROVE Current(c)
        BY DEF WritersAreCurrent, Current
    <2>1. c \in Store
        BY DEF SInv, TypeOK
    <2> QED BY <2>1 DEF SInv, Isolated
<1> QED BY <1>1, Invariance, PTL

(* After any crash, and in between, a checkpoint names a position that is  *)
(* still in the log.                                                       *)
THEOREM CheckpointsStayWithinLog == Spec => []CheckpointWithinLog
<1>1. SInv => CheckpointWithinLog
    BY DEF SInv
<1> QED BY <1>1, Invariance, PTL

-----------------------------------------------------------------------------
(* The refinement. *)

(* The contract's operators are the store's. *)
LEMMA SameVersion == \A l, s : Contract!CurrentVersion(l, s) = CurrentVersion(l, s)
<1>1. ASSUME NEW S PROVE Contract!Max(S) = Max(S)
    BY DEF Contract!Max, Max
<1>2. ASSUME NEW l, NEW s PROVE Contract!VersionsOf(l, s) = VersionsOf(l, s)
    BY DEF Contract!VersionsOf, VersionsOf, Contract!PositionsOf, PositionsOf
<1> QED BY <1>1, <1>2 DEF Contract!CurrentVersion, CurrentVersion

(* EventStore and SqliteStore mean the same by an append ... *)
LEMMA SameRecorded ==
    \A l, s, b : /\ Contract!Recorded(l, s, b) = Recorded(l, s, b)
                 /\ Contract!Appended(l, s, b) = Appended(l, s, b)
<1>1. ASSUME NEW l, NEW s, NEW b
      PROVE  Contract!Recorded(l, s, b) = Recorded(l, s, b)
    BY SameVersion DEF Contract!Recorded, Recorded, Contract!NumberedFrom, NumberedFrom
<1> QED BY <1>1 DEF Contract!Appended, Appended

(* ... and by its answers. *)
LEMMA SameAnswers ==
    /\ Contract!Request = Request
    /\ \A r : Contract!Fits(r) <=> Passes(r.expected, CurrentVersion(log, r.stream))
    /\ \A r, es, n : Contract!Stored(r, es, n) = Stored(r, es, n)
    /\ \A r, e : Contract!Failed(r, e) = Failed(r, e)
<1>1. \A x, n : Contract!Passes(x, n) <=> Passes(x, n)
    BY DEF Contract!Passes, Passes
<1>2. \A r : Contract!Fits(r) <=> Passes(r.expected, CurrentVersion(log, r.stream))
    BY <1>1, SameVersion DEF Contract!Fits
<1>3. Contract!Request = Request
    BY DEF Contract!Request, Request
<1>4. \A r, es, n : Contract!Stored(r, es, n) = Stored(r, es, n)
    BY DEF Contract!Stored, Stored
<1>5. \A r, e : Contract!Failed(r, e) = Failed(r, e)
    BY DEF Contract!Failed, Failed
<1> QED BY <1>2, <1>3, <1>4, <1>5

(* An empty file is an empty event store. *)
LEMMA InitMaps == Init => Contract!Init
<1> SUFFICES ASSUME Init PROVE Contract!Init
    OBVIOUS
<1>1. log = <<>> /\ answer = Stored(CHOOSE r \in Request : TRUE, <<>>, 0)
    BY DEF Init, NoRequest
<1>2. answer = Contract!Stored(CHOOSE r \in Contract!Request : TRUE, <<>>, 0)
    BY <1>1, SameAnswers
<1> QED BY <1>1, <1>2 DEF Contract!Init

(* A commit is the contract's append, a refused check its conflict, a      *)
(* failed insert its failure, a loss of power its loss; nothing else       *)
(* shows.                                                                  *)
LEMMA StepMaps ==
    ASSUME SInv, [Next]_vars
    PROVE  [Contract!Next]_Contract!vars
<1>1. TypeOK /\ Sound(log)
    BY DEF SInv
<1>2. ASSUME NEW c \in Store
      PROVE  /\ request[c] \in Contract!Request
             /\ pc[c] \in {"query", "insert"} => request[c].batch # <<>>
             /\ Contract!Fits(request[c]) <=> Fits(c)
    <2>1. request[c] \in Request
        BY <1>1 DEF TypeOK
    <2>2. Isolated(c)
        BY DEF SInv
    <2> QED BY <2>1, <2>2, SameAnswers DEF Fits, Isolated
<1>3. ASSUME NEW c \in Store, BeginAppend(c) \/ BeginSave(c) \/ Check(c) \/ Insert(c)
             \/ Save(c) \/ SaveTimesOut(c) \/ Drop(c)
      PROVE  UNCHANGED <<log, answer>>
    BY <1>3 DEF BeginAppend, BeginSave, Check, Insert, Save, SaveTimesOut, Drop, Rollback, database
<1>4. ASSUME NEW c \in Store, CommitAppend(c) PROVE Contract!Accept(request[c]) /\ answer'.to = request[c]
    <2>1. /\ Fits(c) /\ pc[c] = "insert"
          /\ log' = Appended(log, request[c].stream, request[c].batch)
          /\ answer' = Stored(request[c], Rows(c), Len(log))
        BY <1>4, CommitAppends DEF CommitAppend
    <2> QED BY <1>2, <2>1, SameRecorded, SameAnswers DEF Contract!Accept, Rows, Stored
<1>5. ASSUME NEW c \in Store, CheckConflicts(c) PROVE Contract!Refuse(request[c]) /\ answer'.to = request[c]
    <2>1. ~Fits(c) /\ pc[c] = "query" /\ answer' = Failed(request[c], "Conflict") /\ log' = log
        BY <1>5 DEF CheckConflicts, Rollback, database
    <2> QED BY <1>2, <2>1, SameAnswers DEF Contract!Refuse, Failed
<1>6. ASSUME NEW c \in Store, InsertFails(c) PROVE Contract!Fail(request[c]) /\ answer'.to = request[c]
    <2>1. log' = log /\ \E e \in {"Serialization", "Backend"} : answer' = Failed(request[c], e)
        BY <1>6 DEF InsertFails, Rollback, database
    <2> QED BY <2>1, SameAnswers DEF Contract!Fail, Failed
<1>7. CASE PowerLoss
    <2>1. MaxLosses > 0
        BY <1>1, <1>7, SqliteStoreAssumption DEF PowerLoss, TypeOK
    <2>2. (\E n \in 0..Len(log) : log' = SubSeq(log, 1, n)) /\ answer' = answer
        BY <1>7, LostLog DEF PowerLoss
    <2> QED BY <2>1, <2>2 DEF Contract!Next, Contract!Lose
<1>8. CASE Sync \/ UNCHANGED vars
    BY <1>8 DEF Sync, vars, Contract!vars
<1>9. CASE AppendNothing
    <2>1. PICK r \in Request : r.batch = <<>> /\ answer' = Stored(r, <<>>, 0)
        BY <1>9 DEF AppendNothing
    <2>2. Contract!AppendNothing(r) /\ answer'.to = r /\ r \in Contract!Request
        BY <1>9, <2>1, SameAnswers DEF AppendNothing, Contract!AppendNothing, Stored, database
    <2> QED BY <2>2 DEF Contract!Next
<1>10. UNCHANGED <<log, answer>> => [Contract!Next]_Contract!vars
    BY DEF Contract!vars
<1> QED BY <1>2, <1>3, <1>4, <1>5, <1>6, <1>7, <1>8, <1>9, <1>10, Kinds
       DEF Contract!Next, RollsBack

(* The stores on one file keep the EventStore trait's promise together,    *)
(* however their transactions interleave, whichever of them roll back, and *)
(* whatever a loss of power takes back.                                    *)
THEOREM SqliteImplementsEventStore == Spec => ImplementsEventStore
<1> QED BY InitMaps, StepMaps, Invariance, PTL DEF Spec, ImplementsEventStore, Contract!Spec
=============================================================================
