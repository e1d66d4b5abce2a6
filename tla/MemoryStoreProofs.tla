-------------------------- MODULE MemoryStoreProofs --------------------------
(***************************************************************************)
(* What MemoryStore keeps for every set of streams and payloads, every     *)
(* batch, whichever of its events do not encode, and every expectation.    *)
(***************************************************************************)
EXTENDS MemoryStore, EventLogProofs

(* The inductive invariant: a batch that is left half-way has pushed       *)
(* events numbered as an append of those would have numbered them.         *)
MInv ==
    /\ TypeOK
    /\ Sound(log)
    /\ AnswersTellPlaces

-----------------------------------------------------------------------------
(* load_from's scan. *)

(* The stream's events with versions from a + 1 to b are b - a. *)
LEMMA VersionsBetween ==
    ASSUME Sound(log), NEW s \in Stream, NEW a \in Nat,
           NEW b \in a..CurrentVersion(log, s)
    PROVE  Cardinality({p \in PositionsOf(log, s) :
                            log[p].version > a /\ log[p].version <= b}) = b - a
<1> DEFINE S == {p \in PositionsOf(log, s) : log[p].version > a /\ log[p].version <= b}
           T == (a + 1)..b
           f == [p \in S |-> log[p].version]
<1>1. CurrentVersion(log, s) \in Nat /\ b \in Nat
    BY DEF Sound
<1>2. f \in [S -> T]
    <2>1. ASSUME NEW p \in S PROVE log[p].version \in T
        <3>1. log[p].version \in Nat /\ log[p].version > a /\ log[p].version <= b
            BY EventAt DEF Sound
        <3> QED BY <1>1, <3>1
    <2> QED BY <2>1
<1>3. \A p, q \in S : f[p] = f[q] => p = q
    BY PositionAtIs
<1>4. \A v \in T : \E p \in S : f[p] = v
    <2> TAKE v \in T
    <2>1. v \in 1..CurrentVersion(log, s) /\ v > a /\ v <= b
        BY <1>1
    <2>2. PositionAt(log, s, v) \in S
        BY <2>1, VersionPresent
    <2> QED BY <2>1, <2>2, VersionPresent
<1>5. IsFiniteSet(T) /\ Cardinality(T) = b - a
    <2>1. a + 1 \in Int /\ b \in Int
        BY <1>1
    <2>2. IsFiniteSet(T) /\ Cardinality(T) = IF a + 1 > b THEN 0 ELSE b - (a + 1) + 1
        BY <2>1, FS_Interval
    <2> HIDE DEF T
    <2> QED BY <1>1, <2>2
<1>6. f \in Injection(S, T) /\ f \in Surjection(S, T)
    BY <1>2, <1>3, <1>4, Fun_IsInj, Fun_IsSurj
<1>7. IsFiniteSet(S) /\ Cardinality(S) = Cardinality(T)
    BY <1>5, <1>6, FS_Injection
<1> QED BY <1>5, <1>7

(* Sorting puts each event where its version says. *)
LEMMA PlaceIs ==
    ASSUME Sound(log), NEW s \in Stream, NEW after \in Nat, NEW p \in Matches(s, after)
    PROVE  Place(Matches(s, after), p) = log[p].version - after
<1> DEFINE v == log[p].version
           M == Matches(s, after)
<1>1. p \in PositionsOf(log, s) /\ v > after /\ v \in Nat \ {0} /\ v \in 1..CurrentVersion(log, s)
    BY EventAt, PositionAtIs DEF Matches, Sound
<1>2. CurrentVersion(log, s) \in Nat /\ v - 1 \in after..CurrentVersion(log, s)
    BY <1>1 DEF Sound
<1>3. ASSUME NEW q \in M
      PROVE  (log[q].version < v \/ (log[q].version = v /\ q < p)) <=> log[q].version <= v - 1
    <2>1. q \in PositionsOf(log, s) /\ log[q].version \in Nat
        BY EventAt DEF Matches, Sound
    <2>2. log[q].version = v => q = p
        BY <1>1, <2>1, PositionAtIs
    <2>3. p \in Nat
        BY <1>1, EventAt DEF Sound
    <2> QED BY <1>1, <2>1, <2>2, <2>3
<1>4. {q \in M : log[q].version < v \/ (log[q].version = v /\ q < p)}
         = {q \in PositionsOf(log, s) : log[q].version > after /\ log[q].version <= v - 1}
    BY <1>3 DEF Matches
<1>5. Cardinality({q \in PositionsOf(log, s) : log[q].version > after /\ log[q].version <= v - 1})
         = (v - 1) - after
    BY <1>2, VersionsBetween
<1>6. Place(M, p) = Cardinality({q \in M : log[q].version < v \/ (log[q].version = v /\ q < p)}) + 1
    BY DEF Place
<1>7. Place(M, p) = ((v - 1) - after) + 1
    BY <1>4, <1>5, <1>6
<1> QED BY <1>1, <1>7

(* A scan after a version that the stream has. *)
LEMMA ScanIs ==
    ASSUME Sound(log), NEW s \in Stream, NEW after \in 0..CurrentVersion(log, s)
    PROVE  TailByScan(s, after) = LoadFrom(log, s, after)
<1> DEFINE cv == CurrentVersion(log, s)
           M == Matches(s, after)
<1>1. cv \in Nat /\ after \in Nat /\ after <= cv
    BY DEF Sound
<1>2. Cardinality(M) = cv - after
    <2>1. ASSUME NEW p \in PositionsOf(log, s) PROVE log[p].version <= cv
        BY <1>1, PositionAtIs
    <2>2. M = {p \in PositionsOf(log, s) : log[p].version > after /\ log[p].version <= cv}
        BY <2>1 DEF Matches
    <2>3. cv \in after..cv
        BY <1>1
    <2> QED BY <1>1, <2>2, <2>3, VersionsBetween
<1>3. ASSUME NEW k \in 1..(cv - after)
      PROVE  (CHOOSE p \in M : Place(M, p) = k) = PositionAt(log, s, after + k)
    <2> DEFINE p0 == PositionAt(log, s, after + k)
               c == CHOOSE p \in M : Place(M, p) = k
    <2>1. after + k \in 1..cv /\ after + k > after /\ (after + k) - after = k
        BY <1>1
    <2>2. p0 \in PositionsOf(log, s) /\ log[p0].version = after + k
        BY <2>1, VersionPresent
    <2>3. p0 \in M
        BY <2>1, <2>2 DEF Matches
    <2>4. Place(M, p0) = k
        BY <1>1, <2>1, <2>2, <2>3, PlaceIs
    <2>5. c \in M /\ Place(M, c) = k
        BY <2>3, <2>4
    <2> HIDE DEF c
    <2>6. c \in PositionsOf(log, s) /\ log[c].version \in Nat /\ log[c].version - after = k
        BY <1>1, <2>5, PlaceIs, EventAt DEF Matches, Sound
    <2>7. log[c].version = after + k
        BY <1>1, <2>6
    <2>8. c = p0
        BY <2>6, <2>7, PositionAtIs
    <2> QED BY <2>8 DEF c
<1>4. TailByScan(s, after) = [k \in 1..(cv - after) |-> log[CHOOSE p \in M : Place(M, p) = k]]
    BY <1>2 DEF TailByScan, Sorted
<1> QED BY <1>3, <1>4 DEF LoadFrom

(* A scan after a version that the stream has not reached finds nothing. *)
LEMMA ScanBeyond ==
    ASSUME Sound(log), NEW s \in Stream, NEW after \in Nat, after > CurrentVersion(log, s)
    PROVE  TailByScan(s, after) = LoadFrom(log, s, after)
<1>1. CurrentVersion(log, s) \in Nat
    BY DEF Sound
<1>2. ASSUME NEW p \in PositionsOf(log, s) PROVE ~(log[p].version > after)
    BY <1>1, PositionAtIs
<1>3. Matches(s, after) = {}
    BY <1>2 DEF Matches
<1>4. Cardinality(Matches(s, after)) = 0
    BY <1>3, FS_EmptySet
<1>5. 1..0 = {} /\ 1..(CurrentVersion(log, s) - after) = {}
    BY <1>1
<1> QED BY <1>3, <1>4, <1>5 DEF TailByScan, Sorted, LoadFrom

(* Whatever version is asked for. *)
LEMMA ScansAreTails == Sound(log) => TailsContiguous
<1> SUFFICES ASSUME Sound(log), NEW s \in Stream, NEW after \in 0..(Len(log) + 1)
             PROVE  TailByScan(s, after) = LoadFrom(log, s, after)
    BY DEF TailsContiguous
<1>1. CurrentVersion(log, s) \in Nat /\ after \in Nat
    BY LenProperties DEF Sound
<1>2. after \in 0..CurrentVersion(log, s) \/ after > CurrentVersion(log, s)
    BY <1>1
<1> QED BY <1>1, <1>2, ScanIs, ScanBeyond

-----------------------------------------------------------------------------
(* Appends. *)

(* What a request is made of. *)
LEMMA Requests ==
    /\ \E r \in Request : TRUE
    /\ \A r \in Request : r.stream \in Stream /\ r.batch \in Batch /\ r.batch \in Seq(Payload)
<1>1. PICK s \in Stream, e \in Expectation, b \in Batch : TRUE
    BY MemoryStoreAssumption
<1>2. [stream |-> s, expected |-> e, batch |-> b] \in Request
    BY <1>1 DEF Request
<1>3. ASSUME NEW r \in Request PROVE r.stream \in Stream /\ r.batch \in Batch
    BY <1>3 DEF Request
<1> QED BY <1>2, <1>3, MemoryStoreAssumption

(* What may be answered. *)
LEMMA AnswersTyped ==
    ASSUME NEW r \in Request
    PROVE  /\ \A es \in Seq(StoredEvent), n \in Nat : Stored(r, es, n) \in Answer(Request)
           /\ \A e \in {"Conflict", "Serialization", "Backend"} : Failed(r, e) \in Answer(Request)
    BY EmptySeq DEF Stored, Failed, Answer

(* The loop pushes events of the batch and no others. *)
LEMMA PushedIs ==
    ASSUME NEW batch \in Seq(Payload)
    PROVE  Pushed(batch) \in Seq(Payload)
<1> DEFINE I == {i \in 1..Len(batch) : batch[i] \in Unencodable}
           bad == IF I # {} THEN Min(I) ELSE 0
<1>1. SelectInSeq(batch, LAMBDA payload : payload \in Unencodable) = bad
    BY DEF SelectInSeq
<1>2. Pushed(batch) = IF bad = 0 THEN batch ELSE SubSeq(batch, 1, bad - 1)
    BY <1>1 DEF Pushed
<1>3. CASE bad = 0
    BY <1>2, <1>3
<1>4. CASE bad # 0
    <2>1. I # {} /\ bad = Min(I)
        BY <1>4
    <2>2. Positions(I)
        <3>1. Len(batch) \in Nat
            BY LenProperties
        <3>2. IsFiniteSet(1..Len(batch)) /\ I \subseteq 1..Len(batch) /\ 1..Len(batch) \subseteq Nat
            BY <3>1, FS_Interval
        <3> QED BY <3>2, FS_Subset DEF Positions
    <2>3. \E p \in I : \A q \in I : p <= q
        BY <2>1, <2>2, FirstIs
    <2>4. Min(I) \in I
        BY <2>3 DEF Min
    <2>5. bad \in 1..Len(batch) /\ Len(batch) \in Nat
        BY <2>1, <2>4, LenProperties
    <2>6. \A i \in 1..(bad - 1) : batch[i] \in Payload
        <3> HIDE DEF bad
        <3>1. \A i \in 1..(bad - 1) : i \in 1..Len(batch)
            BY <2>5
        <3> QED BY <3>1, ElementOfSeq
    <2> HIDE DEF bad
    <2>7. 1 \in Int /\ bad - 1 \in Int
        BY <2>5
    <2>8. SubSeq(batch, 1, bad - 1) \in Seq(Payload)
        BY <2>6, <2>7, SubSeqProperties
    <2> QED BY <1>2, <1>4, <2>8
<1> QED BY <1>3, <1>4

(* The invariant holds of a new store. *)
LEMMA NewStore == Init => MInv
<1> SUFFICES ASSUME Init PROVE MInv
    OBVIOUS
<1> DEFINE r == CHOOSE x \in Request : TRUE
<1>1. r \in Request
    BY Requests
<1>2. <<>> \in Seq(StoredEvent)
    BY EmptySeq
<1> HIDE DEF r
<1>3. log = <<>> /\ answer = Stored(r, <<>>, 0)
    BY DEF Init, r
<1>4. TypeOK
    BY <1>1, <1>2, <1>3, AnswersTyped DEF TypeOK
<1>5. Sound(log)
    BY <1>3, EmptyLog
<1>6. AnswersTellPlaces
    BY <1>3 DEF AnswersTellPlaces, Stored
<1> QED BY <1>4, <1>5, <1>6 DEF MInv

(* An append that writes all of its batch returns the end of the log. *)
LEMMA AppendTells ==
    ASSUME Sound(log), NEW s \in Stream, NEW evs \in Seq(Payload), evs # <<>>
    PROVE  LET recorded == Recorded(log, s, evs)
           IN SubSeq(Appended(log, s, evs), Len(log) + 1, Len(Appended(log, s, evs))) = recorded
<1> DEFINE recorded == Recorded(log, s, evs)
<1>1. recorded \in Seq(StoredEvent) /\ Len(recorded) = Len(evs)
    BY RecordedIs
<1>2. Len(log) \in Nat /\ Len(evs) \in Nat \ {0} /\ log \in Seq(StoredEvent)
    BY LenProperties, EmptySeq DEF Sound
<1> HIDE DEF recorded
<1>3. Len(log \o recorded) = Len(log) + Len(recorded)
    BY <1>1, <1>2, ConcatProperties
<1>4. /\ Len(log) + 1 \in (Len(log) + 1)..(Len(log) + Len(recorded))
      /\ Len(log) + Len(recorded) \in (Len(log) + 1)..(Len(log) + Len(recorded))
      /\ (Len(log) + 1) - Len(log) = 1
      /\ (Len(log) + Len(recorded)) - Len(log) = Len(recorded)
    BY <1>1, <1>2
<1>5. SubSeq(log \o recorded, Len(log) + 1, Len(log) + Len(recorded)) = SubSeq(recorded, 1, Len(recorded))
    BY <1>1, <1>2, <1>4, SubSeqOfConcat2
<1>6. SubSeq(recorded, 1, Len(recorded)) = recorded
    BY <1>1, SubSeqFull
<1> QED BY <1>3, <1>5, <1>6 DEF Appended, recorded

(* Every step keeps the invariant. *)
LEMMA StepMInv == MInv /\ [Next]_vars => MInv'
<1> SUFFICES ASSUME MInv, [Next]_vars PROVE MInv'
    OBVIOUS
<1>1. TypeOK /\ Sound(log) /\ AnswersTellPlaces
    BY DEF MInv
<1>2. log \in Seq(StoredEvent) /\ Len(log) \in Nat /\ <<>> \in Seq(StoredEvent) /\ 0 \in Nat
    BY <1>1, LenProperties, EmptySeq DEF TypeOK
<1>3. ASSUME NEW r \in Request, AppendNothing(r) \/ AppendConflicts(r) PROVE MInv'
    <2>1. log' = log /\ (answer' = Stored(r, <<>>, 0) \/ answer' = Failed(r, "Conflict"))
        BY <1>3 DEF AppendNothing, AppendConflicts
    <2>2. TypeOK'
        BY <1>2, <2>1, AnswersTyped DEF TypeOK
    <2>3. AnswersTellPlaces'
        BY <2>1 DEF AnswersTellPlaces, Stored, Failed
    <2> QED BY <1>1, <2>1, <2>2, <2>3 DEF MInv
<1>4. ASSUME NEW r \in Request, AppendBatch(r) PROVE MInv'
    <2>1. r.stream \in Stream /\ r.batch \in Seq(Payload) /\ Pushed(r.batch) \in Seq(Payload)
        BY Requests, PushedIs
    <2>2. log' = Appended(log, r.stream, Pushed(r.batch)) /\ r.batch # <<>>
        BY <1>4 DEF AppendBatch
    <2>3. Sound(log') /\ log' \in Seq(StoredEvent)
        BY <1>1, <2>1, <2>2, AppendKeepsSound DEF Sound
    <2>4. CASE Pushed(r.batch) = r.batch
        <3>1. answer' = Stored(r, Recorded(log, r.stream, r.batch), Len(log))
            BY <1>4, <2>4 DEF AppendBatch
        <3>2. Recorded(log, r.stream, r.batch) \in Seq(StoredEvent)
            BY <1>1, <2>1, RecordedIs
        <3>3. TypeOK'
            BY <1>2, <2>3, <3>1, <3>2, AnswersTyped DEF TypeOK
        <3>4. SubSeq(log', Len(log) + 1, Len(log')) = Recorded(log, r.stream, r.batch)
            BY <1>1, <2>1, <2>2, <2>4, AppendTells
        <3>5. AnswersTellPlaces'
            BY <3>1, <3>4 DEF AnswersTellPlaces, Stored
        <3> QED BY <2>3, <3>3, <3>5 DEF MInv
    <2>5. CASE Pushed(r.batch) # r.batch
        <3>1. answer' = Failed(r, "Serialization")
            BY <1>4, <2>5 DEF AppendBatch
        <3>2. TypeOK' /\ AnswersTellPlaces'
            BY <2>3, <3>1, AnswersTyped DEF TypeOK, AnswersTellPlaces, Failed
        <3> QED BY <2>3, <3>2 DEF MInv
    <2> QED BY <2>4, <2>5
<1>5. CASE UNCHANGED vars
    BY <1>1, <1>5 DEF vars, MInv, TypeOK, AnswersTellPlaces
<1> QED BY <1>3, <1>4, <1>5 DEF Next

(* The inductive invariant holds in every state. *)
THEOREM Invariance == Spec => []MInv
<1> QED BY NewStore, StepMInv, PTL DEF Spec

(* The model's variables keep their types. *)
THEOREM TypeCorrect == Spec => []TypeOK
<1>1. MInv => TypeOK
    BY DEF MInv
<1> QED BY <1>1, Invariance, PTL

(* load_from's scan of the log, after whatever half-written batches, gives *)
(* each stream's versions after the given one, none missing, none twice.   *)
THEOREM ScansStayContiguous == Spec => []TailsContiguous
<1>1. MInv => TailsContiguous
    BY ScansAreTails DEF MInv
<1> QED BY <1>1, Invariance, PTL

(* An append that succeeds returns the events that are last in the log, at *)
(* the positions they are at.                                              *)
THEOREM AnswersStayTrue == Spec => []AnswersTellPlaces
<1>1. MInv => AnswersTellPlaces
    BY DEF MInv
<1> QED BY <1>1, Invariance, PTL

-----------------------------------------------------------------------------
(* The contract. *)

(* The contract's operators are the store's. *)
LEMMA SameVersion == \A l, s : Contract!CurrentVersion(l, s) = CurrentVersion(l, s)
<1>1. ASSUME NEW S PROVE Contract!Max(S) = Max(S)
    BY DEF Contract!Max, Max
<1>2. ASSUME NEW l, NEW s PROVE Contract!VersionsOf(l, s) = VersionsOf(l, s)
    BY DEF Contract!VersionsOf, VersionsOf, Contract!PositionsOf, PositionsOf
<1> QED BY <1>1, <1>2 DEF Contract!CurrentVersion, CurrentVersion

(* EventStore and MemoryStore mean the same by an append and its answer. *)
LEMMA SameOperators ==
    /\ \A l, s, b : /\ Contract!Recorded(l, s, b) = Recorded(l, s, b)
                    /\ Contract!Appended(l, s, b) = Appended(l, s, b)
    /\ Contract!Request = Request
    /\ \A r : Contract!Fits(r) <=> Fits(r)
    /\ \A r, es, n : Contract!Stored(r, es, n) = Stored(r, es, n)
    /\ \A r, e : Contract!Failed(r, e) = Failed(r, e)
<1>1. ASSUME NEW l, NEW s, NEW b
      PROVE  Contract!Recorded(l, s, b) = Recorded(l, s, b)
    BY SameVersion DEF Contract!Recorded, Recorded, Contract!NumberedFrom, NumberedFrom
<1>2. \A l, s, b : Contract!Appended(l, s, b) = Appended(l, s, b)
    BY <1>1 DEF Contract!Appended, Appended
<1>3. \A x, n : Contract!Passes(x, n) <=> Passes(x, n)
    BY DEF Contract!Passes, Passes
<1>4. \A r : Contract!Fits(r) <=> Fits(r)
    BY <1>3, SameVersion DEF Contract!Fits, Fits
<1>5. Contract!Request = Request
    BY DEF Contract!Request, Request
<1>6. \A r, es, n : Contract!Stored(r, es, n) = Stored(r, es, n)
    BY DEF Contract!Stored, Stored
<1>7. \A r, e : Contract!Failed(r, e) = Failed(r, e)
    BY DEF Contract!Failed, Failed
<1> QED BY <1>1, <1>2, <1>4, <1>5, <1>6, <1>7

(* A new store is an empty event store. *)
LEMMA InitMaps == Init => Contract!Init
<1> SUFFICES ASSUME Init PROVE Contract!Init
    OBVIOUS
<1>1. log = <<>> /\ answer = Stored(CHOOSE r \in Request : TRUE, <<>>, 0)
    BY DEF Init
<1>2. answer = Contract!Stored(CHOOSE r \in Contract!Request : TRUE, <<>>, 0)
    BY <1>1, SameOperators
<1> QED BY <1>1, <1>2 DEF Contract!Init

(* An append is the contract's, unless it is left half-way. *)
LEMMA StepMaps ==
    ASSUME [Next]_vars
    PROVE  [answer'.tag # "Serialization" => Contract!Next]_vars
<1>1. ASSUME NEW r \in Request, AppendNothing(r)
      PROVE  Contract!AppendNothing(r) /\ answer'.to = r
    BY <1>1, SameOperators DEF AppendNothing, Contract!AppendNothing, Stored
<1>2. ASSUME NEW r \in Request, AppendConflicts(r)
      PROVE  Contract!Refuse(r) /\ answer'.to = r
    BY <1>2, SameOperators DEF AppendConflicts, Contract!Refuse, Failed
<1>3. ASSUME NEW r \in Request, AppendBatch(r), answer'.tag # "Serialization"
      PROVE  Contract!Accept(r) /\ answer'.to = r
    <2>1. Pushed(r.batch) = r.batch
        BY <1>3 DEF AppendBatch, Failed
    <2>2. /\ r.batch # <<>> /\ Fits(r)
          /\ log' = Appended(log, r.stream, r.batch)
          /\ answer' = Stored(r, Recorded(log, r.stream, r.batch), Len(log))
        BY <1>3, <2>1 DEF AppendBatch
    <2> QED BY <2>2, SameOperators DEF Contract!Accept, Stored
<1>4. \A r \in Request : r \in Contract!Request
    BY SameOperators
<1> QED BY <1>1, <1>2, <1>3, <1>4 DEF Next, Contract!Next

(* Every append that encodes, and every other one that does not fit, keeps *)
(* the EventStore trait's promise, whatever failed appends left behind.    *)
THEOREM MemoryImplementsEventStore == Spec => ImplementsEventStore
<1> QED BY InitMaps, StepMaps, PTL DEF Spec, ImplementsEventStore
=============================================================================
