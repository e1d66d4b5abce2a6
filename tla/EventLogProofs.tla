--------------------------- MODULE EventLogProofs ---------------------------
(***************************************************************************)
(* What append does to a contiguous log, and what the reads return on it:  *)
(* load_from, for every set of streams and payloads, and read_all's pages, *)
(* for every log, every set of names and every limit.                      *)
(***************************************************************************)
EXTENDS EventLog, GlobalRead, FiniteSetTheorems, FunctionTheorems, SequenceTheorems,
        TLAPS

(* A log as the stores keep it. *)
Sound(log) ==
    /\ log \in Seq(StoredEvent)
    /\ \A s \in Stream : CurrentVersion(log, s) \in Nat
    /\ Contiguous(log)

-----------------------------------------------------------------------------
(* A function on 1..n is a sequence of length n. *)
LEMMA FunctionIsSeq ==
    ASSUME NEW n \in Nat, NEW S, NEW f \in [1..n -> S]
    PROVE  f \in Seq(S) /\ Len(f) = n
<1>1. f \in Seq(S)
    BY SeqDef
<1>2. DOMAIN f = 1..n /\ DOMAIN f = 1..Len(f) /\ Len(f) \in Nat
    BY <1>1, LenProperties
<1> QED BY <1>1, <1>2

(* A piece of a sequence is not changed by what is added to its end. *)
LEMMA SubSeqBeforeConcat ==
    ASSUME NEW S, NEW a \in Seq(S), NEW b \in Seq(S),
           NEW m \in Nat \ {0}, NEW n \in 0..Len(a)
    PROVE  SubSeq(a \o b, m, n) = SubSeq(a, m, n)
<1>1. Len(a) \in Nat
    BY LenProperties
<1>2. CASE n < m
    BY <1>2, <1>1, SubSeqEmpty
<1>3. CASE m <= n
    <2>1. m \in 1..Len(a) /\ n \in 1..Len(a)
        BY <1>1, <1>3
    <2> QED BY <2>1, SubSeqOfConcat1
<1>4. n < m \/ m <= n
    BY <1>1
<1> QED BY <1>2, <1>3, <1>4

(* The largest element of 1..n with 0 is n. *)
LEMMA MaxOfInterval ==
    ASSUME NEW n \in Nat
    PROVE  Max((1..n) \cup {0}) = n
<1> DEFINE S == (1..n) \cup {0}
<1>1. n \in S /\ \A y \in S : n >= y
    OBVIOUS
<1>2. \A x \in S : (\A y \in S : x >= y) => x = n
    OBVIOUS
<1> HIDE DEF S
<1>3. Max(S) = n
    BY <1>1, <1>2 DEF Max
<1> QED BY <1>3 DEF S

-----------------------------------------------------------------------------
(* What is at a position of a stream is a stored event. *)
LEMMA EventAt ==
    ASSUME NEW log \in Seq(StoredEvent), NEW s, NEW p \in PositionsOf(log, s)
    PROVE  /\ p \in 1..Len(log)
           /\ log[p] \in StoredEvent
           /\ log[p].version \in Nat \ {0}
           /\ log[p].payload \in Payload
<1>1. p \in 1..Len(log)
    BY LenProperties DEF PositionsOf
<1>2. log[p] \in StoredEvent
    BY <1>1, ElementOfSeq
<1> QED BY <1>1, <1>2 DEF StoredEvent

(* Each version of a stream is at exactly one position. *)
LEMMA PositionAtIs ==
    ASSUME NEW log, Sound(log), NEW s \in Stream, NEW p \in PositionsOf(log, s)
    PROVE  /\ PositionAt(log, s, log[p].version) = p
           /\ log[p].version \in 1..CurrentVersion(log, s)
<1>1. \A q \in PositionsOf(log, s) : log[q].version = log[p].version => q = p
    <2> SUFFICES ASSUME NEW q \in PositionsOf(log, s), q # p
                 PROVE  log[q].version # log[p].version
        OBVIOUS
    <2>1. p \in Int /\ q \in Int
        BY EventAt DEF Sound
    <2>2. p < q \/ q < p
        BY <2>1
    <2>3. log[p].version \in Int /\ log[q].version \in Int
        BY EventAt DEF Sound
    <2> QED BY <2>2, <2>3 DEF Sound, Contiguous
<1>2. PositionAt(log, s, log[p].version) = p
    BY <1>1 DEF PositionAt
<1>3. log[p].version \in 1..CurrentVersion(log, s)
    BY DEF Sound, Contiguous, VersionsOf
<1> QED BY <1>2, <1>3

(* Every version up to the current one is there. *)
LEMMA VersionPresent ==
    ASSUME NEW log, Sound(log), NEW s \in Stream, NEW v \in 1..CurrentVersion(log, s)
    PROVE  /\ PositionAt(log, s, v) \in PositionsOf(log, s)
           /\ log[PositionAt(log, s, v)].version = v
           /\ log[PositionAt(log, s, v)] \in StoredEvent
<1>1. v \in VersionsOf(log, s)
    BY DEF Sound, Contiguous
<1>2. PICK p \in PositionsOf(log, s) : log[p].version = v
    BY <1>1 DEF VersionsOf
<1>3. PositionAt(log, s, v) \in PositionsOf(log, s) /\ log[PositionAt(log, s, v)].version = v
    BY <1>2 DEF PositionAt
<1>4. log[PositionAt(log, s, v)] \in StoredEvent
    BY <1>3, EventAt DEF Sound
<1> QED BY <1>3, <1>4

-----------------------------------------------------------------------------
(* load_from returns the events after a version, in order, and no gap. *)
LEMMA LoadFromIs ==
    ASSUME NEW log, Sound(log), NEW s \in Stream, NEW v \in 0..CurrentVersion(log, s)
    PROVE  /\ LoadFrom(log, s, v) \in Seq(StoredEvent)
           /\ Len(LoadFrom(log, s, v)) = CurrentVersion(log, s) - v
           /\ \A k \in 1..(CurrentVersion(log, s) - v) :
                /\ LoadFrom(log, s, v)[k] = log[PositionAt(log, s, v + k)]
                /\ LoadFrom(log, s, v)[k].version = v + k
<1> DEFINE n == CurrentVersion(log, s) - v
           f == LoadFrom(log, s, v)
<1>1. n \in Nat
    BY DEF Sound
<1>2. f = [k \in 1..n |-> log[PositionAt(log, s, v + k)]]
    BY DEF LoadFrom
<1>3. ASSUME NEW k \in 1..n
      PROVE  /\ log[PositionAt(log, s, v + k)] \in StoredEvent
             /\ log[PositionAt(log, s, v + k)].version = v + k
    <2>1. v + k \in 1..CurrentVersion(log, s)
        BY <1>1 DEF Sound
    <2> QED BY <2>1, VersionPresent
<1>4. f \in [1..n -> StoredEvent]
    BY <1>2, <1>3
<1> HIDE DEF n, f
<1>5. f \in Seq(StoredEvent) /\ Len(f) = n
    BY <1>1, <1>4, FunctionIsSeq
<1> QED BY <1>2, <1>3, <1>5 DEF n, f

(* Stripping stored events to their payloads keeps length and order. *)
LEMMA PayloadsAre ==
    ASSUME NEW es \in Seq(StoredEvent)
    PROVE  /\ Payloads(es) \in Seq(Payload)
           /\ Len(Payloads(es)) = Len(es)
           /\ \A k \in 1..Len(es) : Payloads(es)[k] = es[k].payload
<1>1. Len(es) \in Nat /\ DOMAIN es = 1..Len(es)
    BY LenProperties
<1>2. \A k \in 1..Len(es) : es[k].payload \in Payload
    <2> TAKE k \in 1..Len(es)
    <2>1. es[k] \in StoredEvent
        BY ElementOfSeq
    <2> QED BY <2>1 DEF StoredEvent
<1>3. Payloads(es) \in [1..Len(es) -> Payload]
    BY <1>1, <1>2 DEF Payloads
<1>4. Payloads(es) \in Seq(Payload) /\ Len(Payloads(es)) = Len(es)
    BY <1>1, <1>3, FunctionIsSeq
<1> QED BY <1>1, <1>4 DEF Payloads

(* A stream's history has one event per version. *)
LEMMA HistoryIs ==
    ASSUME NEW log, Sound(log), NEW s \in Stream
    PROVE  /\ History(log, s) \in Seq(Payload)
           /\ Len(History(log, s)) = CurrentVersion(log, s)
           /\ \A k \in 1..CurrentVersion(log, s) :
                History(log, s)[k] = log[PositionAt(log, s, k)].payload
<1>1. CurrentVersion(log, s) \in Nat
    BY DEF Sound
<1>2. /\ Load(log, s) \in Seq(StoredEvent)
      /\ Len(Load(log, s)) = CurrentVersion(log, s)
      /\ \A k \in 1..CurrentVersion(log, s) : Load(log, s)[k] = log[PositionAt(log, s, k)]
    <2>1. 0 \in 0..CurrentVersion(log, s) /\ CurrentVersion(log, s) - 0 = CurrentVersion(log, s)
        BY <1>1
    <2>2. \A k \in 1..CurrentVersion(log, s) : 0 + k = k
        BY <1>1
    <2>3. /\ LoadFrom(log, s, 0) \in Seq(StoredEvent)
          /\ Len(LoadFrom(log, s, 0)) = CurrentVersion(log, s) - 0
          /\ \A k \in 1..(CurrentVersion(log, s) - 0) :
                LoadFrom(log, s, 0)[k] = log[PositionAt(log, s, 0 + k)]
        BY <2>1, LoadFromIs
    <2> QED BY <2>1, <2>2, <2>3 DEF Load
<1> QED BY <1>2, PayloadsAre DEF History

(* The events after a version are the rest of the history. *)
LEMMA TailOfHistory ==
    ASSUME NEW log, Sound(log), NEW s \in Stream, NEW v \in 0..CurrentVersion(log, s)
    PROVE  SubSeq(History(log, s), 1, v) \o Payloads(LoadFrom(log, s, v)) = History(log, s)
<1> DEFINE n == CurrentVersion(log, s)
           h == History(log, s)
           tail == Payloads(LoadFrom(log, s, v))
<1>1. n \in Nat /\ v \in Nat /\ v <= n
    BY DEF Sound
<1>2. h \in Seq(Payload) /\ Len(h) = n /\ \A k \in 1..n : h[k] = log[PositionAt(log, s, k)].payload
    BY HistoryIs
<1>3. /\ tail \in Seq(Payload) /\ Len(tail) = n - v
      /\ \A k \in 1..(n - v) : tail[k] = log[PositionAt(log, s, v + k)].payload
    BY LoadFromIs, PayloadsAre
<1> HIDE DEF n, h, tail
<1>4. \A k \in 1..(n - v) : tail[k] = h[v + k]
    <2> TAKE k \in 1..(n - v)
    <2>1. v + k \in 1..n
        BY <1>1
    <2> QED BY <2>1, <1>2, <1>3
<1>5. /\ SubSeq(h, 1, v) \in Seq(Payload) /\ Len(SubSeq(h, 1, v)) = v
      /\ \A k \in 1..v : SubSeq(h, 1, v)[k] = h[k]
    BY <1>1, <1>2, SubSeqProperties, ElementOfSeq
<1>6. /\ SubSeq(h, 1, v) \o tail \in Seq(Payload)
      /\ Len(SubSeq(h, 1, v) \o tail) = n
      /\ \A k \in 1..n : (SubSeq(h, 1, v) \o tail)[k] =
            IF k <= v THEN SubSeq(h, 1, v)[k] ELSE tail[k - v]
    BY <1>1, <1>3, <1>5, ConcatProperties
<1>7. \A k \in 1..n : (SubSeq(h, 1, v) \o tail)[k] = h[k]
    <2> TAKE k \in 1..n
    <2>1. CASE k <= v
        BY <2>1, <1>1, <1>5, <1>6
    <2>2. CASE k > v
        <3>1. k - v \in 1..(n - v) /\ v + (k - v) = k
            BY <2>2, <1>1
        <3> QED BY <2>2, <3>1, <1>1, <1>4, <1>6
    <2>3. k <= v \/ k > v
        BY <1>1
    <2> QED BY <2>1, <2>2, <2>3
<1>8. SubSeq(h, 1, v) \o tail = h
    BY <1>2, <1>6, <1>7, SeqEqual
<1> QED BY <1>8 DEF h, tail

-----------------------------------------------------------------------------
(* What append writes, and where. *)
LEMMA RecordedIs ==
    ASSUME NEW log, Sound(log), NEW s \in Stream, NEW evs \in Seq(Payload)
    PROVE  /\ Recorded(log, s, evs) \in Seq(StoredEvent)
           /\ Len(Recorded(log, s, evs)) = Len(evs)
           /\ \A k \in 1..Len(evs) :
                Recorded(log, s, evs)[k] =
                    [stream |-> s, version |-> CurrentVersion(log, s) + k, payload |-> evs[k]]
<1> DEFINE cv == CurrentVersion(log, s)
           rec == Recorded(log, s, evs)
<1>1. cv \in Nat /\ Len(evs) \in Nat
    BY LenProperties DEF Sound
<1>2. rec = [k \in 1..Len(evs) |-> [stream |-> s, version |-> cv + k, payload |-> evs[k]]]
    BY DEF Recorded, NumberedFrom
<1> HIDE DEF cv, rec
<1>3. ASSUME NEW k \in 1..Len(evs)
      PROVE  [stream |-> s, version |-> cv + k, payload |-> evs[k]] \in StoredEvent
    <2>1. evs[k] \in Payload
        BY ElementOfSeq
    <2>2. cv + k \in Nat \ {0}
        BY <1>1
    <2> QED BY <2>1, <2>2 DEF StoredEvent
<1>4. rec \in [1..Len(evs) -> StoredEvent]
    BY <1>2, <1>3
<1>5. rec \in Seq(StoredEvent) /\ Len(rec) = Len(evs)
    BY <1>1, <1>4, FunctionIsSeq
<1> QED BY <1>2, <1>5 DEF cv, rec

(* What an append leaves in place, and what it adds. *)
LEMMA AppendedIs ==
    ASSUME NEW log, Sound(log), NEW s \in Stream, NEW evs \in Seq(Payload)
    PROVE  /\ Appended(log, s, evs) \in Seq(StoredEvent)
           /\ Len(Appended(log, s, evs)) = Len(log) + Len(evs)
           /\ \A p \in 1..Len(log) : Appended(log, s, evs)[p] = log[p]
           /\ \A k \in 1..Len(evs) : Appended(log, s, evs)[Len(log) + k].stream = s
           /\ \A k \in 1..Len(evs) : Appended(log, s, evs)[Len(log) + k].version = CurrentVersion(log, s) + k
           /\ \A k \in 1..Len(evs) : Appended(log, s, evs)[Len(log) + k].payload = evs[k]
<1> DEFINE log2 == Appended(log, s, evs)
<1> DEFINE rec == Recorded(log, s, evs)
<1>1. rec \in Seq(StoredEvent) /\ Len(rec) = Len(evs)
    BY RecordedIs
<1>2. log \in Seq(StoredEvent) /\ Len(log) \in Nat /\ Len(evs) \in Nat
    BY LenProperties DEF Sound
<1> HIDE DEF rec
<1>3. /\ log \o rec \in Seq(StoredEvent)
      /\ Len(log \o rec) = Len(log) + Len(rec)
      /\ \A i \in 1..(Len(log) + Len(rec)) :
            (log \o rec)[i] = IF i <= Len(log) THEN log[i] ELSE rec[i - Len(log)]
    BY <1>1, <1>2, ConcatProperties
<1>4. log2 = log \o rec
    BY DEF rec, Appended
<1> HIDE DEF log2
<1>5. \A p \in 1..Len(log) : log2[p] = log[p]
    BY <1>1, <1>2, <1>3, <1>4
<1>6. ASSUME NEW k \in 1..Len(evs)
      PROVE  /\ log2[Len(log) + k].stream = s
             /\ log2[Len(log) + k].version = CurrentVersion(log, s) + k
             /\ log2[Len(log) + k].payload = evs[k]
    <2>1. /\ Len(log) + k \in 1..(Len(log) + Len(evs))
          /\ ~(Len(log) + k <= Len(log))
          /\ (Len(log) + k) - Len(log) = k
        BY <1>2
    <2>2. log2[Len(log) + k] = rec[k]
        BY <2>1, <1>1, <1>3, <1>4
    <2>3. rec[k] = [stream |-> s, version |-> CurrentVersion(log, s) + k, payload |-> evs[k]]
        BY RecordedIs DEF rec
    <2> QED BY <2>2, <2>3
<1> QED BY <1>1, <1>3, <1>4, <1>5, <1>6 DEF log2

(* Append leaves the other streams where they are ... *)
LEMMA OtherPositions ==
    ASSUME NEW log, Sound(log), NEW s \in Stream, NEW evs \in Seq(Payload),
           NEW u \in Stream, u # s
    PROVE  /\ PositionsOf(Appended(log, s, evs), u) = PositionsOf(log, u)
           /\ \A p \in PositionsOf(log, u) : Appended(log, s, evs)[p] = log[p]
<1> DEFINE log2 == Appended(log, s, evs)
<1>1. /\ log2 \in Seq(StoredEvent)
      /\ Len(log2) = Len(log) + Len(evs)
      /\ \A p \in 1..Len(log) : log2[p] = log[p]
      /\ \A k \in 1..Len(evs) : log2[Len(log) + k].stream = s
    BY AppendedIs
<1> HIDE DEF log2
<1>2. /\ Len(log) \in Nat /\ Len(evs) \in Nat
      /\ DOMAIN log = 1..Len(log) /\ DOMAIN log2 = 1..Len(log2)
    BY <1>1, LenProperties DEF Sound
<1>3. \A p \in 1..Len(log2) : p \in 1..Len(log) \/ \E k \in 1..Len(evs) : p = Len(log) + k
    <2> TAKE p \in 1..Len(log2)
    <2>1. CASE p <= Len(log)
        BY <2>1, <1>2
    <2>2. CASE p > Len(log)
        <3>1. p - Len(log) \in 1..Len(evs) /\ p = Len(log) + (p - Len(log))
            BY <2>2, <1>1, <1>2
        <3> QED BY <3>1
    <2>3. p <= Len(log) \/ p > Len(log)
        BY <1>2
    <2> QED BY <2>1, <2>2, <2>3
<1>4. ASSUME NEW p \in PositionsOf(log2, u)
      PROVE  p \in PositionsOf(log, u)
    <2>1. p \in 1..Len(log2) /\ log2[p].stream = u
        BY <1>2 DEF PositionsOf
    <2>2. p \in 1..Len(log)
        BY <2>1, <1>1, <1>3
    <2> QED BY <2>1, <2>2, <1>1, <1>2 DEF PositionsOf
<1>5. \A p \in PositionsOf(log, u) : p \in PositionsOf(log2, u) /\ log2[p] = log[p]
    BY <1>1, <1>2 DEF PositionsOf
<1> QED BY <1>4, <1>5 DEF log2

(* ... and adds the batch to its own. *)
LEMMA OwnPositions ==
    ASSUME NEW log, Sound(log), NEW s \in Stream, NEW evs \in Seq(Payload)
    PROVE  /\ PositionsOf(Appended(log, s, evs), s) =
                PositionsOf(log, s) \cup {Len(log) + k : k \in 1..Len(evs)}
           /\ \A p \in PositionsOf(log, s) : p \in 1..Len(log) /\ Appended(log, s, evs)[p] = log[p]
           /\ Len(log) \in Nat /\ Len(evs) \in Nat
<1> DEFINE log2 == Appended(log, s, evs)
<1>1. /\ log2 \in Seq(StoredEvent)
      /\ Len(log2) = Len(log) + Len(evs)
      /\ \A p \in 1..Len(log) : log2[p] = log[p]
      /\ \A k \in 1..Len(evs) : log2[Len(log) + k].stream = s
    BY AppendedIs
<1> HIDE DEF log2
<1>2. /\ Len(log) \in Nat /\ Len(evs) \in Nat
      /\ DOMAIN log = 1..Len(log) /\ DOMAIN log2 = 1..Len(log2)
    BY <1>1, LenProperties DEF Sound
<1>3. ASSUME NEW p \in PositionsOf(log2, s)
      PROVE  p \in PositionsOf(log, s) \/ p \in {Len(log) + k : k \in 1..Len(evs)}
    <2>1. p \in 1..(Len(log) + Len(evs)) /\ log2[p].stream = s
        BY <1>1, <1>2 DEF PositionsOf
    <2>2. CASE p <= Len(log)
        BY <2>1, <2>2, <1>1, <1>2 DEF PositionsOf
    <2>3. CASE p > Len(log)
        <3>1. p - Len(log) \in 1..Len(evs) /\ p = Len(log) + (p - Len(log))
            BY <2>1, <2>3, <1>2
        <3> QED BY <3>1
    <2>4. p <= Len(log) \/ p > Len(log)
        BY <2>1, <1>2
    <2> QED BY <2>2, <2>3, <2>4
<1>4. ASSUME NEW p \in PositionsOf(log, s)
      PROVE  p \in PositionsOf(log2, s) /\ p \in 1..Len(log) /\ log2[p] = log[p]
    BY <1>1, <1>2 DEF PositionsOf
<1>5. ASSUME NEW k \in 1..Len(evs)
      PROVE  Len(log) + k \in PositionsOf(log2, s)
    <2>1. Len(log) + k \in 1..Len(log2)
        BY <1>1, <1>2
    <2> QED BY <2>1, <1>1, <1>2 DEF PositionsOf
<1> QED BY <1>2, <1>3, <1>4, <1>5 DEF log2

(* A fact of two of its streams: versions depend on the positions only. *)
LEMMA OtherStreams ==
    ASSUME NEW log, Sound(log), NEW s \in Stream, NEW evs \in Seq(Payload),
           NEW u \in Stream, u # s
    PROVE  /\ VersionsOf(Appended(log, s, evs), u) = VersionsOf(log, u)
           /\ CurrentVersion(Appended(log, s, evs), u) = CurrentVersion(log, u)
<1> DEFINE log2 == Appended(log, s, evs)
<1>1. /\ PositionsOf(log2, u) = PositionsOf(log, u)
      /\ \A p \in PositionsOf(log, u) : log2[p] = log[p]
    BY OtherPositions
<1> HIDE DEF log2
<1>2. VersionsOf(log2, u) = VersionsOf(log, u)
    BY <1>1 DEF VersionsOf
<1> QED BY <1>2 DEF CurrentVersion, log2

(* An append numbers its stream on without a gap. *)
LEMMA OwnVersions ==
    ASSUME NEW log, Sound(log), NEW s \in Stream, NEW evs \in Seq(Payload)
    PROVE  /\ VersionsOf(Appended(log, s, evs), s) = 1..(CurrentVersion(log, s) + Len(evs))
           /\ CurrentVersion(Appended(log, s, evs), s) = CurrentVersion(log, s) + Len(evs)
<1> DEFINE log2 == Appended(log, s, evs)
           cv == CurrentVersion(log, s)
<1>1. /\ PositionsOf(log2, s) = PositionsOf(log, s) \cup {Len(log) + k : k \in 1..Len(evs)}
      /\ \A p \in PositionsOf(log, s) : log2[p] = log[p]
      /\ \A k \in 1..Len(evs) : log2[Len(log) + k].version = cv + k
    BY OwnPositions, AppendedIs
<1>2. Len(evs) \in Nat /\ cv \in Nat
    BY LenProperties DEF Sound
<1>3. \A p \in PositionsOf(log, s) : log[p].version \in 1..cv
    BY PositionAtIs
<1>4. \A v \in 1..cv : \E p \in PositionsOf(log, s) : log[p].version = v
    BY VersionPresent
<1> HIDE DEF log2, cv
<1>5. ASSUME NEW v \in VersionsOf(log2, s)
      PROVE  v \in 1..(cv + Len(evs))
    <2>1. PICK p \in PositionsOf(log2, s) : v = log2[p].version
        BY DEF VersionsOf
    <2>2. CASE p \in PositionsOf(log, s)
        BY <2>1, <2>2, <1>1, <1>2, <1>3
    <2>3. CASE p \in {Len(log) + k : k \in 1..Len(evs)}
        BY <2>1, <2>3, <1>1, <1>2
    <2> QED BY <1>1, <2>2, <2>3
<1>6. ASSUME NEW v \in 1..(cv + Len(evs))
      PROVE  v \in VersionsOf(log2, s)
    <2>1. CASE v <= cv
        BY <2>1, <1>1, <1>2, <1>4 DEF VersionsOf
    <2>2. CASE v > cv
        <3>1. v - cv \in 1..Len(evs) /\ v = cv + (v - cv)
            BY <2>2, <1>2
        <3>2. Len(log) + (v - cv) \in PositionsOf(log2, s)
            BY <3>1, <1>1
        <3>3. log2[Len(log) + (v - cv)].version = v
            BY <3>1, <1>1
        <3> QED BY <3>2, <3>3 DEF VersionsOf
    <2>3. v <= cv \/ v > cv
        BY <1>2
    <2> QED BY <2>1, <2>2, <2>3
<1>7. VersionsOf(log2, s) = 1..(cv + Len(evs))
    BY <1>5, <1>6
<1>8. CurrentVersion(log2, s) = cv + Len(evs)
    BY <1>2, <1>7, MaxOfInterval, cv + Len(evs) \in Nat DEF CurrentVersion
<1> QED BY <1>7, <1>8 DEF log2, cv

(* The contract of EventStore survives every append.  The code it is about *)
(* numbers a batch from the stream's version on, at the end of the log.    *)
THEOREM AppendKeepsSound ==
    ASSUME NEW log, Sound(log), NEW s \in Stream, NEW evs \in Seq(Payload)
    PROVE  Sound(Appended(log, s, evs))
<1> DEFINE log2 == Appended(log, s, evs)
           cv == CurrentVersion(log, s)
<1>1. log2 \in Seq(StoredEvent)
    BY AppendedIs
<1>2. cv \in Nat /\ Len(evs) \in Nat
    BY LenProperties DEF Sound
<1>3. ASSUME NEW u \in Stream
      PROVE  /\ CurrentVersion(log2, u) \in Nat
             /\ VersionsOf(log2, u) = 1..CurrentVersion(log2, u)
    <2>1. CASE u = s
        BY <2>1, <1>2, OwnVersions
    <2>2. CASE u # s
        BY <2>2, OtherStreams DEF Sound, Contiguous
    <2> QED BY <2>1, <2>2
<1>4. ASSUME NEW u \in Stream, NEW p \in PositionsOf(log2, u), NEW q \in PositionsOf(log2, u),
             p < q
      PROVE  log2[p].version < log2[q].version
    <2>1. CASE u # s
        <3>1. /\ p \in PositionsOf(log, u) /\ q \in PositionsOf(log, u)
              /\ log2[p] = log[p] /\ log2[q] = log[q]
            BY <2>1, OtherPositions
        <3> QED BY <3>1, <1>4 DEF Sound, Contiguous
    <2>2. CASE u = s
        <3> DEFINE Old == PositionsOf(log, s)
        <3>1. /\ p \in Old \cup {Len(log) + k : k \in 1..Len(evs)}
              /\ q \in Old \cup {Len(log) + k : k \in 1..Len(evs)}
              /\ \A o \in Old : o \in 1..Len(log) /\ log2[o] = log[o]
              /\ Len(log) \in Nat
            BY <2>2, OwnPositions
        <3>2. \A k \in 1..Len(evs) : log2[Len(log) + k].version = cv + k
            BY AppendedIs
        <3>3. \A o \in Old : log[o].version \in 1..cv
            BY PositionAtIs
        <3>4. CASE p \in Old /\ q \in Old
            BY <3>1, <3>4, <1>4 DEF Sound, Contiguous
        <3>5. CASE p \in Old /\ q \notin Old
            <4>1. PICK k \in 1..Len(evs) : q = Len(log) + k
                BY <3>1, <3>5
            <4>2. log2[q].version = cv + k /\ log2[p].version \in 1..cv
                BY <4>1, <3>1, <3>2, <3>3, <3>5
            <4> HIDE DEF log2, cv
            <4> QED BY <4>2, <1>2
        <3>6. CASE p \notin Old
            <4>1. PICK k \in 1..Len(evs) : p = Len(log) + k
                BY <3>1, <3>6
            <4>2. q \notin Old
                BY <3>1, <4>1, <1>4, <1>2
            <4>3. PICK j \in 1..Len(evs) : q = Len(log) + j
                BY <3>1, <4>2
            <4>4. k < j
                BY <4>1, <4>3, <1>4, <1>2, <3>1
            <4>5. log2[p].version = cv + k /\ log2[q].version = cv + j
                BY <4>1, <4>3, <3>2
            <4> HIDE DEF log2, cv
            <4> QED BY <4>4, <4>5, <1>2
        <3> QED BY <3>4, <3>5, <3>6
    <2> QED BY <2>1, <2>2
<1> HIDE DEF log2, cv
<1>5. Contiguous(log2)
    BY <1>3, <1>4 DEF Contiguous
<1>6. Sound(log2)
    BY <1>1, <1>3, <1>5 DEF Sound
<1> QED BY <1>6 DEF log2

(* An append adds its batch to the end of its stream's history ... *)
THEOREM AppendExtendsHistory ==
    ASSUME NEW log, Sound(log), NEW s \in Stream, NEW evs \in Seq(Payload)
    PROVE  History(Appended(log, s, evs), s) = History(log, s) \o evs
<1> DEFINE log2 == Appended(log, s, evs)
           cv == CurrentVersion(log, s)
           h == History(log, s)
           h2 == History(log2, s)
<1>1. Sound(log2)
    BY AppendKeepsSound
<1>2. cv \in Nat /\ Len(evs) \in Nat /\ CurrentVersion(log2, s) = cv + Len(evs)
    BY OwnVersions, LenProperties DEF Sound
<1>3. /\ h \in Seq(Payload) /\ Len(h) = cv
      /\ \A k \in 1..cv : h[k] = log[PositionAt(log, s, k)].payload
    BY HistoryIs
<1>4. /\ h2 \in Seq(Payload) /\ Len(h2) = cv + Len(evs)
      /\ \A k \in 1..(cv + Len(evs)) : h2[k] = log2[PositionAt(log2, s, k)].payload
    BY <1>1, <1>2, HistoryIs
<1>5. /\ PositionsOf(log2, s) = PositionsOf(log, s) \cup {Len(log) + k : k \in 1..Len(evs)}
      /\ \A p \in PositionsOf(log, s) : log2[p] = log[p]
    BY OwnPositions
<1>6. \A k \in 1..Len(evs) :
        /\ log2[Len(log) + k].version = cv + k
        /\ log2[Len(log) + k].payload = evs[k]
    BY AppendedIs
<1>7. \A p \in PositionsOf(log2, s) : PositionAt(log2, s, log2[p].version) = p
    BY <1>1, PositionAtIs
<1>8. \A k \in 1..cv : /\ PositionAt(log, s, k) \in PositionsOf(log, s)
                       /\ log[PositionAt(log, s, k)].version = k
    BY VersionPresent
<1> HIDE DEF log2, cv, h, h2
<1>9. \A k \in 1..cv : h2[k] = h[k]
    <2> TAKE k \in 1..cv
    <2>1. PICK p \in PositionsOf(log, s) : p = PositionAt(log, s, k) /\ log[p].version = k
        BY <1>8
    <2>2. p \in PositionsOf(log2, s) /\ log2[p] = log[p]
        BY <1>5
    <2>3. PositionAt(log2, s, k) = p
        BY <2>1, <2>2, <1>7
    <2>4. k \in 1..(cv + Len(evs))
        BY <1>2
    <2> QED BY <2>1, <2>2, <2>3, <2>4, <1>3, <1>4
<1>10. \A k \in 1..Len(evs) : h2[cv + k] = evs[k]
    <2> TAKE k \in 1..Len(evs)
    <2>1. Len(log) + k \in PositionsOf(log2, s)
        BY <1>5
    <2>2. PositionAt(log2, s, cv + k) = Len(log) + k
        BY <2>1, <1>6, <1>7
    <2>3. cv + k \in 1..(cv + Len(evs))
        BY <1>2
    <2> QED BY <2>2, <2>3, <1>4, <1>6
<1>11. /\ h \o evs \in Seq(Payload)
       /\ Len(h \o evs) = cv + Len(evs)
       /\ \A k \in 1..(cv + Len(evs)) :
            (h \o evs)[k] = IF k <= cv THEN h[k] ELSE evs[k - cv]
    BY <1>3, ConcatProperties
<1>12. \A k \in 1..(cv + Len(evs)) : h2[k] = (h \o evs)[k]
    <2> TAKE k \in 1..(cv + Len(evs))
    <2>1. CASE k <= cv
        BY <2>1, <1>2, <1>9, <1>11
    <2>2. CASE k > cv
        <3>1. k - cv \in 1..Len(evs) /\ cv + (k - cv) = k
            BY <2>2, <1>2
        <3> QED BY <2>2, <3>1, <1>2, <1>10, <1>11
    <2>3. k <= cv \/ k > cv
        BY <1>2
    <2> QED BY <2>1, <2>2, <2>3
<1>13. h2 = h \o evs
    BY <1>4, <1>11, <1>12, SeqEqual
<1> QED BY <1>13 DEF h, h2, log2

(* ... and to no other. *)
THEOREM AppendKeepsOtherHistories ==
    ASSUME NEW log, Sound(log), NEW s \in Stream, NEW evs \in Seq(Payload),
           NEW u \in Stream, u # s
    PROVE  History(Appended(log, s, evs), u) = History(log, u)
<1> DEFINE log2 == Appended(log, s, evs)
           h == History(log, u)
           h2 == History(log2, u)
           cv == CurrentVersion(log, u)
<1>1. Sound(log2) /\ CurrentVersion(log2, u) = cv
    BY AppendKeepsSound, OtherStreams
<1>2. /\ h \in Seq(Payload) /\ Len(h) = cv
      /\ \A k \in 1..cv : h[k] = log[PositionAt(log, u, k)].payload
    BY HistoryIs
<1>3. /\ h2 \in Seq(Payload) /\ Len(h2) = cv
      /\ \A k \in 1..cv : h2[k] = log2[PositionAt(log2, u, k)].payload
    BY <1>1, HistoryIs
<1>4. /\ PositionsOf(log2, u) = PositionsOf(log, u)
      /\ \A p \in PositionsOf(log, u) : log2[p] = log[p]
    BY OtherPositions
<1>5. \A p \in PositionsOf(log2, u) : PositionAt(log2, u, log2[p].version) = p
    BY <1>1, PositionAtIs
<1>6. \A k \in 1..cv : /\ PositionAt(log, u, k) \in PositionsOf(log, u)
                       /\ log[PositionAt(log, u, k)].version = k
    BY VersionPresent
<1> HIDE DEF log2, cv, h, h2
<1>7. \A k \in 1..cv : h2[k] = h[k]
    <2> TAKE k \in 1..cv
    <2>1. PICK p \in PositionsOf(log, u) : p = PositionAt(log, u, k) /\ log[p].version = k
        BY <1>6
    <2>2. PositionAt(log2, u, k) = p /\ log2[p] = log[p]
        BY <2>1, <1>4, <1>5
    <2> QED BY <2>1, <2>2, <1>2, <1>3
<1>8. h2 = h
    BY <1>2, <1>3, <1>7, SeqEqual
<1> QED BY <1>8 DEF h, h2, log2

(* What a stream was at a version, it was at that version for ever. *)
THEOREM PrefixStays ==
    ASSUME NEW log, Sound(log), NEW s \in Stream, NEW evs \in Seq(Payload),
           NEW u \in Stream, NEW m \in Nat \ {0}, NEW n \in 0..CurrentVersion(log, u)
    PROVE  /\ n <= CurrentVersion(Appended(log, s, evs), u)
           /\ SubSeq(History(Appended(log, s, evs), u), m, n) = SubSeq(History(log, u), m, n)
<1>1. CurrentVersion(log, u) \in Nat /\ Len(evs) \in Nat
    BY LenProperties DEF Sound
<1>2. CASE u # s
    <2>1. /\ CurrentVersion(Appended(log, s, evs), u) = CurrentVersion(log, u)
          /\ History(Appended(log, s, evs), u) = History(log, u)
        BY <1>2, OtherStreams, AppendKeepsOtherHistories
    <2> QED BY <2>1, <1>1
<1>3. CASE u = s
    <2>1. CurrentVersion(Appended(log, s, evs), u) = CurrentVersion(log, u) + Len(evs)
        BY <1>3, OwnVersions
    <2>2. History(Appended(log, s, evs), u) = History(log, u) \o evs
        BY <1>3, AppendExtendsHistory
    <2>3. History(log, u) \in Seq(Payload) /\ Len(History(log, u)) = CurrentVersion(log, u)
        BY HistoryIs
    <2>4. SubSeq(History(log, u) \o evs, m, n) = SubSeq(History(log, u), m, n)
        BY <2>3, SubSeqBeforeConcat
    <2> QED BY <2>1, <2>2, <2>4, <1>1
<1> QED BY <1>2, <1>3

-----------------------------------------------------------------------------
(* The empty log. *)
LEMMA EmptyLog ==
    /\ Sound(<<>>)
    /\ \A s \in Stream : CurrentVersion(<<>>, s) = 0 /\ History(<<>>, s) = <<>>
<1>1. <<>> \in Seq(StoredEvent) /\ DOMAIN <<>> = {}
    BY EmptySeq, LenProperties
<1>2. ASSUME NEW s \in Stream
      PROVE  PositionsOf(<<>>, s) = {} /\ VersionsOf(<<>>, s) = {}
    BY <1>1 DEF PositionsOf, VersionsOf
<1>3. ASSUME NEW s \in Stream
      PROVE  CurrentVersion(<<>>, s) = 0
    <2>1. {} \cup {0} = (1..0) \cup {0}
        OBVIOUS
    <2> QED BY <1>2, <2>1, MaxOfInterval, 0 \in Nat DEF CurrentVersion
<1>4. Contiguous(<<>>)
    BY <1>2, <1>3, 1..0 = {} DEF Contiguous
<1>5. Sound(<<>>)
    BY <1>1, <1>3, <1>4 DEF Sound
<1>6. ASSUME NEW s \in Stream
      PROVE  History(<<>>, s) = <<>>
    <2>1. History(<<>>, s) \in Seq(Payload) /\ Len(History(<<>>, s)) = 0
        BY <1>3, <1>5, HistoryIs
    <2> QED BY <2>1, EmptySeq
<1> QED BY <1>3, <1>5, <1>6

(* The answer of an append names the versions it wrote, and its payloads. *)
LEMMA RecordedTells ==
    ASSUME NEW log, Sound(log), NEW s \in Stream, NEW evs \in Seq(Payload)
    PROVE  /\ Payloads(Recorded(log, s, evs)) = evs
           /\ evs # <<>> =>
                /\ Recorded(log, s, evs) # <<>>
                /\ Recorded(log, s, evs)[Len(Recorded(log, s, evs))].version =
                        CurrentVersion(log, s) + Len(evs)
<1> DEFINE rec == Recorded(log, s, evs)
<1>1. rec \in Seq(StoredEvent) /\ Len(rec) = Len(evs)
    BY RecordedIs
<1>2. ASSUME NEW k \in 1..Len(evs)
      PROVE  rec[k].payload = evs[k] /\ rec[k].version = CurrentVersion(log, s) + k
    <2>1. rec[k] = [stream |-> s, version |-> CurrentVersion(log, s) + k, payload |-> evs[k]]
        BY RecordedIs
    <2> HIDE DEF rec
    <2> QED BY <2>1
<1> HIDE DEF rec
<1>3. /\ Payloads(rec) \in Seq(Payload) /\ Len(Payloads(rec)) = Len(evs)
      /\ \A k \in 1..Len(evs) : Payloads(rec)[k] = evs[k]
    BY <1>1, <1>2, PayloadsAre
<1>4. Payloads(rec) = evs
    BY <1>3, SeqEqual
<1>5. ASSUME evs # <<>>
      PROVE  rec # <<>> /\ rec[Len(rec)].version = CurrentVersion(log, s) + Len(evs)
    <2>1. Len(evs) \in Nat \ {0}
        BY <1>5, EmptySeq
    <2>2. Len(evs) \in 1..Len(evs)
        BY <2>1
    <2> QED BY <2>1, <2>2, <1>1, <1>2, EmptySeq
<1> QED BY <1>4, <1>5 DEF rec

-----------------------------------------------------------------------------
(* read_all's pages: finite sets of positions that leave out nothing       *)
(* before their last, and that are handed out in their order.              *)

(* The elements of a set of positions that come before p. *)
Before(S, p) == {q \in S : q < p}

(* A finite set of positions. *)
Positions(S) == S \subseteq Nat /\ IsFiniteSet(S)

-----------------------------------------------------------------------------
(* Counting the elements before it places each element of the set.         *)
LEMMA Ranks ==
    ASSUME NEW S, Positions(S)
    PROVE  /\ Cardinality(S) \in Nat
           /\ \A p \in S : Cardinality(Before(S, p)) \in 0..(Cardinality(S) - 1)
           /\ \A p, q \in S : p < q => Cardinality(Before(S, p)) < Cardinality(Before(S, q))
           /\ \A p, q \in S : Cardinality(Before(S, p)) = Cardinality(Before(S, q)) => p = q
<1>1. Cardinality(S) \in Nat
    BY FS_CardinalityType DEF Positions
<1>2. ASSUME NEW p \in S
      PROVE  IsFiniteSet(Before(S, p)) /\ Cardinality(Before(S, p)) \in Nat
    BY FS_Subset, FS_CardinalityType DEF Before, Positions
<1>3. ASSUME NEW p \in S
      PROVE  Cardinality(Before(S, p)) \in 0..(Cardinality(S) - 1)
    <2>1. p \in Nat /\ Before(S, p) \subseteq S /\ p \notin Before(S, p)
        BY DEF Before, Positions
    <2>2. Cardinality(Before(S, p)) <= Cardinality(S)
        BY <2>1, FS_Subset DEF Positions
    <2>3. Cardinality(Before(S, p)) # Cardinality(S)
        BY <2>1, FS_Subset DEF Positions
    <2> QED BY <1>1, <1>2, <2>2, <2>3
<1>4. ASSUME NEW p \in S, NEW q \in S, p < q
      PROVE  Cardinality(Before(S, p)) < Cardinality(Before(S, q))
    <2>0. p \in Nat /\ q \in Nat /\ S \subseteq Nat
        BY DEF Positions
    <2>1. /\ Before(S, p) \subseteq Before(S, q)
          /\ p \in Before(S, q) /\ p \notin Before(S, p)
        <3>1. \A x \in S : x < p => x < q
            BY <1>4, <2>0
        <3>2. p < q /\ ~(p < p)
            BY <1>4, <2>0
        <3> QED BY <3>1, <3>2 DEF Before
    <2>2. Cardinality(Before(S, p)) <= Cardinality(Before(S, q))
        BY <1>2, <2>1, FS_Subset
    <2>3. Cardinality(Before(S, p)) # Cardinality(Before(S, q))
        BY <1>2, <2>1, FS_Subset
    <2> QED BY <1>2, <2>2, <2>3
<1>5. ASSUME NEW p \in S, NEW q \in S, Cardinality(Before(S, p)) = Cardinality(Before(S, q))
      PROVE  p = q
    <2>1. p < q \/ q < p \/ p = q
        BY DEF Positions
    <2>2. Cardinality(Before(S, p)) \in Nat
        BY <1>2
    <2> QED BY <2>1, <2>2, <1>4, <1>5
<1> QED BY <1>1, <1>3, <1>4, <1>5

(* Every place is taken. *)
LEMMA RanksTaken ==
    ASSUME NEW S, Positions(S), NEW k \in 0..(Cardinality(S) - 1)
    PROVE  \E p \in S : Cardinality(Before(S, p)) = k
<1> DEFINE n == Cardinality(S)
           f == [p \in S |-> Cardinality(Before(S, p))]
<1>1. n \in Nat
    BY Ranks
<1>2. f \in [S -> 0..(n - 1)]
    BY Ranks
<1>3. \A p, q \in S : f[p] = f[q] => p = q
    BY Ranks
<1>4. f \in Injection(S, 0..(n - 1))
    BY <1>2, <1>3, Fun_IsInj
<1>5. IsFiniteSet(0..(n - 1)) /\ Cardinality(0..(n - 1)) = n
    BY <1>1, FS_Interval
<1>6. f \in Surjection(S, 0..(n - 1))
    BY <1>4, <1>5, FS_Injection
<1> HIDE DEF f
<1>7. \A t \in 0..(n - 1) : \E p \in S : f[p] = t
    BY <1>6 DEF Surjection
<1>8. \A p \in S : f[p] = Cardinality(Before(S, p))
    BY DEF f
<1> QED BY <1>7, <1>8

(* The first position of a page, and the last. *)
LEMMA FirstIs ==
    ASSUME NEW S, Positions(S), S # {}
    PROVE  First(S) \in S /\ \A q \in S : First(S) <= q
<1>1. Cardinality(S) \in Nat \ {0}
    BY Ranks, FS_EmptySet DEF Positions
<1>2. PICK p \in S : Cardinality(Before(S, p)) = 0
    BY <1>1, RanksTaken
<1>3. Before(S, p) = {}
    BY <1>2, FS_Subset, FS_EmptySet DEF Before, Positions
<1>4. \A q \in S : p <= q
    BY <1>3 DEF Before, Positions
<1> QED BY <1>4 DEF First

(* Positions that there are have a last one. *)
LEMMA LastIs ==
    ASSUME NEW S, Positions(S), S # {}
    PROVE  \E p \in S : \A q \in S : q <= p
<1>1. Cardinality(S) \in Nat \ {0}
    BY Ranks, FS_EmptySet DEF Positions
<1>2. PICK p \in S : Cardinality(Before(S, p)) = Cardinality(S) - 1
    BY <1>1, RanksTaken
<1>3. IsFiniteSet(S \ {p}) /\ Cardinality(S \ {p}) = Cardinality(S) - 1
    BY FS_RemoveElement DEF Positions
<1>4. Before(S, p) \subseteq S \ {p}
    BY DEF Before, Positions
<1>5. Before(S, p) = S \ {p}
    BY <1>2, <1>3, <1>4, FS_Subset
<1>6. \A q \in S : q <= p
    BY <1>5 DEF Before, Positions
<1> QED BY <1>6

-----------------------------------------------------------------------------
(* A page is handed out whole and in ascending order. *)
LEMMA AscendingIs ==
    ASSUME NEW S, Positions(S)
    PROVE  /\ Ascending(S) \in Seq(S)
           /\ Len(Ascending(S)) = Cardinality(S) /\ Cardinality(S) \in Nat
           /\ \A k \in 1..Cardinality(S) : Cardinality(Before(S, Ascending(S)[k])) = k - 1
           /\ \A p \in S : \E k \in 1..Cardinality(S) : Ascending(S)[k] = p
<1> DEFINE n == Cardinality(S)
           At(k) == CHOOSE p \in S : Cardinality({q \in S : q < p}) = k - 1
<1>1. n \in Nat
    BY Ranks
<1>2. ASSUME NEW k \in 1..n
      PROVE  At(k) \in S /\ Cardinality(Before(S, At(k))) = k - 1
    <2>1. k - 1 \in 0..(n - 1)
        BY <1>1
    <2>2. \E p \in S : Cardinality({q \in S : q < p}) = k - 1
        BY <2>1, RanksTaken DEF Before
    <2> QED BY <2>2 DEF Before
<1>3. Ascending(S) = [k \in 1..n |-> At(k)]
    BY DEF Ascending
<1> HIDE DEF At
<1>4. Ascending(S) \in [1..n -> S]
    BY <1>2, <1>3
<1>5. Ascending(S) \in Seq(S)
    BY <1>1, <1>4, SeqDef
<1>6. Len(Ascending(S)) = n
    <2>1. DOMAIN Ascending(S) = 1..n /\ DOMAIN Ascending(S) = 1..Len(Ascending(S))
          /\ Len(Ascending(S)) \in Nat
        BY <1>4, <1>5, LenProperties
    <2> QED BY <1>1, <2>1
<1>7. ASSUME NEW p \in S PROVE \E k \in 1..n : Ascending(S)[k] = p
    <2> DEFINE k == Cardinality(Before(S, p)) + 1
    <2>1. Cardinality(Before(S, p)) \in 0..(n - 1)
        BY Ranks
    <2>2. k \in 1..n /\ k - 1 = Cardinality(Before(S, p))
        BY <1>1, <2>1
    <2>3. At(k) \in S /\ Cardinality(Before(S, At(k))) = Cardinality(Before(S, p))
        BY <1>2, <2>2
    <2>4. At(k) = p
        BY <2>3, Ranks
    <2> QED BY <1>3, <2>2, <2>4
<1> QED BY <1>1, <1>2, <1>3, <1>5, <1>6, <1>7

(* Of two pages one of which comes after the other, the second is handed   *)
(* out after the first.                                                    *)
LEMMA AscendingConcat ==
    ASSUME NEW S, NEW T, Positions(S), Positions(T), \A p \in S, q \in T : p < q
    PROVE  Ascending(S) \o Ascending(T) = Ascending(S \cup T)
<1> DEFINE U == S \cup T
           m == Cardinality(S)
           n == Cardinality(T)
<1>1. S \cap T = {}
    BY DEF Positions
<1>2. Positions(U)
    BY FS_Union DEF Positions
<1>3. m \in Nat /\ n \in Nat /\ Cardinality(U) = m + n
    <2>1. m \in Nat /\ n \in Nat
        BY Ranks
    <2>2. Cardinality(U) = m + n - Cardinality(S \cap T)
        BY FS_Union DEF Positions
    <2>3. Cardinality(S \cap T) = 0
        BY <1>1, FS_EmptySet
    <2> QED BY <2>1, <2>2, <2>3
<1>4. ASSUME NEW p \in S PROVE Before(U, p) = Before(S, p)
    <2>1. p \in Nat /\ T \subseteq Nat
        BY DEF Positions
    <2>2. \A q \in T : p < q /\ ~(q < p)
        BY <2>1
    <2> QED BY <2>2 DEF Before
<1>5. ASSUME NEW p \in T PROVE Cardinality(Before(U, p)) = m + Cardinality(Before(T, p))
    <2>0. p \in T /\ \A q \in S : q < p
        OBVIOUS
    <2>1. Before(U, p) = S \cup Before(T, p) /\ S \cap Before(T, p) = {}
        BY <1>1, <2>0 DEF Before
    <2>2. IsFiniteSet(Before(T, p)) /\ Cardinality(Before(T, p)) \in Nat
        BY FS_Subset, FS_CardinalityType DEF Before, Positions
    <2>3. Cardinality(S \cup Before(T, p))
              = m + Cardinality(Before(T, p)) - Cardinality(S \cap Before(T, p))
        BY <2>2, FS_Union DEF Positions
    <2>4. Cardinality(S \cap Before(T, p)) = 0
        BY <2>1, FS_EmptySet
    <2>5. Cardinality(Before(U, p)) = m + Cardinality(Before(T, p)) - Cardinality(S \cap Before(T, p))
        BY <2>1, <2>3
    <2> HIDE DEF U, m
    <2> QED BY <1>3, <2>2, <2>4, <2>5
<1>6. /\ Ascending(U) \in Seq(U) /\ Len(Ascending(U)) = m + n
      /\ \A k \in 1..(m + n) : Cardinality(Before(U, Ascending(U)[k])) = k - 1
    BY <1>2, <1>3, AscendingIs
<1>7. /\ Ascending(S) \in Seq(U) /\ Len(Ascending(S)) = m
      /\ \A k \in 1..m : Ascending(S)[k] \in S /\ Cardinality(Before(S, Ascending(S)[k])) = k - 1
    <2>1. /\ Ascending(S) \in Seq(S) /\ Len(Ascending(S)) = m
          /\ \A k \in 1..m : Cardinality(Before(S, Ascending(S)[k])) = k - 1
        BY AscendingIs
    <2> QED BY <2>1, ElementOfSeq, SeqMonotonic
<1>8. /\ Ascending(T) \in Seq(U) /\ Len(Ascending(T)) = n
      /\ \A k \in 1..n : Ascending(T)[k] \in T /\ Cardinality(Before(T, Ascending(T)[k])) = k - 1
    <2>1. /\ Ascending(T) \in Seq(T) /\ Len(Ascending(T)) = n
          /\ \A k \in 1..n : Cardinality(Before(T, Ascending(T)[k])) = k - 1
        BY AscendingIs
    <2> QED BY <2>1, ElementOfSeq, SeqMonotonic
<1> DEFINE both == Ascending(S) \o Ascending(T)
<1>9. /\ both \in Seq(U) /\ Len(both) = m + n
      /\ \A k \in 1..(m + n) : both[k] = IF k <= m THEN Ascending(S)[k] ELSE Ascending(T)[k - m]
    <2> HIDE DEF U, m, n
    <2> QED BY <1>7, <1>8, ConcatProperties
<1> HIDE DEF both, U, m, n
<1>10. ASSUME NEW k \in 1..(m + n) PROVE both[k] = Ascending(U)[k]
    <2>1. Ascending(U)[k] \in U /\ both[k] \in U
        BY <1>6, <1>9, ElementOfSeq
    <2>2. Cardinality(Before(U, both[k])) = k - 1
        <3>1. CASE k <= m
            BY <1>3, <1>4, <1>7, <1>9, <3>1
        <3>2. CASE k > m
            <4>1. k - m \in 1..n /\ ~(k <= m)
                BY <1>3, <3>2
            <4>2. both[k] = Ascending(T)[k - m]
                BY <1>9, <4>1
            <4>3. Cardinality(Before(U, both[k])) = m + ((k - m) - 1)
                BY <1>5, <1>8, <4>1, <4>2
            <4> QED BY <1>3, <4>3
        <3> QED BY <1>3, <3>1, <3>2
    <2>3. Cardinality(Before(U, both[k])) = Cardinality(Before(U, Ascending(U)[k]))
        BY <1>6, <2>2
    <2> QED BY <1>2, <2>1, <2>3, Ranks
<1> QED BY <1>6, <1>9, <1>10, SeqEqual DEF both, U

-----------------------------------------------------------------------------
(* What an enum is given of a log, and how it changes as the log grows. *)
LEMMA MatchingIs ==
    ASSUME NEW N, NEW names \in Seq(N), NEW wanted, NEW after \in Nat
    PROVE  /\ Matching(names, wanted, after) \subseteq 1..Len(names)
           /\ Positions(Matching(names, wanted, after))
           /\ \A S : S \subseteq Matching(names, wanted, after) => Positions(S)
           /\ \A p : p \in Matching(names, wanted, after) <=>
                        p \in Matching(names, wanted, 0) /\ p > after
<1>1. Len(names) \in Nat /\ DOMAIN names = 1..Len(names)
    BY LenProperties
<1>2. Matching(names, wanted, after) \subseteq 1..Len(names)
    BY <1>1 DEF Matching
<1>3. IsFiniteSet(1..Len(names)) /\ 1..Len(names) \subseteq Nat
    BY <1>1, FS_Interval
<1>4. \A S : S \subseteq Matching(names, wanted, after) => Positions(S)
    BY <1>2, <1>3, FS_Subset DEF Positions
<1>5. \A p \in 1..Len(names) : p > after => p > 0
    BY <1>1
<1> QED BY <1>1, <1>2, <1>4, <1>5 DEF Matching

(* A new event is the only one a reader can find in addition. *)
LEMMA MatchingGrows ==
    ASSUME NEW N, NEW names \in Seq(N), NEW name \in N, NEW wanted, NEW after \in Nat
    PROVE  /\ Matching(names, wanted, after) \subseteq Matching(Append(names, name), wanted, after)
           /\ \A p \in Matching(Append(names, name), wanted, after) :
                 p \in Matching(names, wanted, after) \/ p = Len(names) + 1
           /\ Len(Append(names, name)) = Len(names) + 1 /\ Len(names) \in Nat
<1>1. /\ Len(names) \in Nat /\ DOMAIN names = 1..Len(names)
      /\ Append(names, name) \in Seq(N)
      /\ Len(Append(names, name)) = Len(names) + 1
      /\ \A i \in 1..Len(names) : Append(names, name)[i] = names[i]
    BY AppendProperties, LenProperties
<1>2. DOMAIN Append(names, name) = 1..(Len(names) + 1)
    BY <1>1, LenProperties
<1>3. \A p \in 1..(Len(names) + 1) : p \in 1..Len(names) \/ p = Len(names) + 1
    BY <1>1
<1>4. \A p \in 1..Len(names) : p \in 1..(Len(names) + 1)
    BY <1>1
<1> HIDE DEF Matching
<1>5. Matching(names, wanted, after) \subseteq Matching(Append(names, name), wanted, after)
    BY <1>1, <1>2, <1>4 DEF Matching
<1>6. \A p \in Matching(Append(names, name), wanted, after) :
         p \in Matching(names, wanted, after) \/ p = Len(names) + 1
    BY <1>1, <1>2, <1>3 DEF Matching
<1> QED BY <1>1, <1>5, <1>6

(* A page leaves out no matching event before its last, and it is empty    *)
(* only where there is nothing left to read.                               *)
LEMMA ReadAllIs ==
    ASSUME NEW N, NEW names \in Seq(N), NEW wanted, NEW after \in Nat, NEW limit \in Nat
    PROVE  LET page == ReadAll(names, wanted, after, limit)
               matching == Matching(names, wanted, after)
           IN /\ page \subseteq matching /\ Positions(page)
              /\ \A q \in matching, p \in page : q <= p => q \in page
              /\ page = {} => matching = {}
<1> DEFINE page == ReadAll(names, wanted, after, limit)
           matching == Matching(names, wanted, after)
           size == IF limit = 0 THEN 1 ELSE limit
<1>1. Positions(matching) /\ \A S : S \subseteq matching => Positions(S)
    BY MatchingIs
<1>2. page = {p \in matching : Cardinality(Before(matching, p)) < size}
    BY DEF ReadAll, Before
<1>3. size \in Nat \ {0}
    OBVIOUS
<1> HIDE DEF page, matching, size
<1>4. page \subseteq matching
    BY <1>2
<1>5. ASSUME NEW q \in matching, NEW p \in page, q <= p
      PROVE  q \in page
    <2>1. p \in matching /\ Cardinality(Before(matching, p)) < size
        BY <1>2
    <2>2. CASE q = p
        BY <2>2
    <2>3. CASE q < p
        <3>1. Cardinality(Before(matching, q)) < Cardinality(Before(matching, p))
            BY <1>1, <2>1, <2>3, Ranks
        <3>2. /\ Cardinality(Before(matching, q)) \in 0..(Cardinality(matching) - 1)
              /\ Cardinality(Before(matching, p)) \in 0..(Cardinality(matching) - 1)
              /\ Cardinality(matching) \in Nat
            BY <1>1, <2>1, Ranks
        <3> QED BY <1>2, <1>3, <2>1, <3>1, <3>2
    <2>4. p \in Nat /\ q \in Nat
        BY <1>1, <2>1 DEF Positions
    <2> QED BY <1>5, <2>2, <2>3, <2>4
<1>6. ASSUME matching # {} PROVE page # {}
    <2>1. /\ First(matching) \in matching /\ \A q \in matching : First(matching) <= q
        BY <1>1, <1>6, FirstIs
    <2>2. \A q \in matching : ~(q < First(matching))
        BY <1>1, <2>1 DEF Positions
    <2>3. Before(matching, First(matching)) = {}
        BY <2>2 DEF Before
    <2>4. Cardinality(Before(matching, First(matching))) = 0
        BY <2>3, FS_EmptySet
    <2>5. 0 < size
        BY <1>3
    <2> QED BY <1>2, <2>1, <2>4, <2>5
<1> QED BY <1>1, <1>4, <1>5, <1>6 DEF page, matching
=============================================================================
