--------------------------- MODULE EvolutionProofs ---------------------------
(***************************************************************************)
(* What any number of releases of the program, whatever fields their types *)
(* gain, read of the events and the snapshots of each other.               *)
(***************************************************************************)
EXTENDS Evolution, SequenceTheorems, TLAPS

(* The fold that runs a chain of upcasters. *)
UpcastBy(p, u) == Upcast(u, p)

Upcasting == INSTANCE FoldProofs WITH Op <- UpcastBy

-----------------------------------------------------------------------------
(* The inductive invariant. *)

Event == [type : EventType, shape : Nat \ {0}, given : Nat]

(* Releases write nothing but their own shapes. *)
WrittenBy(p, w) == \E t \in EventType : Knows(w, t) /\ p = Written(w, t)

(* A snapshot holds what some release makes of the events it covers. *)
SnapshotAt(w, n) ==
    [version |-> n, shape |-> StateShape(w), state |-> AllDecoded(w, SubSeq(log, 1, n))]

SnapshotOf(w) == \E n \in 1..Len(log) : snapshot = SnapshotAt(w, n)

(* What release m, for which a snapshot was migrated, still has to decode. *)
Migrated(m) ==
    /\ m \in Version
    /\ \A w \in running : m <= w
    /\ snapshot # NoSnapshot
    /\ snapshot.shape >= StateShape(m)
    /\ \A k \in (snapshot.version + 1)..Len(log) : log[k].shape >= EventShape(m, log[k].type)

EInv ==
    /\ running \subseteq deployed /\ deployed \subseteq Version
    /\ log \in Seq(Event)
    /\ \A k \in DOMAIN log : \E w \in deployed : WrittenBy(log[k], w)
    /\ snapshot = NoSnapshot \/ \E w \in deployed : SnapshotOf(w)
    /\ migrated = 0 \/ Migrated(migrated)

-----------------------------------------------------------------------------
(* Shapes. *)

(* The numbers of releases and shapes, and their orders. *)
LEMMA Shapes ==
    /\ Version \subseteq Nat \ {0}
    /\ \A v \in Version : StateShape(v) \in Nat
    /\ \A v \in Version, t \in EventType : EventShape(v, t) \in Nat
    /\ \A v, w \in Version : v <= w =>
          /\ StateShape(v) <= StateShape(w)
          /\ \A t \in EventType : EventShape(v, t) <= EventShape(w, t)
<1>1. ASSUME NEW v \in Version, NEW w \in Version, v <= w
      PROVE  /\ StateShape(v) <= StateShape(w)
             /\ \A t \in EventType : EventShape(v, t) <= EventShape(w, t)
    <2>1. v = w \/ v < w
        BY <1>1, EvolutionAssumption
    <2>2. CASE v = w
        BY <2>2, EvolutionAssumption
    <2>3. CASE v < w
        BY <2>3, EvolutionAssumption
    <2> QED BY <2>1, <2>2, <2>3
<1> QED BY <1>1, EvolutionAssumption

(* A release whose states have at least the fields of those of v reads at  *)
(* least the fields of events that v reads.                                *)
LEMMA StateCoversEvents ==
    ASSUME NEW v \in Version, NEW w \in Version, StateShape(v) <= StateShape(w),
           NEW t \in EventType
    PROVE  EventShape(v, t) <= EventShape(w, t)
<1>1. v <= w \/ w < v
    BY Shapes
<1>2. CASE v <= w
    BY <1>2, Shapes
<1>3. CASE w < v
    <2>1. StateShape(w) <= StateShape(v)
        BY <1>3, EvolutionAssumption
    <2>2. StateShape(w) = StateShape(v)
        BY <2>1, Shapes
    <2>3. EventShape(w, t) = EventShape(v, t)
        BY <1>3, <2>2, EvolutionAssumption
    <2> QED BY <2>3, Shapes
<1> QED BY <1>1, <1>2, <1>3

(* The lesser of two numbers. *)
LEMMA MinIs ==
    ASSUME NEW a \in Nat, NEW b \in Nat
    PROVE  Min({a, b}) = IF a <= b THEN a ELSE b
<1> DEFINE S == {a, b}
           m == IF a <= b THEN a ELSE b
<1>1. m \in S /\ \A y \in S : m =< y
    OBVIOUS
<1>2. \A x \in S : (\A y \in S : x =< y) => x = m
    OBVIOUS
<1> HIDE DEF S, m
<1>3. Min(S) = m
    BY <1>1, <1>2 DEF Min
<1> QED BY <1>3 DEF S, m

(* What a release writes is an event in the release's shape. *)
LEMMA WrittenIs ==
    ASSUME NEW w \in Version, NEW p, WrittenBy(p, w)
    PROVE  /\ p \in Event
           /\ p.shape = EventShape(w, p.type) /\ p.given = EventShape(w, p.type)
<1>1. PICK t \in EventType : EventShape(w, t) > 0 /\ p = Written(w, t)
    BY DEF WrittenBy, Knows
<1>2. EventShape(w, t) \in Nat \ {0}
    BY <1>1, Shapes
<1> QED BY <1>1, <1>2 DEF Written, Event

(* Decoding for a release after decoding for one that reads no less.       *)
LEMMA DecodedTwice ==
    ASSUME NEW v \in Version, NEW w \in Version, NEW p, p.type \in EventType, p.given \in Nat,
           EventShape(v, p.type) <= EventShape(w, p.type)
    PROVE  Decoded(v, Decoded(w, p)) = Decoded(v, p)
<1> DEFINE a == EventShape(v, p.type)
           b == EventShape(w, p.type)
           g == p.given
<1>1. a \in Nat /\ b \in Nat /\ a <= b /\ g \in Nat
    BY Shapes
<1>2. Min({g, b}) = (IF g <= b THEN g ELSE b) /\ Min({g, a}) = (IF g <= a THEN g ELSE a)
    BY <1>1, MinIs
<1>3. Min({g, b}) \in Nat
    BY <1>1, <1>2
<1>4. Min({Min({g, b}), a}) = (IF Min({g, b}) <= a THEN Min({g, b}) ELSE a)
    BY <1>1, <1>3, MinIs
<1>5. Min({Min({g, b}), a}) = Min({g, a})
    BY <1>1, <1>2, <1>4
<1> HIDE DEF a, b, g
<1>6. Decoded(w, p) = [type |-> p.type, given |-> Min({g, b})]
    BY DEF Decoded, a, b, g
<1>7. Decoded(w, p).type = p.type /\ Decoded(w, p).given = Min({g, b})
    BY <1>6
<1>8. Decoded(v, Decoded(w, p)) = [type |-> p.type, given |-> Min({Min({g, b}), a})]
    BY <1>7 DEF Decoded, a
<1> QED BY <1>5, <1>8 DEF Decoded, a, g

-----------------------------------------------------------------------------
(* Upcasters. *)

(* A release registers a chain that leads to its own shape. *)
LEMMA RegisteredIs ==
    ASSUME NEW v \in Version, NEW t \in EventType
    PROVE  /\ Registered(v, t) \in Seq(Nat)
           /\ EventShape(v, t) <= Len(Registered(v, t)) + 1
           /\ \A k \in 1..Len(Registered(v, t)) : Registered(v, t)[k] = k
<1> DEFINE chain == ByType[t]
           n == EventShape(v, t) - 1
<1>1. /\ chain \in Seq(Nat) /\ n <= Len(chain) /\ n \in Int /\ n >= -1
      /\ \A k \in 1..Len(chain) : chain[k] = k
      /\ Len(chain) \in Nat
    <2>1. chain \in Seq(Nat) /\ EventShape(v, t) <= Len(chain) + 1 /\ EventShape(v, t) \in Nat
        BY EvolutionAssumption
    <2>2. Len(chain) \in Nat /\ DOMAIN chain = 1..Len(chain)
        BY <2>1, LenProperties
    <2>3. \A k \in DOMAIN chain : chain[k] = k
        BY EvolutionAssumption
    <2> QED BY <2>1, <2>2, <2>3
<1>2. Registered(v, t) = SubSeq(chain, 1, n) /\ EventShape(v, t) = n + 1
    BY Shapes DEF Registered
<1> HIDE DEF chain, n
<1>3. \A k \in 1..n : k \in 1..Len(chain) /\ chain[k] = k /\ chain[k] \in Nat
    BY <1>1
<1>4. /\ SubSeq(chain, 1, n) \in Seq(Nat)
      /\ Len(SubSeq(chain, 1, n)) = IF 1 <= n THEN n ELSE 0
      /\ \A k \in 1..n : SubSeq(chain, 1, n)[k] = chain[k]
    BY <1>1, <1>3, SubSeqProperties
<1> QED BY <1>1, <1>2, <1>3, <1>4

(* An upcaster changes the shape and nothing else, and it never loses one. *)
LEMMA UpcastIs ==
    ASSUME NEW u \in Nat, NEW p \in Event
    PROVE  /\ Upcast(u, p) \in Event
           /\ Upcast(u, p).type = p.type /\ Upcast(u, p).given = p.given
           /\ p.shape >= u => Upcast(u, p).shape >= u + 1
<1>1. p.shape \in Nat \ {0}
    BY DEF Event
<1>2. CASE p.shape = u
    <2>1. Upcast(u, p) = [p EXCEPT !.shape = u + 1]
        BY <1>2 DEF Upcast
    <2> QED BY <2>1 DEF Event
<1>3. CASE p.shape # u
    <2>1. Upcast(u, p) = p
        BY <1>3 DEF Upcast
    <2> QED BY <1>1, <1>3, <2>1
<1> QED BY <1>2, <1>3

(* "Migrate every old payload forward": the chain of a type gets a payload *)
(* of any shape at least as far as the release that registers it.          *)
LEMMA UpcastedIs ==
    ASSUME NEW v \in Version, NEW p \in Event
    PROVE  /\ Upcasted(v, p) \in Event
           /\ Upcasted(v, p).type = p.type /\ Upcasted(v, p).given = p.given
           /\ Upcasted(v, p).shape >= EventShape(v, p.type)
<1> DEFINE t == p.type
           chain == Registered(v, t)
           R(k) == Upcasting!Result(p, SubSeq(chain, 1, k))
           Reached(k) == /\ R(k) \in Event
                         /\ R(k).type = t /\ R(k).given = p.given
                         /\ R(k).shape >= k + 1
           N == {k \in Nat : k <= Len(chain) => Reached(k)}
<1>1. t \in EventType /\ p.shape \in Nat \ {0}
    BY DEF Event
<1>2. /\ chain \in Seq(Nat) /\ EventShape(v, t) <= Len(chain) + 1
      /\ \A k \in 1..Len(chain) : chain[k] = k
    BY <1>1, RegisteredIs
<1>3. Len(chain) \in Nat
    BY <1>2, LenProperties
<1> HIDE DEF chain
<1>4. 0 \in N
    <2>1. SubSeq(chain, 1, 0) = <<>>
        BY SubSeqEmpty
    <2>2. R(0) = p
        BY <2>1, Upcasting!FoldEmpty
    <2> QED BY <1>1, <2>2
<1>5. ASSUME NEW k \in Nat, k \in N PROVE k + 1 \in N
    <2> SUFFICES ASSUME k + 1 <= Len(chain) PROVE Reached(k + 1)
        OBVIOUS
    <2>1. k + 1 \in 1..Len(chain) /\ (k + 1) - 1 = k /\ chain[k + 1] = k + 1
        BY <1>2, <1>3
    <2>2. R(k + 1) = UpcastBy(R(k), chain[k + 1])
        <3>1. \A j \in 1..Len(chain) : R(j) = UpcastBy(R(j - 1), chain[j])
            BY <1>2, Upcasting!FoldPrefix
        <3> QED BY <2>1, <3>1
    <2>3. PICK q : q = R(k)
        OBVIOUS
    <2>4. q \in Event /\ q.type = t /\ q.given = p.given /\ q.shape >= k + 1
        BY <1>3, <1>5, <2>1, <2>3
    <2>5. R(k + 1) = Upcast(k + 1, q)
        BY <2>1, <2>2, <2>3 DEF UpcastBy
    <2>6. /\ Upcast(k + 1, q) \in Event
          /\ Upcast(k + 1, q).type = t /\ Upcast(k + 1, q).given = p.given
          /\ Upcast(k + 1, q).shape >= (k + 1) + 1
        BY <2>4, UpcastIs
    <2> QED BY <2>5, <2>6
<1> HIDE DEF N
<1>6. Len(chain) \in N
    BY <1>3, <1>4, <1>5, Upcasting!SetInduction
<1>7. Reached(Len(chain))
    BY <1>3, <1>6 DEF N
<1>8. Upcasted(v, p) = R(Len(chain))
    <2>1. SubSeq(chain, 1, Len(chain)) = chain
        BY <1>2, SubSeqFull
    <2>2. Upcasted(v, p) = Upcasting!Result(p, chain)
        BY DEF Upcasted, FoldLeft, MapThenFoldSet, Max, UpcastBy, chain,
               Upcasting!Result, Upcasting!FoldLeft, Upcasting!MapThenFoldSet, Upcasting!Max
    <2> QED BY <2>1, <2>2
<1>9. PICK q : q = Upcasted(v, p)
    OBVIOUS
<1>10. q \in Event /\ q.type = t /\ q.given = p.given /\ q.shape >= Len(chain) + 1
    BY <1>7, <1>8, <1>9
<1>11. q.shape \in Nat /\ EventShape(v, t) \in Nat
    BY <1>1, <1>10, Shapes DEF Event
<1>12. q.shape >= EventShape(v, t)
    BY <1>2, <1>3, <1>10, <1>11
<1> QED BY <1>9, <1>10, <1>12

-----------------------------------------------------------------------------
(* What is known of a sequence of events. *)

Fact == [type : EventType, given : Nat]

(* Decoding tells a fact about an event. *)
LEMMA DecodedIs ==
    ASSUME NEW v \in Version, NEW p, p.type \in EventType, p.given \in Nat
    PROVE  Decoded(v, p) \in Fact
<1>1. EventShape(v, p.type) \in Nat
    BY Shapes
<1>2. Min({p.given, EventShape(v, p.type)}) \in Nat
    BY <1>1, MinIs
<1> QED BY <1>2 DEF Decoded, Fact

(* Payloads, or facts about them. *)
Readable(es) ==
    /\ es \in Seq(Event \cup Fact)
    /\ \A k \in 1..Len(es) : es[k].type \in EventType /\ es[k].given \in Nat

(* The log is readable, and what was read of it is. *)
LEMMA EventsAreReadable ==
    ASSUME NEW es, es \in Seq(Event) \/ es \in Seq(Fact)
    PROVE  Readable(es)
<1>1. ASSUME NEW S, S \subseteq Event \cup Fact, es \in Seq(S) PROVE Readable(es)
    <2>1. es \in Seq(Event \cup Fact)
        BY <1>1, SeqMonotonic
    <2>2. \A k \in 1..Len(es) : es[k] \in S
        BY <1>1, ElementOfSeq
    <2>3. \A p \in Event : p.type \in EventType /\ p.given \in Nat
        BY DEF Event
    <2>4. \A p \in Fact : p.type \in EventType /\ p.given \in Nat
        BY DEF Fact
    <2> QED BY <1>1, <2>1, <2>2, <2>3, <2>4 DEF Readable
<1>2. Event \subseteq Event \cup Fact /\ Fact \subseteq Event \cup Fact
    OBVIOUS
<1> QED BY <1>1, <1>2

(* Decoding goes event by event ... *)
LEMMA AllDecodedIs ==
    ASSUME NEW v \in Version, NEW es, Readable(es)
    PROVE  /\ AllDecoded(v, es) \in Seq(Fact)
           /\ Len(AllDecoded(v, es)) = Len(es)
           /\ Len(es) \in Nat
           /\ \A k \in 1..Len(es) : AllDecoded(v, es)[k] = Decoded(v, es[k])
<1>1. Len(es) \in Nat /\ DOMAIN es = 1..Len(es)
    BY LenProperties DEF Readable
<1>2. \A k \in 1..Len(es) : Decoded(v, es[k]) \in Fact
    BY DecodedIs DEF Readable
<1>3. AllDecoded(v, es) = [k \in 1..Len(es) |-> Decoded(v, es[k])]
    BY <1>1 DEF AllDecoded
<1>4. AllDecoded(v, es) \in [1..Len(es) -> Fact]
    BY <1>2, <1>3
<1>5. AllDecoded(v, es) \in Seq(Fact) /\ Len(AllDecoded(v, es)) = Len(es)
    <2>1. PICK f : f = AllDecoded(v, es)
        OBVIOUS
    <2>2. f \in Seq(Fact) /\ DOMAIN f = 1..Len(es)
        BY <1>1, <1>4, <2>1, SeqDef
    <2>3. DOMAIN f = 1..Len(f) /\ Len(f) \in Nat
        BY <2>2, LenProperties
    <2>4. Len(f) = Len(es)
        BY <1>1, <2>2, <2>3
    <2> QED BY <2>1, <2>2, <2>4
<1> QED BY <1>1, <1>3, <1>5

(* ... so what is read in two parts is read alike ... *)
LEMMA AllDecodedConcat ==
    ASSUME NEW v \in Version, NEW a \in Seq(Event), NEW b \in Seq(Event)
    PROVE  AllDecoded(v, a \o b) = AllDecoded(v, a) \o AllDecoded(v, b)
<1> DEFINE c == a \o b
           x == AllDecoded(v, a)
           y == AllDecoded(v, b)
           z == AllDecoded(v, c)
<1>1. /\ c \in Seq(Event) /\ Len(c) = Len(a) + Len(b) /\ Len(a) \in Nat /\ Len(b) \in Nat
      /\ \A k \in 1..Len(c) : c[k] = IF k <= Len(a) THEN a[k] ELSE b[k - Len(a)]
    BY ConcatProperties, LenProperties
<1> HIDE DEF c
<1>2. Readable(a) /\ Readable(b) /\ Readable(c)
    BY <1>1, EventsAreReadable
<1>3. /\ x \in Seq(Fact) /\ Len(x) = Len(a) /\ \A k \in 1..Len(a) : x[k] = Decoded(v, a[k])
      /\ y \in Seq(Fact) /\ Len(y) = Len(b) /\ \A k \in 1..Len(b) : y[k] = Decoded(v, b[k])
      /\ z \in Seq(Fact) /\ Len(z) = Len(c) /\ \A k \in 1..Len(c) : z[k] = Decoded(v, c[k])
    BY <1>2, AllDecodedIs
<1> HIDE DEF x, y, z
<1>4. /\ x \o y \in Seq(Fact) /\ Len(x \o y) = Len(x) + Len(y)
      /\ \A k \in 1..(Len(x) + Len(y)) : (x \o y)[k] = IF k <= Len(x) THEN x[k] ELSE y[k - Len(x)]
    <2>1. x \in Seq(Fact) /\ y \in Seq(Fact)
        BY <1>3
    <2> QED BY <2>1, ConcatProperties
<1>5. ASSUME NEW k \in 1..Len(z) PROVE z[k] = (x \o y)[k]
    <2>1. k \in 1..(Len(a) + Len(b))
        BY <1>1, <1>3
    <2>2. CASE k <= Len(a)
        BY <1>1, <1>3, <1>4, <2>1, <2>2
    <2>3. CASE ~(k <= Len(a))
        <3>1. k - Len(a) \in 1..Len(b)
            BY <1>1, <2>1, <2>3
        <3> QED BY <1>1, <1>3, <1>4, <2>1, <2>3, <3>1
    <2> QED BY <2>2, <2>3
<1>6. z = x \o y
    BY <1>1, <1>3, <1>4, <1>5, SeqEqual
<1> QED BY <1>6 DEF c, x, y, z

(* ... and so is what a release makes of another's snapshot that decodes. *)
LEMMA AllDecodedTwice ==
    ASSUME NEW v \in Version, NEW w \in Version, StateShape(v) <= StateShape(w),
           NEW es \in Seq(Event)
    PROVE  AllDecoded(v, AllDecoded(w, es)) = AllDecoded(v, es)
<1> DEFINE x == AllDecoded(w, es)
           y == AllDecoded(v, x)
           z == AllDecoded(v, es)
<1>1. Readable(es)
    BY EventsAreReadable
<1>2. /\ x \in Seq(Fact) /\ Len(x) = Len(es) /\ \A k \in 1..Len(es) : x[k] = Decoded(w, es[k])
      /\ z \in Seq(Fact) /\ Len(z) = Len(es) /\ \A k \in 1..Len(es) : z[k] = Decoded(v, es[k])
    BY <1>1, AllDecodedIs
<1>3. Readable(x)
    BY <1>2, EventsAreReadable
<1> HIDE DEF x, z
<1>4. y \in Seq(Fact) /\ Len(y) = Len(x) /\ \A k \in 1..Len(x) : y[k] = Decoded(v, x[k])
    BY <1>3, AllDecodedIs
<1> HIDE DEF y
<1>5. ASSUME NEW k \in 1..Len(y) PROVE y[k] = z[k]
    <2>1. k \in 1..Len(es)
        BY <1>2, <1>4
    <2>2. PICK p : p = es[k] /\ p.type \in EventType /\ p.given \in Nat
        BY <1>1, <2>1 DEF Readable
    <2>3. y[k] = Decoded(v, Decoded(w, p)) /\ z[k] = Decoded(v, p)
        BY <1>2, <1>4, <2>1, <2>2
    <2>4. EventShape(v, p.type) <= EventShape(w, p.type)
        BY <2>2, StateCoversEvents
    <2> QED BY <2>2, <2>3, <2>4, DecodedTwice
<1>6. y = z
    BY <1>2, <1>4, <1>5, SeqEqual
<1> QED BY <1>6 DEF x, y, z

-----------------------------------------------------------------------------
(* What a release reads. *)

(* A fold fails on an event that does not decode, and on nothing else. *)
LEMMA FoldedIs ==
    ASSUME NEW v, NEW base, NEW payloads
    PROVE  /\ (\A k \in DOMAIN payloads : Decodes(v, payloads[k])) =>
                /\ Folded(v, base, payloads).ok
                /\ Folded(v, base, payloads).version = base.version + Len(payloads)
                /\ Folded(v, base, payloads).state = base.state \o AllDecoded(v, payloads)
           /\ Folded(v, base, payloads).ok => \A k \in DOMAIN payloads : Decodes(v, payloads[k])
BY DEF Folded, Failure

(* A load that is not snapshotted, from the log or from what a release     *)
(* makes of it.                                                            *)
LEMMA FullLoadIs ==
    ASSUME NEW v \in Version, NEW es \in Seq(Event), Folded(v, NoSnapshot, es).ok
    PROVE  /\ Folded(v, NoSnapshot, es).version = Len(es)
           /\ Folded(v, NoSnapshot, es).state = AllDecoded(v, es)
<1>1. Readable(es)
    BY EventsAreReadable
<1>2. AllDecoded(v, es) \in Seq(Fact) /\ Len(es) \in Nat
    BY <1>1, AllDecodedIs
<1>3. NoSnapshot.version = 0 /\ NoSnapshot.state = <<>>
    BY DEF NoSnapshot
<1>4. /\ Folded(v, NoSnapshot, es).version = 0 + Len(es)
      /\ Folded(v, NoSnapshot, es).state = <<>> \o AllDecoded(v, es)
    BY <1>3, FoldedIs
<1>5. <<>> \o AllDecoded(v, es) = AllDecoded(v, es)
    BY <1>2, ConcatEmptySeq
<1> QED BY <1>2, <1>4, <1>5

(* Upcasters change no fact, and what they leave has the release's shape. *)
LEMMA RenderedAlike ==
    ASSUME NEW v \in Version, NEW es \in Seq(Event),
           NEW up, up = [k \in DOMAIN es |-> Upcasted(v, es[k])]
    PROVE  /\ up \in Seq(Event)
           /\ DOMAIN up = DOMAIN es /\ Len(up) = Len(es)
           /\ \A k \in DOMAIN es : up[k].shape >= EventShape(v, es[k].type) /\ up[k].type = es[k].type
           /\ AllDecoded(v, up) = AllDecoded(v, es)
<1>1. DOMAIN es = 1..Len(es) /\ Len(es) \in Nat
    BY LenProperties
<1>2. ASSUME NEW k \in DOMAIN es
      PROVE  /\ up[k] \in Event
             /\ up[k].type = es[k].type /\ up[k].given = es[k].given
             /\ up[k].shape >= EventShape(v, es[k].type)
    <2>1. es[k] \in Event
        BY <1>1, ElementOfSeq
    <2> QED BY <2>1, UpcastedIs
<1>3. up \in [1..Len(es) -> Event]
    BY <1>1, <1>2
<1>4. up \in Seq(Event)
    BY <1>1, <1>3, SeqDef
<1>5. DOMAIN up = 1..Len(up) /\ Len(up) \in Nat
    BY <1>4, LenProperties
<1>6. DOMAIN up = DOMAIN es /\ Len(up) = Len(es)
    BY <1>1, <1>5
<1>7. AllDecoded(v, up) = AllDecoded(v, es)
    <2>1. \A k \in DOMAIN es : Decoded(v, up[k]) = Decoded(v, es[k])
        BY <1>2 DEF Decoded
    <2> QED BY <1>6, <2>1 DEF AllDecoded
<1> QED BY <1>2, <1>4, <1>6, <1>7

(* A snapshot splits the log into what it covers and the tail. *)
LEMMA LogIsSplit ==
    ASSUME log \in Seq(Event), NEW n \in 0..Len(log)
    PROVE  /\ SubSeq(log, 1, n) \in Seq(Event) /\ Len(SubSeq(log, 1, n)) = n
           /\ SubSeq(log, n + 1, Len(log)) \in Seq(Event)
           /\ Len(SubSeq(log, n + 1, Len(log))) = Len(log) - n
           /\ \A k \in 1..(Len(log) - n) : SubSeq(log, n + 1, Len(log))[k] = log[n + k]
           /\ SubSeq(log, 1, n) \o SubSeq(log, n + 1, Len(log)) = log
<1>1. Len(log) \in Nat /\ \A k \in 1..Len(log) : log[k] \in Event
    BY LenProperties, ElementOfSeq
<1>2. SubSeq(log, 1, n) \in Seq(Event) /\ Len(SubSeq(log, 1, n)) = n
    <2>1. \A k \in 1..n : log[k] \in Event
        BY <1>1
    <2> QED BY <1>1, <2>1, SubSeqProperties
<1>3. /\ SubSeq(log, n + 1, Len(log)) \in Seq(Event)
      /\ Len(SubSeq(log, n + 1, Len(log))) = Len(log) - n
      /\ \A k \in 1..(Len(log) - n) : SubSeq(log, n + 1, Len(log))[k] = log[n + k]
    <2> DEFINE m == n + 1
    <2>1. \A k \in m..Len(log) : log[k] \in Event
        BY <1>1
    <2>2. /\ SubSeq(log, m, Len(log)) \in Seq(Event)
          /\ Len(SubSeq(log, m, Len(log))) = IF m <= Len(log) THEN Len(log) - m + 1 ELSE 0
          /\ \A k \in 1..(Len(log) - m + 1) : SubSeq(log, m, Len(log))[k] = log[m + k - 1]
        BY <1>1, <2>1, SubSeqProperties
    <2>3. \A k \in 1..(Len(log) - n) : k \in 1..(Len(log) - m + 1) /\ m + k - 1 = n + k
        BY <1>1
    <2> QED BY <1>1, <2>2, <2>3
<1>4. SubSeq(log, 1, n) \o SubSeq(log, n + 1, Len(log)) = SubSeq(log, 1, Len(log))
    <2>1. 1 \in 1..(Len(log) + 1) /\ n \in (1 - 1)..Len(log) /\ Len(log) \in n..Len(log)
        BY <1>1
    <2> QED BY <2>1, ConcatAdjacentSubSeq
<1> QED BY <1>2, <1>3, <1>4, SubSeqFull

(* What load_snapshotted starts from is what v makes of the events that    *)
(* the snapshot covers, whichever release took it.                         *)
Base(v) == [snapshot EXCEPT !.state = AllDecoded(v, @)]

LEMMA BaseIs ==
    ASSUME EInv, NEW v \in Version, SnapshotDecodes(v)
    PROVE  /\ snapshot.version \in 0..Len(log)
           /\ Base(v).version = snapshot.version
           /\ Base(v).state = AllDecoded(v, SubSeq(log, 1, snapshot.version))
<1>1. log \in Seq(Event) /\ Len(log) \in Nat
    BY LenProperties DEF EInv
<1>2. CASE snapshot = NoSnapshot
    <2>1. snapshot.version = 0 /\ Base(v).version = 0 /\ Base(v).state = AllDecoded(v, <<>>)
        BY <1>2 DEF NoSnapshot, Base
    <2>2. SubSeq(log, 1, snapshot.version) = <<>>
        <3>1. \A n \in Int : n < 1 => SubSeq(log, 1, n) = <<>>
            BY SubSeqEmpty
        <3> QED BY <2>1, <3>1
    <2>3. snapshot.version \in 0..Len(log)
        BY <1>1, <2>1
    <2>4. Base(v).state = AllDecoded(v, SubSeq(log, 1, snapshot.version))
        BY <2>1, <2>2
    <2> QED BY <2>1, <2>3, <2>4
<1>3. CASE snapshot # NoSnapshot
    <2>1. PICK w \in Version, n \in 1..Len(log) : snapshot = SnapshotAt(w, n)
        BY <1>3 DEF EInv, SnapshotOf
    <2>2. PICK prefix : prefix = SubSeq(log, 1, n)
        OBVIOUS
    <2>3. snapshot = [version |-> n, shape |-> StateShape(w), state |-> AllDecoded(w, prefix)]
        BY <2>1, <2>2 DEF SnapshotAt
    <2>4. /\ snapshot.version = n /\ snapshot.shape = StateShape(w)
          /\ Base(v).version = n /\ Base(v).state = AllDecoded(v, AllDecoded(w, prefix))
        BY <2>3 DEF Base
    <2>5. StateShape(v) <= StateShape(w)
        <3>1. snapshot.shape >= StateShape(v)
            BY <1>3 DEF SnapshotDecodes
        <3> QED BY <2>4, <3>1, Shapes
    <2>6. n \in 0..Len(log)
        BY <1>1
    <2>7. prefix \in Seq(Event)
        BY <1>1, <2>2, <2>6, LogIsSplit
    <2>8. AllDecoded(v, AllDecoded(w, prefix)) = AllDecoded(v, prefix)
        BY <2>5, <2>7, AllDecodedTwice
    <2> QED BY <2>2, <2>4, <2>6, <2>8
<1> QED BY <1>2, <1>3

(* A snapshotted load is a load of the whole stream, or fails. *)
LEMMA SnapshotLoadIs ==
    ASSUME EInv, NEW v \in Version
    PROVE  /\ LoadSnapshotted(v).ok =>
                /\ LoadSnapshotted(v).version = Len(log)
                /\ LoadSnapshotted(v).state = AllDecoded(v, log)
           /\ /\ SnapshotDecodes(v)
              /\ \A k \in (snapshot.version + 1)..Len(log) : Decodes(v, log[k])
              => LoadSnapshotted(v).ok
<1>1. log \in Seq(Event) /\ Len(log) \in Nat
    BY LenProperties DEF EInv
<1>2. CASE ~SnapshotDecodes(v)
    <2>1. ~LoadSnapshotted(v).ok
        BY <1>2 DEF LoadSnapshotted, Failure
    <2> QED BY <1>2, <2>1
<1>3. CASE SnapshotDecodes(v)
    <2>1. PICK n \in 0..Len(log) :
            /\ n = snapshot.version
            /\ Base(v).version = n
            /\ Base(v).state = AllDecoded(v, SubSeq(log, 1, n))
        BY <1>3, BaseIs
    <2>2. PICK a, b : a = SubSeq(log, 1, n) /\ b = SubSeq(log, n + 1, Len(log))
        OBVIOUS
    <2>3. /\ a \in Seq(Event) /\ b \in Seq(Event)
          /\ Len(b) = Len(log) - n
          /\ \A k \in 1..(Len(log) - n) : b[k] = log[n + k]
          /\ a \o b = log
        BY <1>1, <2>2, LogIsSplit
    <2>4. DOMAIN b = 1..(Len(log) - n)
        BY <2>3, LenProperties
    <2>5. LoadSnapshotted(v) = Folded(v, Base(v), b)
        BY <1>3, <2>1, <2>2 DEF LoadSnapshotted, Base, TailAfter
    <2>6. ASSUME LoadSnapshotted(v).ok
          PROVE  /\ LoadSnapshotted(v).version = Len(log)
                 /\ LoadSnapshotted(v).state = AllDecoded(v, log)
        <3>1. \A k \in DOMAIN b : Decodes(v, b[k])
            BY <2>5, <2>6, FoldedIs
        <3>2. /\ LoadSnapshotted(v).version = n + Len(b)
              /\ LoadSnapshotted(v).state = AllDecoded(v, a) \o AllDecoded(v, b)
            <4>1. PICK base : base = Base(v)
                OBVIOUS
            <4>2. /\ Folded(v, base, b).version = base.version + Len(b)
                  /\ Folded(v, base, b).state = base.state \o AllDecoded(v, b)
                BY <3>1, FoldedIs
            <4>3. base.version = n /\ base.state = AllDecoded(v, a)
                BY <2>1, <2>2, <4>1
            <4>4. LoadSnapshotted(v) = Folded(v, base, b)
                BY <2>5, <4>1
            <4> QED BY <4>2, <4>3, <4>4
        <3>3. n + Len(b) = Len(log)
            BY <1>1, <2>3
        <3> QED BY <2>3, <3>2, <3>3, AllDecodedConcat
    <2>7. ASSUME \A k \in (n + 1)..Len(log) : Decodes(v, log[k])
          PROVE  LoadSnapshotted(v).ok
        <3>1. ASSUME NEW k \in DOMAIN b PROVE Decodes(v, b[k])
            <4>1. n + k \in (n + 1)..Len(log) /\ b[k] = log[n + k]
                BY <1>1, <2>3, <2>4
            <4> QED BY <2>7, <4>1
        <3> QED BY <2>5, <3>1, FoldedIs
    <2> QED BY <2>1, <2>6, <2>7
<1> QED BY <1>2, <1>3

-----------------------------------------------------------------------------
(* What follows from the invariant. *)

(* An event that a release, or a newer one, wrote: an older one decodes it *)
(* if it has the type.                                                     *)
LEMMA OlderDecodes ==
    ASSUME NEW v \in Version, NEW w \in Version, v <= w, NEW p, WrittenBy(p, w),
           Knows(v, p.type)
    PROVE  Decodes(v, p)
<1>1. p \in Event /\ p.shape = EventShape(w, p.type)
    BY WrittenIs
<1>2. p.type \in EventType
    BY <1>1 DEF Event
<1>3. EventShape(v, p.type) <= EventShape(w, p.type) /\ EventShape(v, p.type) \in Nat
      /\ EventShape(w, p.type) \in Nat
    BY <1>2, Shapes
<1> QED BY <1>1, <1>3 DEF Decodes

(* No release reads anything that is not so. *)
LEMMA Truths == EInv => LoadsTellTruth
<1> SUFFICES ASSUME EInv, NEW v \in Version
             PROVE  /\ Load(v).ok => Load(v).version = Len(log) /\ Load(v).state = Truth(v)
                    /\ LoadSnapshotted(v).ok =>
                          LoadSnapshotted(v).version = Len(log) /\ LoadSnapshotted(v).state = Truth(v)
                    /\ Render(v).ok => Render(v).version = Len(log) /\ Render(v).state = Truth(v)
    BY DEF LoadsTellTruth
<1>1. log \in Seq(Event)
    BY DEF EInv
<1>2. Load(v).ok => Load(v).version = Len(log) /\ Load(v).state = Truth(v)
    BY <1>1, FullLoadIs DEF Load, Truth
<1>3. LoadSnapshotted(v).ok =>
          LoadSnapshotted(v).version = Len(log) /\ LoadSnapshotted(v).state = Truth(v)
    BY SnapshotLoadIs DEF Truth
<1>4. ASSUME Render(v).ok
      PROVE  Render(v).version = Len(log) /\ Render(v).state = Truth(v)
    <2>1. PICK up : up = [k \in DOMAIN log |-> Upcasted(v, log[k])]
        OBVIOUS
    <2>2. Render(v) = Folded(v, NoSnapshot, up)
        BY <2>1 DEF Render
    <2>3. up \in Seq(Event) /\ Len(up) = Len(log) /\ AllDecoded(v, up) = AllDecoded(v, log)
        BY <1>1, <2>1, RenderedAlike
    <2> QED BY <1>4, <2>2, <2>3, FullLoadIs DEF Truth
<1> QED BY <1>2, <1>3, <1>4

(* Upcasters get every payload of a known type to decode. *)
LEMMA Renders == EInv => RenderReadsEverything
<1> SUFFICES ASSUME EInv, NEW v \in Version, ~HasUnknown(v) PROVE Render(v).ok
    BY DEF RenderReadsEverything
<1>1. log \in Seq(Event)
    BY DEF EInv
<1>2. PICK up : up = [k \in DOMAIN log |-> Upcasted(v, log[k])]
    OBVIOUS
<1>3. /\ DOMAIN up = DOMAIN log
      /\ \A k \in DOMAIN log : up[k].shape >= EventShape(v, log[k].type) /\ up[k].type = log[k].type
    BY <1>1, <1>2, RenderedAlike
<1>4. \A k \in DOMAIN up : Decodes(v, up[k])
    BY <1>3 DEF Decodes, HasUnknown
<1> QED BY <1>2, <1>4, FoldedIs DEF Render

(* The oldest release reads what the others wrote. *)
LEMMA Rollbacks == EInv => RollbackLoads
<1> SUFFICES ASSUME EInv, NEW v \in Version, \A w \in deployed : v <= w, ~HasUnknown(v)
             PROVE  Load(v).ok /\ LoadSnapshotted(v).ok
    BY DEF RollbackLoads
<1>1. log \in Seq(Event) /\ Len(log) \in Nat /\ DOMAIN log = 1..Len(log)
    BY LenProperties DEF EInv
<1>2. ASSUME NEW k \in DOMAIN log PROVE Decodes(v, log[k])
    <2>1. PICK w \in Version : w \in deployed /\ WrittenBy(log[k], w)
        BY DEF EInv
    <2> QED BY <2>1, OlderDecodes DEF HasUnknown
<1>3. Load(v).ok
    BY <1>2, FoldedIs DEF Load
<1>4. SnapshotDecodes(v)
    <2> SUFFICES ASSUME snapshot # NoSnapshot PROVE snapshot.shape >= StateShape(v)
        BY DEF SnapshotDecodes
    <2>1. PICK w \in Version, n \in 1..Len(log) : w \in deployed /\ snapshot = SnapshotAt(w, n)
        BY DEF EInv, SnapshotOf
    <2>2. snapshot.shape = StateShape(w)
        BY <2>1 DEF SnapshotAt
    <2> QED BY <2>1, <2>2, Shapes
<1>5. \A k \in (snapshot.version + 1)..Len(log) : Decodes(v, log[k])
    <2>1. snapshot.version \in Nat
        BY <1>4, BaseIs
    <2> QED BY <1>1, <1>2, <2>1
<1> QED BY <1>3, <1>4, <1>5, SnapshotLoadIs

(* A migrated snapshot leaves its release what it can decode. *)
LEMMA Migrations == EInv => MigrationSticks
<1> SUFFICES ASSUME EInv, migrated # 0, ~HasUnknown(migrated)
             PROVE  LoadSnapshotted(migrated).ok
    BY DEF MigrationSticks
<1>1. Migrated(migrated)
    BY DEF EInv
<1>2. log \in Seq(Event) /\ Len(log) \in Nat /\ DOMAIN log = 1..Len(log)
    BY LenProperties DEF EInv
<1>3. SnapshotDecodes(migrated)
    BY <1>1 DEF Migrated, SnapshotDecodes
<1>4. ASSUME NEW k \in (snapshot.version + 1)..Len(log) PROVE Decodes(migrated, log[k])
    <2>1. snapshot.version \in Nat
        BY <1>1, <1>3, BaseIs DEF Migrated
    <2>2. k \in DOMAIN log
        BY <1>2, <2>1
    <2>3. Knows(migrated, log[k].type)
        BY <2>2 DEF HasUnknown
    <2> QED BY <1>1, <2>3 DEF Migrated, Decodes
<1> QED BY <1>1, <1>3, <1>4, SnapshotLoadIs DEF Migrated

-----------------------------------------------------------------------------
(* Every step keeps the invariant. *)

(* The stream grows at its end. *)
LEMMA LogGrows ==
    ASSUME log \in Seq(Event), NEW e \in Event, log' = Append(log, e)
    PROVE  /\ log' \in Seq(Event)
           /\ Len(log) \in Nat /\ Len(log') = Len(log) + 1
           /\ DOMAIN log = 1..Len(log) /\ DOMAIN log' = 1..(Len(log) + 1)
           /\ \A k \in 1..Len(log) : log'[k] = log[k]
           /\ log'[Len(log) + 1] = e
           /\ log' = log \o <<e>>
           /\ \A n \in 1..Len(log) : SubSeq(log', 1, n) = SubSeq(log, 1, n)
           /\ SubSeq(log', 1, Len(log) + 1) = log'
<1>1. /\ log' \in Seq(Event) /\ Len(log') = Len(log) + 1 /\ Len(log) \in Nat
      /\ \A k \in 1..Len(log) : log'[k] = log[k]
      /\ log'[Len(log) + 1] = e
    BY AppendProperties, LenProperties
<1>2. DOMAIN log = 1..Len(log) /\ DOMAIN log' = 1..(Len(log) + 1)
    BY <1>1, LenProperties
<1>3. log' = log \o <<e>>
    BY AppendIsConcat
<1>4. ASSUME NEW n \in 1..Len(log) PROVE SubSeq(log', 1, n) = SubSeq(log, 1, n)
    <2> DEFINE a == SubSeq(log, 1, n)
               b == SubSeq(log', 1, n)
    <2>1. \A k \in 1..n : k \in 1..Len(log) /\ log[k] \in Event /\ log'[k] \in Event
        BY <1>1, ElementOfSeq
    <2>2. /\ a \in Seq(Event) /\ Len(a) = n /\ \A k \in 1..n : a[k] = log[k]
        BY <1>1, <2>1, SubSeqProperties
    <2>3. /\ b \in Seq(Event) /\ Len(b) = n /\ \A k \in 1..n : b[k] = log'[k]
        BY <1>1, <2>1, SubSeqProperties
    <2> HIDE DEF a, b
    <2>4. \A k \in 1..Len(b) : b[k] = a[k]
        BY <1>1, <2>1, <2>2, <2>3
    <2>5. b = a
        BY <2>2, <2>3, <2>4, SeqEqual
    <2> QED BY <2>5 DEF a, b
<1>5. SubSeq(log', 1, Len(log')) = log'
    BY <1>1, SubSeqFull
<1> QED BY <1>1, <1>2, <1>3, <1>4, <1>5

(* What release v records keeps the part of the invariant that is about    *)
(* the log, and what is there of a migration for v or an older release.    *)
LEMMA Recording ==
    ASSUME EInv, NEW v \in running, NEW t \in EventType, Knows(v, t),
           log' = Append(log, Written(v, t)), UNCHANGED <<running, deployed, migrated>>
    PROVE  /\ v \in deployed /\ v \in Version
           /\ Written(v, t) \in Event /\ WrittenBy(Written(v, t), v)
           /\ log' \in Seq(Event)
           /\ \A k \in DOMAIN log' : \E w \in deployed' : WrittenBy(log'[k], w)
           /\ \A m \in Version : \A s \in Nat :
                 /\ m <= v
                 /\ \A k \in (s + 1)..Len(log) : log[k].shape >= EventShape(m, log[k].type)
                 => \A k \in (s + 1)..Len(log') : log'[k].shape >= EventShape(m, log'[k].type)
<1>1. v \in deployed /\ v \in Version
    BY DEF EInv
<1>2. WrittenBy(Written(v, t), v)
    BY DEF WrittenBy
<1>3. Written(v, t) \in Event
    BY <1>1, <1>2, WrittenIs
<1>4. PICK e \in Event : e = Written(v, t)
    BY <1>3
<1>5. log \in Seq(Event) /\ log' = Append(log, e)
    BY <1>4 DEF EInv
<1>6. /\ log' \in Seq(Event)
      /\ Len(log) \in Nat /\ Len(log') = Len(log) + 1
      /\ DOMAIN log = 1..Len(log) /\ DOMAIN log' = 1..(Len(log) + 1)
      /\ \A k \in 1..Len(log) : log'[k] = log[k]
      /\ log'[Len(log) + 1] = e
    BY <1>5, LogGrows
<1>7. ASSUME NEW k \in DOMAIN log' PROVE \E w \in deployed' : WrittenBy(log'[k], w)
    <2>1. CASE k \in DOMAIN log
        <3>1. PICK w \in deployed : WrittenBy(log[k], w)
            BY <2>1 DEF EInv
        <3>2. log'[k] = log[k]
            BY <1>6, <2>1
        <3>3. WrittenBy(log'[k], w)
            BY <3>1, <3>2 DEF WrittenBy
        <3> QED BY <3>1, <3>3
    <2>2. CASE k = Len(log) + 1
        <3>1. WrittenBy(log'[k], v)
            BY <1>2, <1>4, <1>6, <2>2 DEF WrittenBy
        <3> QED BY <1>1, <3>1
    <2> QED BY <1>6, <2>1, <2>2
<1>8. ASSUME NEW m \in Version, NEW s \in Nat, m <= v,
             \A k \in (s + 1)..Len(log) : log[k].shape >= EventShape(m, log[k].type),
             NEW k \in (s + 1)..Len(log')
      PROVE  log'[k].shape >= EventShape(m, log'[k].type)
    <2>1. CASE k \in (s + 1)..Len(log)
        <3>1. log'[k] = log[k]
            BY <1>6, <2>1
        <3> QED BY <1>8, <2>1, <3>1
    <2>2. CASE k = Len(log) + 1
        <3>1. log'[k] = e
            BY <1>6, <2>2
        <3>2. e.shape = EventShape(v, t) /\ e.type = t
            BY <1>4 DEF Written
        <3>3. EventShape(m, t) <= EventShape(v, t) /\ EventShape(m, t) \in Nat /\ EventShape(v, t) \in Nat
            BY <1>1, <1>8, Shapes
        <3> QED BY <3>1, <3>2, <3>3
    <2> QED BY <1>6, <2>1, <2>2
<1> QED BY <1>1, <1>2, <1>3, <1>6, <1>7, <1>8

(* What a snapshot was and what a migration had to decode is both found in *)
(* the longer log.                                                         *)
LEMMA OldSnapshotStays ==
    ASSUME EInv, NEW v \in running, NEW t \in EventType, Knows(v, t),
           log' = Append(log, Written(v, t)), UNCHANGED <<snapshot, running, deployed, migrated>>
    PROVE  EInv'
<1>1. /\ v \in deployed /\ v \in Version
      /\ Written(v, t) \in Event
      /\ log' \in Seq(Event)
      /\ \A k \in DOMAIN log' : \E w \in deployed' : WrittenBy(log'[k], w)
      /\ \A m \in Version : \A s \in Nat :
            /\ m <= v
            /\ \A k \in (s + 1)..Len(log) : log[k].shape >= EventShape(m, log[k].type)
            => \A k \in (s + 1)..Len(log') : log'[k].shape >= EventShape(m, log'[k].type)
    BY Recording
<1>2. /\ Len(log) \in Nat /\ Len(log') = Len(log) + 1
      /\ \A n \in 1..Len(log) : SubSeq(log', 1, n) = SubSeq(log, 1, n)
    BY <1>1, LogGrows DEF EInv
<1>3. snapshot' = NoSnapshot \/ \E w \in deployed' : SnapshotOf(w)'
    <2> SUFFICES ASSUME snapshot # NoSnapshot PROVE \E w \in deployed : SnapshotOf(w)'
        OBVIOUS
    <2>1. PICK w \in deployed, n \in 1..Len(log) : snapshot = SnapshotAt(w, n)
        BY DEF EInv, SnapshotOf
    <2>2. snapshot' = SnapshotAt(w, n)' /\ n \in 1..Len(log')
        <3>1. /\ SnapshotAt(w, n) = [version |-> n, shape |-> StateShape(w),
                                     state |-> AllDecoded(w, SubSeq(log, 1, n))]
              /\ SnapshotAt(w, n)' = [version |-> n, shape |-> StateShape(w),
                                      state |-> AllDecoded(w, SubSeq(log', 1, n))]
            BY DEF SnapshotAt
        <3>2. SubSeq(log', 1, n) = SubSeq(log, 1, n)
            BY <1>2
        <3>3. SnapshotAt(w, n)' = SnapshotAt(w, n)
            BY <3>1, <3>2
        <3> QED BY <1>2, <2>1, <3>3
    <2> QED BY <2>2 DEF SnapshotOf
<1>4. ASSUME migrated' # 0 PROVE Migrated(migrated)'
    <2>1. /\ migrated \in Version
          /\ \A w \in running : migrated <= w
          /\ snapshot # NoSnapshot
          /\ snapshot.shape >= StateShape(migrated)
          /\ \A k \in (snapshot.version + 1)..Len(log) :
                log[k].shape >= EventShape(migrated, log[k].type)
        BY <1>4 DEF EInv, Migrated
    <2>2. snapshot.version \in Nat
        <3>1. PICK w \in deployed, n \in 1..Len(log) : snapshot = SnapshotAt(w, n)
            BY <2>1 DEF EInv, SnapshotOf
        <3> QED BY <1>2, <3>1 DEF SnapshotAt
    <2>3. \A k \in (snapshot.version + 1)..Len(log') :
                log'[k].shape >= EventShape(migrated, log'[k].type)
        BY <1>1, <2>1, <2>2
    <2> QED BY <2>1, <2>3 DEF Migrated
<1> QED BY <1>1, <1>3, <1>4 DEF EInv

(* Each action keeps the invariant: execute, ... *)
LEMMA ExecuteStep ==
    ASSUME EInv, NEW v \in running, Execute(v)
    PROVE  EInv'
<1>1. PICK t \in EventType : Knows(v, t) /\ log' = Append(log, Written(v, t))
    BY DEF Execute
<1> QED BY <1>1, OldSnapshotStays DEF Execute

(* The snapshot that v takes of the stream with its own event in it. *)
LEMMA SnapshotTaken ==
    ASSUME EInv, NEW v \in running, NEW t \in EventType, Knows(v, t), LoadSnapshotted(v).ok,
           log' = Append(log, Written(v, t)),
           snapshot' = SnapshotBy(v, Folded(v, LoadSnapshotted(v), <<Written(v, t)>>)),
           UNCHANGED <<running, deployed, migrated>>
    PROVE  EInv'
<1>1. /\ v \in deployed /\ v \in Version
      /\ Written(v, t) \in Event /\ WrittenBy(Written(v, t), v)
      /\ log' \in Seq(Event)
      /\ \A k \in DOMAIN log' : \E w \in deployed' : WrittenBy(log'[k], w)
    BY Recording
<1>2. PICK e \in Event : e = Written(v, t)
    BY <1>1
<1>3. /\ log \in Seq(Event) /\ log' = log \o <<e>>
      /\ Len(log) \in Nat /\ Len(log') = Len(log) + 1
    BY <1>2, LogGrows DEF EInv
<1>4. <<e>> \in Seq(Event) /\ DOMAIN <<e>> = {1} /\ <<e>>[1] = e /\ Len(<<e>>) = 1
    OBVIOUS
<1>5. \A k \in DOMAIN <<e>> : Decodes(v, <<e>>[k])
    <2>1. e.type = t
        BY <1>2 DEF Written
    <2>2. v <= v
        BY <1>1, Shapes
    <2>3. Decodes(v, e)
        BY <1>1, <1>2, <2>1, <2>2, OlderDecodes
    <2> QED BY <1>4, <2>3
<1>6. PICK loaded : /\ loaded = LoadSnapshotted(v)
                    /\ loaded.version = Len(log) /\ loaded.state = AllDecoded(v, log)
    BY <1>1, SnapshotLoadIs
<1>7. /\ Folded(v, loaded, <<e>>).version = loaded.version + Len(<<e>>)
      /\ Folded(v, loaded, <<e>>).state = loaded.state \o AllDecoded(v, <<e>>)
    BY <1>5, FoldedIs
<1>8. AllDecoded(v, log') = AllDecoded(v, log) \o AllDecoded(v, <<e>>)
    BY <1>1, <1>3, <1>4, AllDecodedConcat
<1>9. snapshot' = [version |-> Len(log'), shape |-> StateShape(v), state |-> AllDecoded(v, log')]
    <2>1. PICK whole : whole = Folded(v, loaded, <<e>>)
        OBVIOUS
    <2>2. whole.version = Len(log') /\ whole.state = AllDecoded(v, log')
        BY <1>3, <1>4, <1>6, <1>7, <1>8, <2>1
    <2>3. snapshot' = SnapshotBy(v, whole)
        BY <1>2, <1>6, <2>1
    <2> QED BY <2>2, <2>3 DEF SnapshotBy
<1>10. SnapshotOf(v)' /\ (snapshot # NoSnapshot)' /\ snapshot'.version = Len(log')
    <2>1. SubSeq(log', 1, Len(log')) = log'
        BY <1>1, SubSeqFull
    <2>2. snapshot'.version = Len(log') /\ Len(log') \in 1..Len(log')
        BY <1>3, <1>9
    <2>3. snapshot' # NoSnapshot
        BY <1>3, <2>2 DEF NoSnapshot
    <2>4. snapshot' = [version |-> Len(log'), shape |-> StateShape(v),
                       state |-> AllDecoded(v, SubSeq(log', 1, Len(log')))]
        BY <1>9, <2>1
    <2>5. SnapshotOf(v)'
        BY <2>2, <2>4 DEF SnapshotOf, SnapshotAt
    <2>6. (snapshot # NoSnapshot)'
        BY <2>3 DEF NoSnapshot
    <2> QED BY <2>2, <2>5, <2>6
<1>11. ASSUME migrated' # 0 PROVE Migrated(migrated)'
    <2>1. migrated \in Version /\ \A w \in running : migrated <= w
        BY <1>11 DEF EInv, Migrated
    <2>2. StateShape(migrated) <= StateShape(v) /\ snapshot'.shape = StateShape(v)
        BY <1>1, <1>9, <2>1, Shapes
    <2>3. snapshot'.shape >= StateShape(migrated)
        BY <1>1, <2>1, <2>2, Shapes
    <2>4. (snapshot'.version + 1)..Len(log') = {}
        BY <1>3, <1>10
    <2> QED BY <1>10, <2>1, <2>3, <2>4 DEF Migrated
<1> QED BY <1>1, <1>10, <1>11 DEF EInv

(* ... execute_snapshotting, which takes a snapshot or leaves the old one, *)
(* ...                                                                     *)
LEMMA ExecuteSnapshottingStep ==
    ASSUME EInv, NEW v \in running, ExecuteSnapshotting(v)
    PROVE  EInv'
<1>1. PICK t \in EventType :
        /\ Knows(v, t)
        /\ log' = Append(log, Written(v, t))
        /\ snapshot' \in {snapshot,
                          SnapshotBy(v, Folded(v, LoadSnapshotted(v), <<Written(v, t)>>))}
    BY DEF ExecuteSnapshotting
<1>2. LoadSnapshotted(v).ok /\ UNCHANGED <<running, deployed, migrated>>
    BY DEF ExecuteSnapshotting
<1>3. CASE snapshot' = snapshot
    BY <1>1, <1>2, <1>3, OldSnapshotStays
<1>4. CASE snapshot' = SnapshotBy(v, Folded(v, LoadSnapshotted(v), <<Written(v, t)>>))
    BY <1>1, <1>2, <1>4, SnapshotTaken
<1> QED BY <1>1, <1>3, <1>4

(* ... a migration, of which Truths says what it renders, ... *)
LEMMA MigrateStep ==
    ASSUME EInv, NEW v \in running, Migrate(v)
    PROVE  EInv'
<1>1. /\ log # <<>> /\ Render(v).ok /\ snapshot' = SnapshotBy(v, Render(v))
      /\ migrated' = IF \A w \in running : v <= w THEN v ELSE migrated
      /\ UNCHANGED <<log, running, deployed>>
    BY DEF Migrate
<1>2. v \in deployed /\ v \in Version /\ log \in Seq(Event)
    BY DEF EInv
<1>3. Len(log) \in Nat \ {0}
    BY <1>1, <1>2, EmptySeq
<1>4. Render(v).version = Len(log) /\ Render(v).state = AllDecoded(v, log)
    BY <1>1, <1>2, Truths DEF LoadsTellTruth, Truth
<1>5. snapshot' = [version |-> Len(log), shape |-> StateShape(v), state |-> AllDecoded(v, log)]
    BY <1>1, <1>4 DEF SnapshotBy
<1>6. /\ SnapshotOf(v)' /\ (snapshot # NoSnapshot)'
      /\ snapshot'.version = Len(log') /\ snapshot'.shape = StateShape(v)
    <2>1. SubSeq(log, 1, Len(log)) = log
        BY <1>2, SubSeqFull
    <2>2. snapshot' = SnapshotAt(v, Len(log))'
        BY <1>1, <1>5, <2>1 DEF SnapshotAt
    <2> QED BY <1>1, <1>3, <1>5, <2>2 DEF SnapshotOf, NoSnapshot
<1>7. (snapshot'.version + 1)..Len(log') = {}
    BY <1>1, <1>3, <1>6
<1>8. ASSUME NEW m \in Version, \A w \in running : m <= w, migrated' = m
      PROVE  Migrated(migrated)'
    <2>1. StateShape(m) <= StateShape(v)
        BY <1>2, <1>8, Shapes
    <2>2. snapshot'.shape >= StateShape(m)
        BY <1>2, <1>6, <2>1, Shapes
    <2> QED BY <1>1, <1>6, <1>7, <1>8, <2>2 DEF Migrated
<1>9. migrated' = 0 \/ Migrated(migrated)'
    <2>1. CASE \A w \in running : v <= w
        BY <1>1, <1>2, <1>8, <2>1
    <2>2. CASE ~(\A w \in running : v <= w) /\ migrated # 0
        <3>1. migrated \in Version /\ \A w \in running : migrated <= w
            BY <2>2 DEF EInv, Migrated
        <3> QED BY <1>1, <1>8, <2>2, <3>1
    <2> QED BY <1>1, <2>1, <2>2
<1> QED BY <1>1, <1>6, <1>9 DEF EInv

(* Steps that leave the log alone and make the snapshot at most disappear. *)
LEMMA SnapshotAtStays ==
    ASSUME EInv, log' = log, deployed \subseteq deployed', snapshot' \in {snapshot, NoSnapshot}
    PROVE  /\ \A k \in DOMAIN log' : \E w \in deployed' : WrittenBy(log'[k], w)
           /\ snapshot' = NoSnapshot \/ \E w \in deployed' : SnapshotOf(w)'
<1>1. \A k \in DOMAIN log' : \E w \in deployed' : WrittenBy(log'[k], w)
    BY DEF EInv
<1>2. ASSUME snapshot' # NoSnapshot PROVE \E w \in deployed' : SnapshotOf(w)'
    <2>1. PICK w \in deployed, n \in 1..Len(log) : snapshot' = SnapshotAt(w, n)
        BY <1>2 DEF EInv, SnapshotOf
    <2>2. SnapshotAt(w, n)' = SnapshotAt(w, n)
        BY DEF SnapshotAt
    <2> QED BY <2>1, <2>2 DEF SnapshotOf
<1> QED BY <1>1, <1>2

(* ... a snapshot deleted, ... *)
LEMMA DeleteSnapshotStep ==
    ASSUME EInv, DeleteSnapshot
    PROVE  EInv'
<1>1. /\ snapshot' = NoSnapshot /\ migrated' = 0
      /\ log' = log /\ running' = running /\ deployed' = deployed
    BY DEF DeleteSnapshot
<1> QED BY <1>1, SnapshotAtStays DEF EInv

(* ... a release deployed, ... *)
LEMMA DeployStep ==
    ASSUME EInv, NEW v \in Version, Deploy(v)
    PROVE  EInv'
<1>1. /\ running' = running \cup {v} /\ deployed' = deployed \cup {v}
      /\ migrated' = IF v < migrated THEN 0 ELSE migrated
      /\ log' = log /\ snapshot' = snapshot
    BY DEF Deploy
<1>2. running' \subseteq deployed' /\ deployed' \subseteq Version /\ log' \in Seq(Event)
    BY <1>1 DEF EInv
<1>3. /\ \A k \in DOMAIN log' : \E w \in deployed' : WrittenBy(log'[k], w)
      /\ snapshot' = NoSnapshot \/ \E w \in deployed' : SnapshotOf(w)'
    BY <1>1, SnapshotAtStays
<1>4. ASSUME migrated' # 0 PROVE Migrated(migrated)'
    <2>1. migrated' = migrated /\ ~(v < migrated)
        BY <1>1, <1>4
    <2>2. Migrated(migrated)
        BY <1>4, <2>1 DEF EInv
    <2>3. migrated <= v
        BY <2>1, <2>2, Shapes DEF Migrated
    <2> QED BY <1>1, <2>1, <2>2, <2>3 DEF Migrated
<1> QED BY <1>2, <1>3, <1>4 DEF EInv

(* ... and one retired. *)
LEMMA RetireStep ==
    ASSUME EInv, NEW v \in running, Retire(v)
    PROVE  EInv'
<1>1. /\ running' = running \ {v}
      /\ log' = log /\ snapshot' = snapshot /\ deployed' = deployed /\ migrated' = migrated
    BY DEF Retire
<1>2. /\ \A k \in DOMAIN log' : \E w \in deployed' : WrittenBy(log'[k], w)
      /\ snapshot' = NoSnapshot \/ \E w \in deployed' : SnapshotOf(w)'
    BY <1>1, SnapshotAtStays
<1>3. migrated' = 0 \/ Migrated(migrated)'
    BY <1>1 DEF EInv, Migrated
<1> QED BY <1>1, <1>2, <1>3 DEF EInv

(* The two halves of the induction. *)
LEMMA EInvInit == Init => EInv
<1> SUFFICES ASSUME Init PROVE EInv
    OBVIOUS
<1>1. <<>> \in Seq(Event) /\ DOMAIN <<>> = {}
    OBVIOUS
<1> QED BY <1>1 DEF Init, EInv

LEMMA EInvNext == EInv /\ [Next]_vars => EInv'
<1> SUFFICES ASSUME EInv, [Next]_vars PROVE EInv'
    OBVIOUS
<1>1. CASE \E v \in running : Execute(v)
    BY <1>1, ExecuteStep
<1>2. CASE \E v \in running : ExecuteSnapshotting(v)
    BY <1>2, ExecuteSnapshottingStep
<1>3. CASE \E v \in running : Migrate(v)
    BY <1>3, MigrateStep
<1>4. CASE \E v \in running : Retire(v)
    BY <1>4, RetireStep
<1>5. CASE \E v \in Version : Deploy(v)
    BY <1>5, DeployStep
<1>6. CASE DeleteSnapshot
    BY <1>6, DeleteSnapshotStep
<1>7. CASE UNCHANGED vars
    <2>1. /\ log' = log /\ snapshot' = snapshot
          /\ running' = running /\ deployed' = deployed /\ migrated' = migrated
        BY <1>7 DEF vars
    <2>2. /\ \A k \in DOMAIN log' : \E w \in deployed' : WrittenBy(log'[k], w)
          /\ snapshot' = NoSnapshot \/ \E w \in deployed' : SnapshotOf(w)'
        BY <2>1, SnapshotAtStays
    <2>3. migrated' = 0 \/ Migrated(migrated)'
        BY <2>1 DEF EInv, Migrated
    <2> QED BY <2>1, <2>2, <2>3 DEF EInv
<1> QED BY <1>1, <1>2, <1>3, <1>4, <1>5, <1>6, <1>7 DEF Next

-----------------------------------------------------------------------------
(* The theorems. *)

(* Whatever releases are deployed, retired and deployed again, each event  *)
(* of the stream was written by one of them and the snapshot is what one   *)
(* of them makes of the events it covers (Service and save_snapshot).      *)
THEOREM Invariance == Spec => []EInv
BY EInvInit, EInvNext, PTL DEF Spec

(* Service::load, load_snapshotted and Upcasters::render fail or return    *)
(* the truth about the stream, for any number of releases and of fields.   *)
THEOREM LoadsTellTheTruth == Spec => []LoadsTellTruth
BY Invariance, Truths, PTL

(* A chain of upcasters, each for one step of a type's shape, brings the   *)
(* payloads of every release, newer ones included, into a shape that the   *)
(* release decodes: Upcasters::render fails on no event whose type it has. *)
THEOREM RendersReadEverything == Spec => []RenderReadsEverything
BY Invariance, Renders, PTL

(* The oldest release that ever ran can be rolled back to: Service loads   *)
(* the stream and its snapshot unless it meets an event it does not have.  *)
THEOREM RollbacksLoad == Spec => []RollbackLoads
BY Invariance, Rollbacks, PTL

(* A snapshot that Upcasters::render was saved as serves load_snapshotted  *)
(* of its release as long as no older one runs.                            *)
THEOREM MigrationsStick == Spec => []MigrationSticks
BY Invariance, Migrations, PTL
=============================================================================
