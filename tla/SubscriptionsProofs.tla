------------------------- MODULE SubscriptionsProofs -------------------------
(***************************************************************************)
(* What a subscription keeps for any number of runners, any log, any batch *)
(* size and any number of failures: nothing is skipped, nothing is handled *)
(* out of order, and what is repeated was in flight when a call failed.    *)
(***************************************************************************)
EXTENDS Subscriptions, EventLogProofs

(* The events of the subscription after a position. *)
Due(p) == Matching(log, Wanted, p)

(* Nothing is known of events that are not recorded, and markers are set   *)
(* by consumers that use them, after the event is handled.                 *)
Bounded ==
    /\ checkpoint <= Len(log)
    /\ \A r \in Runner : position[r] <= Len(log)
    /\ Delivered \subseteq 1..Len(log)
    /\ processed \subseteq Delivered
    /\ ~idempotent => processed = {} /\ \A r \in Runner : pc[r] \notin {"check", "mark"}

InFlight(r) == pc[r] \in {"mark", "save"}

(* A runner's batch is what comes after its position, from the event it is *)
(* at, and leaves out no event before its last.                            *)
Batched(r) ==
    /\ pc[r] \in {"idle", "read"} => batch[r] = {}
    /\ pc[r] \in {"check", "handle"} => batch[r] # {} /\ batch[r] \subseteq Due(position[r])
    /\ InFlight(r) => /\ position[r] \in batch[r] /\ batch[r] \subseteq Due(0)
                      /\ \A q \in batch[r] : position[r] <= q
    /\ \A q \in Due(position[r]), p \in batch[r] : q <= p => q \in batch[r]

(* The invariant with any number of calls at once ... *)
Core ==
    /\ TypeOK
    /\ Bounded
    /\ NothingSkipped
    /\ InOrder
    /\ \A r \in Runner : Batched(r)

(* ... and what is kept besides as long as calls do not overlap: the one   *)
(* runner's position is the checkpoint or the event after it, no event     *)
(* handled is after that one, and if that one was handled before, a        *)
(* failure is there to account for its repetition.                         *)
Follows(r) ==
    /\ pc[r] \in {"read", "check", "handle"} => position[r] = checkpoint
    /\ InFlight(r) => /\ position[r] \in Due(checkpoint)
                      /\ \A q \in Due(checkpoint) : position[r] <= q
    /\ pc[r] = "handle" => Event(r) \notin processed

Repeatable ==
    (\E d \in Delivered : d > checkpoint) /\ (\A r \in Runner : ~InFlight(r))

Alone ==
    /\ \A r, s \in Runner : pc[r] # "idle" /\ pc[s] # "idle" => r = s
    /\ \A r \in Runner : Follows(r)
    /\ \A d \in Delivered, q \in Due(checkpoint) : d <= q
    /\ \A i \in 2..Len(delivered) : delivered[i] >= delivered[i - 1]
    /\ Len(delivered) <= Cardinality(Delivered) + failures
    /\ Repeatable => Len(delivered) + 1 <= Cardinality(Delivered) + failures

RunInv == Core /\ (~overlapped => Alone)

-----------------------------------------------------------------------------
(* The log and the runners' places in it. *)

(* Positions are numbers, those of delivered events in the log. *)
LEMMA Places ==
    ASSUME TypeOK
    PROVE  /\ Len(log) \in Nat /\ MaxLog \in Nat /\ Len(log) <= MaxLog
           /\ checkpoint \in Nat /\ \A r \in Runner : position[r] \in Nat
           /\ Len(delivered) \in Nat /\ DOMAIN delivered = 1..Len(delivered)
           /\ \A i \in 1..Len(delivered) : delivered[i] \in 1..MaxLog
<1>1. MaxLog \in Nat
    BY SubscriptionsAssumption
<1>2. Len(log) \in Nat
    BY LenProperties DEF TypeOK
<1>3. Len(delivered) \in Nat /\ DOMAIN delivered = 1..Len(delivered)
    BY LenProperties DEF TypeOK
<1>4. \A i \in 1..Len(delivered) : delivered[i] \in 1..MaxLog
    BY ElementOfSeq DEF TypeOK
<1> QED BY <1>1, <1>2, <1>3, <1>4 DEF TypeOK

(* Due(p) is the part after p of all that the subscription ever wants. *)
LEMMA DueIs ==
    ASSUME TypeOK, NEW p \in Nat
    PROVE  /\ Due(p) \subseteq 1..Len(log)
           /\ \A S : S \subseteq Due(p) => Positions(S)
           /\ \A q : q \in Due(p) <=> q \in Due(0) /\ q > p
    BY MatchingIs DEF TypeOK, Due

(* The event a runner is at is the first one after its position, and the   *)
(* only one up to it that may not have been handled.                       *)
LEMMA EventIs ==
    ASSUME Core, NEW r \in Runner, pc[r] \in {"check", "handle"}
    PROVE  /\ Event(r) \in batch[r]
           /\ Event(r) \in Due(position[r]) /\ Event(r) \in Due(0)
           /\ \A q \in batch[r] : Event(r) <= q
           /\ \A q \in Due(position[r]) : Event(r) <= q
           /\ Event(r) \in 1..Len(log) /\ Event(r) \in 1..MaxLog
           /\ UpTo(Event(r)) \subseteq Delivered \cup {Event(r)}
<1>1. /\ TypeOK /\ batch[r] # {} /\ batch[r] \subseteq Due(position[r])
      /\ \A q \in Due(position[r]), p \in batch[r] : q <= p => q \in batch[r]
    BY DEF Core, Batched
<1>2. position[r] \in Nat /\ Len(log) \in Nat /\ MaxLog \in Nat /\ Len(log) <= MaxLog
    BY <1>1, Places
<1>3. Due(position[r]) \subseteq 1..Len(log) /\ Positions(batch[r])
    BY <1>1, <1>2, DueIs
<1>4. Event(r) \in batch[r] /\ \A q \in batch[r] : Event(r) <= q
    BY <1>1, <1>3, FirstIs DEF Event
<1>5. Event(r) \in Due(position[r]) /\ Event(r) \in Due(0)
    BY <1>1, <1>2, <1>4, DueIs
<1>6. Event(r) \in 1..Len(log) /\ Event(r) \in 1..MaxLog
    BY <1>2, <1>3, <1>5
<1>7. ASSUME NEW q \in Due(position[r]) PROVE Event(r) <= q
    <2>1. q \in 1..Len(log)
        BY <1>3
    <2>2. q <= Event(r) => q \in batch[r]
        BY <1>1, <1>4
    <2> QED BY <1>2, <1>4, <1>6, <2>1, <2>2
<1>8. ASSUME NEW q \in UpTo(Event(r)) PROVE q \in Delivered \cup {Event(r)}
    <2>1. q \in Due(0) /\ q <= Event(r)
        BY DEF UpTo, Due
    <2>2. q \in 1..Len(log)
        BY <1>1, <2>1, DueIs
    <2>3. CASE q <= position[r]
        BY <2>1, <2>3 DEF Core, NothingSkipped, UpTo, Due
    <2>4. CASE q > position[r]
        <3>1. q \in Due(position[r])
            BY <1>1, <1>2, <2>1, <2>4, DueIs
        <3>2. Event(r) <= q
            BY <1>7, <3>1
        <3> QED BY <1>2, <1>6, <2>1, <2>2, <3>2
    <2> QED BY <1>2, <2>2, <2>3, <2>4
<1> QED BY <1>4, <1>5, <1>6, <1>7, <1>8

(* An effect of the consumer. *)
LEMMA DeliverIs ==
    ASSUME Core, NEW r \in Runner, pc[r] = "handle", Deliver(r)
    PROVE  /\ delivered' \in Seq(1..MaxLog)
           /\ Len(delivered') = Len(delivered) + 1
           /\ DOMAIN delivered' = 1..(Len(delivered) + 1)
           /\ \A i \in 1..Len(delivered) : delivered'[i] = delivered[i]
           /\ delivered'[Len(delivered) + 1] = Event(r)
           /\ Delivered' = Delivered \cup {Event(r)}
<1>1. TypeOK /\ delivered \in Seq(1..MaxLog)
    BY DEF Core, TypeOK
<1>2. Event(r) \in 1..MaxLog
    BY EventIs
<1>3. delivered' = Append(delivered, Event(r))
    BY DEF Deliver
<1> DEFINE e == Event(r)
<1> HIDE DEF e
<1>4. /\ delivered' \in Seq(1..MaxLog)
      /\ Len(delivered') = Len(delivered) + 1
      /\ \A i \in 1..Len(delivered) : delivered'[i] = delivered[i]
      /\ delivered'[Len(delivered) + 1] = Event(r)
    BY <1>1, <1>2, <1>3, AppendProperties
<1>5. DOMAIN delivered' = 1..(Len(delivered) + 1)
    BY <1>4, LenProperties
<1>6. Len(delivered) \in Nat /\ DOMAIN delivered = 1..Len(delivered)
    BY <1>1, Places
<1>7. Delivered' = {delivered'[i] : i \in DOMAIN delivered'}
    BY DEF Delivered
<1>8. \A i \in 1..(Len(delivered) + 1) : i \in 1..Len(delivered) \/ i = Len(delivered) + 1
    BY <1>6
<1>9. \A i : i \in 1..Len(delivered) \/ i = Len(delivered) + 1 => i \in 1..(Len(delivered) + 1)
    BY <1>6
<1>10. Delivered' = Delivered \cup {Event(r)}
    <2>1. ASSUME NEW d \in Delivered' PROVE d \in Delivered \cup {Event(r)}
        BY <2>1, <1>4, <1>5, <1>6, <1>7, <1>8 DEF Delivered
    <2>2. ASSUME NEW d \in Delivered PROVE d \in Delivered'
        <3>1. PICK i \in 1..Len(delivered) : d = delivered[i]
            BY <1>6 DEF Delivered
        <3>2. d = delivered'[i] /\ i \in DOMAIN delivered'
            BY <1>4, <1>5, <1>9, <3>1
        <3> QED BY <1>7, <3>2
    <2>3. Event(r) \in Delivered'
        BY <1>4, <1>5, <1>7, <1>9
    <2> QED BY <2>1, <2>2, <2>3
<1> QED BY <1>4, <1>5, <1>10

-----------------------------------------------------------------------------
(* The steps. *)

GivesUp(r) == Fail(r) \/ ReadFails(r)

(* The kinds of steps. *)
LEMMA Kinds ==
    ASSUME [Next]_vars
    PROVE  \/ Record
           \/ \E r \in Runner : \/ Start(r) \/ Read(r) \/ Check(r) \/ HandleEvent(r)
                                \/ Mark(r) \/ Save(r) \/ GivesUp(r)
           \/ UNCHANGED vars
    BY DEF Next, Step, GivesUp

(* A new event is at the end of the log. *)
LEMMA RecordIs ==
    ASSUME TypeOK, Record
    PROVE  /\ log' \in Seq(Name) /\ Len(log') = Len(log) + 1 /\ Len(log') <= MaxLog
           /\ \A p \in Nat : Due(p) \subseteq Due(p)'
           /\ \A p \in Nat : \A q \in Due(p)' : q \in Due(p) \/ q = Len(log) + 1
           /\ \A p \in Nat : p <= Len(log) => UpTo(p)' = UpTo(p)
<1>1. PICK name \in Name : log' = Append(log, name)
    BY DEF Record
<1>2. log \in Seq(Name) /\ Len(log) \in Nat /\ MaxLog \in Nat /\ Len(log) < MaxLog
    BY Places DEF TypeOK, Record
<1>3. log' \in Seq(Name) /\ Len(log') = Len(log) + 1
    BY <1>1, <1>2, AppendProperties
<1>4. ASSUME NEW p \in Nat
      PROVE  Due(p) \subseteq Due(p)' /\ \A q \in Due(p)' : q \in Due(p) \/ q = Len(log) + 1
    BY <1>1, <1>2, MatchingGrows DEF Due
<1>5. ASSUME NEW p \in Nat, p <= Len(log) PROVE UpTo(p)' = UpTo(p)
    <2>1. ~(Len(log) + 1 <= p)
        BY <1>2, <1>5
    <2>2. Due(0) \subseteq Due(0)' /\ \A q \in Due(0)' : q \in Due(0) \/ q = Len(log) + 1
        BY <1>4
    <2>3. UpTo(p) = {q \in Due(0) : q <= p} /\ UpTo(p)' = {q \in Due(0)' : q <= p}
        BY DEF UpTo, Due
    <2> QED BY <2>1, <2>2, <2>3
<1> QED BY <1>2, <1>3, <1>4, <1>5

(* What is due depends on the log alone. *)
LEMMA SameLog ==
    ASSUME log' = log
    PROVE  \A p : Due(p)' = Due(p) /\ UpTo(p)' = UpTo(p)
    BY DEF Due, UpTo

(* Only these steps are the consumer's effect. *)
LEMMA Effects ==
    ASSUME [Next]_vars
    PROVE  delivered' = delivered \/ \E r \in Runner : pc[r] = "handle" /\ Deliver(r) /\ log' = log
<1>1. CASE Record
    BY <1>1 DEF Record
<1>2. ASSUME NEW r \in Runner, Start(r) \/ Read(r) \/ Check(r) \/ Mark(r) \/ Save(r) \/ ReadFails(r)
      PROVE  delivered' = delivered
    BY <1>2 DEF Start, Read, Check, Mark, Save, SaveAs, ReadFails
<1>3. ASSUME NEW r \in Runner, HandleEvent(r)
      PROVE  pc[r] = "handle" /\ Deliver(r) /\ log' = log
    BY <1>3 DEF HandleEvent
<1>4. ASSUME NEW r \in Runner, Fail(r)
      PROVE  delivered' = delivered \/ (pc[r] = "handle" /\ Deliver(r) /\ log' = log)
    BY <1>4 DEF Fail
<1>5. CASE UNCHANGED vars
    BY <1>5 DEF vars
<1> QED BY <1>1, <1>2, <1>3, <1>4, <1>5, Kinds DEF GivesUp

(* Delivered events are recorded ones, and stay delivered. *)
LEMMA DeliveredStep ==
    ASSUME Core, [Next]_vars
    PROVE  /\ delivered' \in Seq(1..MaxLog)
           /\ Delivered \subseteq Delivered'
           /\ Delivered' \subseteq 1..Len(log)
<1>1. TypeOK /\ Delivered \subseteq 1..Len(log)
    BY DEF Core, Bounded
<1>2. CASE delivered' = delivered
    BY <1>1, <1>2 DEF Delivered, TypeOK
<1>3. ASSUME NEW r \in Runner, pc[r] = "handle", Deliver(r)
      PROVE  /\ delivered' \in Seq(1..MaxLog)
             /\ Delivered \subseteq Delivered'
             /\ Delivered' \subseteq 1..Len(log)
    BY <1>1, <1>3, DeliverIs, EventIs
<1> QED BY <1>2, <1>3, Effects

-----------------------------------------------------------------------------
(* Type correctness. *)

(* A page is the first part of what is due. *)
LEMMA PageIs ==
    ASSUME TypeOK, NEW r \in Runner
    PROVE  /\ Page(r) \subseteq Due(position[r])
           /\ Page(r) \subseteq 1..MaxLog
           /\ \A q \in Due(position[r]), p \in Page(r) : q <= p => q \in Page(r)
<1>1. log \in Seq(Name) /\ position[r] \in Nat /\ BatchSize \in Nat
      /\ Len(log) \in Nat /\ MaxLog \in Nat /\ Len(log) <= MaxLog
    BY Places, SubscriptionsAssumption DEF TypeOK
<1>2. /\ Page(r) \subseteq Due(position[r])
      /\ \A q \in Due(position[r]), p \in Page(r) : q <= p => q \in Page(r)
    BY <1>1, ReadAllIs DEF Page, Due
<1>3. Due(position[r]) \subseteq 1..Len(log)
    BY <1>1, DueIs
<1> QED BY <1>1, <1>2, <1>3

(* Types are kept. *)
LEMMA TypeStep ==
    ASSUME Core, [Next]_vars
    PROVE  TypeOK'
<1> USE DEF TypeOK
<1>1. TypeOK /\ MaxLog \in Nat
    BY Places DEF Core
<1>2. delivered' \in Seq(1..MaxLog)
    BY DeliveredStep
<1>3. CASE Record
    BY <1>1, <1>2, <1>3, RecordIs DEF Record, flags
<1>4. ASSUME NEW r \in Runner, Start(r) PROVE TypeOK'
    BY <1>1, <1>2, <1>4 DEF Start, Goto
<1>5. ASSUME NEW r \in Runner, Read(r) PROVE TypeOK'
    <2>1. Page(r) \in SUBSET (1..MaxLog)
        BY <1>1, PageIs
    <2> QED BY <1>1, <1>2, <1>5, <2>1 DEF Read, Goto, ToHandle, flags
<1>6. ASSUME NEW r \in Runner, Check(r) PROVE TypeOK'
    <2>1. Event(r) \in 1..MaxLog
        BY <1>6, EventIs DEF Check
    <2>2. position' \in [Runner -> 0..MaxLog]
        <3>1. Event(r) \in 0..MaxLog
            BY <1>1, <2>1
        <3> QED BY <1>1, <1>6, <3>1 DEF Check
    <2> QED BY <1>1, <1>2, <1>6, <2>2 DEF Check, Goto, flags
<1>7. ASSUME NEW r \in Runner, HandleEvent(r) PROVE TypeOK'
    <2>1. Event(r) \in 1..MaxLog
        BY <1>7, EventIs DEF HandleEvent
    <2>2. position' \in [Runner -> 0..MaxLog]
        <3>1. Event(r) \in 0..MaxLog
            BY <1>1, <2>1
        <3> QED BY <1>1, <1>7, <3>1 DEF HandleEvent
    <2> QED BY <1>1, <1>2, <1>7, <2>2 DEF HandleEvent, Goto, flags
<1>8. ASSUME NEW r \in Runner, Mark(r) PROVE TypeOK'
    <2>1. Event(r) \in 1..MaxLog
        <3>1. pc[r] = "mark" /\ batch[r] \subseteq 1..MaxLog /\ position[r] \in batch[r]
            BY <1>1, <1>8 DEF Mark, Core, Batched, InFlight
        <3>2. Positions(batch[r])
            <4>1. IsFiniteSet(1..MaxLog) /\ 1..MaxLog \subseteq Nat
                BY <1>1, FS_Interval
            <4> QED BY <3>1, <4>1, FS_Subset DEF Positions
        <3> QED BY <3>1, <3>2, FirstIs DEF Event
    <2> QED BY <1>1, <1>2, <1>8, <2>1 DEF Mark, Goto, flags
<1>9. ASSUME NEW r \in Runner, Save(r) PROVE TypeOK'
    BY <1>1, <1>2, <1>9 DEF Save, SaveAs, Goto, ToHandle, flags
<1>10. ASSUME NEW r \in Runner, GivesUp(r) PROVE TypeOK'
    <2>1. failures' \in 0..MaxFailures
        BY <1>1, <1>10, SubscriptionsAssumption DEF GivesUp, Fail, ReadFails
    <2>2. Stop(r) /\ UNCHANGED <<log, checkpoint, processed, position, flags>>
        BY <1>10 DEF GivesUp, Fail, ReadFails
    <2> QED BY <1>1, <1>2, <2>1, <2>2 DEF Stop, Goto, flags
<1>11. CASE UNCHANGED vars
    BY <1>1, <1>11 DEF vars
<1> QED BY <1>3, <1>4, <1>5, <1>6, <1>7, <1>8, <1>9, <1>10, <1>11, Kinds

-----------------------------------------------------------------------------
(* The invariant with any number of calls at once. *)

(* The event a runner has handled and is to mark or save is its position.  *)
LEMMA HandledIs ==
    ASSUME Core, NEW r \in Runner, InFlight(r)
    PROVE  /\ Event(r) = position[r]
           /\ position[r] \in Due(0) /\ position[r] \in Delivered
           /\ \A q \in batch[r] : position[r] <= q
<1>1. /\ TypeOK /\ position[r] \in batch[r] /\ batch[r] \subseteq Due(0)
      /\ \A q \in batch[r] : position[r] <= q
    BY DEF Core, Batched
<1>2. Positions(batch[r])
    BY <1>1, DueIs
<1>3. Event(r) \in batch[r] /\ \A q \in batch[r] : Event(r) <= q
    BY <1>1, <1>2, FirstIs DEF Event
<1>4. Event(r) \in Nat /\ position[r] \in Nat
    BY <1>1, <1>2, <1>3 DEF Positions
<1>5. Event(r) = position[r]
    BY <1>1, <1>3, <1>4
<1>6. position[r] \in UpTo(position[r])
    BY <1>1, <1>4 DEF UpTo, Due
<1> QED BY <1>1, <1>5, <1>6 DEF Core, NothingSkipped

(* How the checkpoint and a runner's position move. *)
LEMMA PlacesStep ==
    ASSUME Core, [Next]_vars
    PROVE  /\ checkpoint' = checkpoint \/ \E r \in Runner : InFlight(r) /\ checkpoint' = position[r]
           /\ \A r \in Runner :
                \/ position'[r] = position[r]
                \/ position'[r] = checkpoint
                \/ /\ pc[r] \in {"check", "handle"} /\ position'[r] = Event(r)
                   /\ Event(r) \in Delivered'
           /\ Record \/ log' = log
<1> USE DEF TypeOK
<1>1. TypeOK
    BY DEF Core
<1>2. CASE Record \/ UNCHANGED vars
    BY <1>2 DEF Record, vars
<1>3. ASSUME NEW r \in Runner, Start(r)
      PROVE  /\ checkpoint' = checkpoint /\ log' = log
             /\ \A s \in Runner : position'[s] = position[s] \/ position'[s] = checkpoint
    BY <1>1, <1>3 DEF Start
<1>4. ASSUME NEW r \in Runner, Read(r) \/ Mark(r) \/ GivesUp(r)
      PROVE  UNCHANGED <<checkpoint, log, position>>
    BY <1>4 DEF Read, Mark, GivesUp, Fail, ReadFails
<1>5. ASSUME NEW r \in Runner, Check(r)
      PROVE  /\ checkpoint' = checkpoint /\ log' = log
             /\ \A s \in Runner :
                  \/ position'[s] = position[s]
                  \/ /\ pc[s] \in {"check", "handle"} /\ position'[s] = Event(s)
                     /\ Event(s) \in Delivered'
    <2>1. Delivered' = Delivered /\ processed \subseteq Delivered
        BY <1>5 DEF Check, Delivered, Core, Bounded
    <2> QED BY <1>1, <1>5, <2>1 DEF Check
<1>6. ASSUME NEW r \in Runner, HandleEvent(r)
      PROVE  /\ checkpoint' = checkpoint /\ log' = log
             /\ \A s \in Runner :
                  \/ position'[s] = position[s]
                  \/ /\ pc[s] \in {"check", "handle"} /\ position'[s] = Event(s)
                     /\ Event(s) \in Delivered'
    <2>1. Event(r) \in Delivered'
        BY <1>6, DeliverIs DEF HandleEvent
    <2> QED BY <1>1, <1>6, <2>1 DEF HandleEvent
<1>7. ASSUME NEW r \in Runner, Save(r)
      PROVE  InFlight(r) /\ checkpoint' = position[r] /\ UNCHANGED <<log, position>>
    BY <1>7 DEF Save, SaveAs, InFlight
<1> QED BY <1>2, <1>3, <1>4, <1>5, <1>6, <1>7, Kinds

(* Nothing gets ahead of the log. *)
LEMMA BoundedStep ==
    ASSUME Core, [Next]_vars
    PROVE  Bounded'
<1>1. /\ TypeOK /\ checkpoint <= Len(log) /\ \A r \in Runner : position[r] <= Len(log)
      /\ Delivered \subseteq 1..Len(log) /\ processed \subseteq Delivered
    BY DEF Core, Bounded
<1>2. /\ Len(log) \in Nat /\ checkpoint \in Nat /\ \A r \in Runner : position[r] \in Nat
      /\ Len(log') \in Nat /\ Len(log) <= Len(log')
    <2>1. log' = log \/ Len(log') = Len(log) + 1
        BY <1>1, PlacesStep, RecordIs
    <2> QED BY <1>1, <2>1, Places
<1>3. checkpoint' <= Len(log')
    BY <1>1, <1>2, PlacesStep
<1>4. ASSUME NEW r \in Runner PROVE position'[r] <= Len(log')
    <2>1. pc[r] \in {"check", "handle"} => Event(r) \in 1..Len(log)
        BY EventIs
    <2> QED BY <1>1, <1>2, <2>1, PlacesStep
<1>5. Delivered \subseteq Delivered' /\ Delivered' \subseteq 1..Len(log')
    <2>1. Delivered \subseteq Delivered' /\ Delivered' \subseteq 1..Len(log)
        BY DeliveredStep
    <2>2. 1..Len(log) \subseteq 1..Len(log')
        BY <1>2
    <2> QED BY <2>1, <2>2
<1>6. processed' \subseteq Delivered'
    <2>1. processed' = processed \/ \E r \in Runner : Mark(r)
        BY Kinds DEF Record, Start, Read, Check, HandleEvent, Save, SaveAs, GivesUp, Fail, ReadFails, vars
    <2>2. ASSUME NEW r \in Runner, Mark(r) PROVE processed' \subseteq Delivered
        <3>1. Event(r) \in Delivered
            BY <2>2, HandledIs DEF Mark, InFlight
        <3> QED BY <1>1, <2>2, <3>1 DEF Mark
    <2> QED BY <1>1, <1>5, <2>1, <2>2
<1>7. ~idempotent' => processed' = {} /\ \A r \in Runner : pc'[r] \notin {"check", "mark"}
    <2> SUFFICES ASSUME ~idempotent'
                 PROVE  processed' = {} /\ \A r \in Runner : pc'[r] \notin {"check", "mark"}
        OBVIOUS
    <2>1. idempotent' = idempotent
        BY Kinds DEF Record, Start, Read, Check, HandleEvent, Mark, Save, SaveAs, GivesUp, Fail,
                     ReadFails, vars, flags
    <2>2. processed = {} /\ \A r \in Runner : pc[r] \notin {"check", "mark"}
        BY <2>1 DEF Core, Bounded
    <2>3. processed' = processed
        BY <2>2, Kinds DEF Record, Start, Read, Check, HandleEvent, Mark, Save, SaveAs, GivesUp, Fail,
                           ReadFails, vars
    <2>4. pc' = pc \/ \E r \in Runner, to \in {"idle", "read", "handle", "save"} : Goto(r, to)
        BY <2>1, <2>2, Kinds DEF Record, Start, Read, Check, HandleEvent, Mark, Save, SaveAs, GivesUp, Fail,
                           ReadFails, vars, ToHandle, Stop
    <2>5. \A r \in Runner : pc'[r] \notin {"check", "mark"}
        BY <1>1, <2>2, <2>4 DEF Goto, TypeOK
    <2> QED BY <2>2, <2>3, <2>5
<1> QED BY <1>3, <1>4, <1>5, <1>6, <1>7 DEF Bounded

(* No step moves a checkpoint past what was not handled. *)
LEMMA NothingSkippedStep ==
    ASSUME Core, [Next]_vars
    PROVE  NothingSkipped'
<1>1. /\ TypeOK /\ Bounded /\ UpTo(checkpoint) \subseteq Delivered
      /\ \A r \in Runner : UpTo(position[r]) \subseteq Delivered
    BY DEF Core, NothingSkipped
<1>2. /\ Len(log) \in Nat /\ checkpoint \in Nat /\ \A r \in Runner : position[r] \in Nat
    BY <1>1, Places
<1>3. Delivered \subseteq Delivered'
    BY DeliveredStep
<1> DEFINE Covers(p) == {q \in Matching(log', Wanted, 0) : q <= p} \subseteq Delivered'
<1>4. ASSUME NEW p \in Nat, p <= Len(log), UpTo(p) \subseteq Delivered' PROVE Covers(p)
    <2>1. CASE Record
        <3>1. UpTo(p)' = UpTo(p)
            BY <1>1, <1>4, <2>1, RecordIs
        <3>2. p' = p => UpTo(p)' = {q \in Matching(log', Wanted, 0) : q <= p}
            BY DEF UpTo
        <3> QED BY <1>4, <3>1, <3>2
    <2>2. CASE log' = log
        BY <1>4, <2>2 DEF UpTo
    <2> QED BY <2>1, <2>2, PlacesStep
<1>5. Covers(checkpoint) /\ \A r \in Runner : Covers(position[r])
    BY <1>1, <1>2, <1>3, <1>4 DEF Bounded
<1>6. ASSUME NEW r \in Runner, pc[r] \in {"check", "handle"}, Event(r) \in Delivered'
      PROVE  Covers(Event(r))
    BY <1>2, <1>3, <1>4, <1>6, EventIs
<1> HIDE DEF Covers
<1>7. Covers(checkpoint')
    BY <1>5, PlacesStep
<1>8. \A r \in Runner : Covers(position'[r])
    BY <1>5, <1>6, PlacesStep
<1> QED BY <1>7, <1>8 DEF NothingSkipped, UpTo, Covers

(* No step handles an event before an earlier one. *)
LEMMA InOrderStep ==
    ASSUME Core, [Next]_vars
    PROVE  InOrder'
<1>1. /\ TypeOK /\ Delivered \subseteq 1..Len(log)
      /\ \A i \in DOMAIN delivered : UpTo(delivered[i]) \subseteq {delivered[j] : j \in 1..i}
    BY DEF Core, Bounded, InOrder
<1>2. /\ Len(log) \in Nat /\ Len(delivered) \in Nat /\ DOMAIN delivered = 1..Len(delivered)
      /\ \A i \in DOMAIN delivered : delivered[i] \in Nat /\ delivered[i] <= Len(log)
    <2>1. \A i \in DOMAIN delivered : delivered[i] \in Delivered
        BY DEF Delivered
    <2> QED BY <1>1, <2>1, Places
<1>3. CASE delivered' = delivered
    <2>1. ASSUME NEW i \in DOMAIN delivered
          PROVE  {q \in Matching(log', Wanted, 0) : q <= delivered[i]} = UpTo(delivered[i])
        <3>1. CASE Record
            <4> DEFINE p == delivered[i]
            <4>1. PICK n \in Nat : n = p /\ n <= Len(log)
                BY <1>2
            <4>2. UpTo(n)' = UpTo(n)
                BY <1>1, <3>1, <4>1, RecordIs
            <4> QED BY <4>1, <4>2 DEF UpTo
        <3>2. CASE log' = log
            BY <3>2 DEF UpTo
        <3> QED BY <3>1, <3>2, PlacesStep
    <2> QED BY <1>1, <1>3, <2>1 DEF InOrder, UpTo
<1>4. ASSUME NEW r \in Runner, pc[r] = "handle", Deliver(r), log' = log PROVE InOrder'
    <2> DEFINE n == Len(delivered)
    <2>1. /\ DOMAIN delivered' = 1..(n + 1)
          /\ \A i \in 1..n : delivered'[i] = delivered[i]
          /\ delivered'[n + 1] = Event(r)
          /\ UpTo(Event(r)) \subseteq Delivered \cup {Event(r)}
        BY <1>4, DeliverIs, EventIs
    <2> SUFFICES ASSUME NEW i \in 1..(n + 1)
                 PROVE  UpTo(delivered'[i]) \subseteq {delivered'[j] : j \in 1..i}
        BY <1>4, <2>1 DEF InOrder, UpTo
    <2>2. CASE i \in 1..n
        <3>1. UpTo(delivered[i]) \subseteq {delivered[j] : j \in 1..i}
            BY <1>1, <1>2, <2>2
        <3>2. \A j \in 1..i : j \in 1..n
            BY <1>2, <2>2
        <3> QED BY <2>1, <2>2, <3>1, <3>2
    <2>3. CASE i = n + 1
        <3>1. \A j \in 1..n : j \in 1..i
            BY <1>2, <2>3
        <3>2. i \in 1..i
            BY <1>2, <2>3
        <3>3. Delivered = {delivered[j] : j \in 1..n}
            BY <1>2 DEF Delivered
        <3>4. Delivered \cup {Event(r)} \subseteq {delivered'[j] : j \in 1..i}
            BY <2>1, <2>3, <3>1, <3>2, <3>3
        <3> QED BY <2>1, <2>3, <3>4
    <2> QED BY <1>2, <2>2, <2>3
<1> QED BY <1>3, <1>4, Effects

(* A runner is where it was, if neither it nor the log moves. *)
LEMMA BatchedKeeps ==
    ASSUME NEW s \in Runner, Batched(s), log' = log,
           pc'[s] = pc[s], position'[s] = position[s], batch'[s] = batch[s]
    PROVE  Batched(s)'
<1>1. Due(position[s])' = Due(position'[s]) /\ \A p : Due(p)' = Due(p)
    BY SameLog DEF Due
<1> QED BY <1>1 DEF Batched, InFlight, Due

(* A runner's batch stays one when events are recorded ... *)
LEMMA BatchedRecord ==
    ASSUME Core, Record, NEW s \in Runner
    PROVE  Batched(s)'
<1>1. TypeOK /\ Batched(s) /\ pc'[s] = pc[s] /\ position'[s] = position[s] /\ batch'[s] = batch[s]
    BY DEF Core, Record
<1>2. PICK n \in Nat : n = position[s]
    BY <1>1, Places
<1>3. Len(log) \in Nat
    BY <1>1, Places
<1>4. /\ Due(n) \subseteq Due(n)' /\ Due(0) \subseteq Due(0)'
      /\ \A q \in Due(n)' : q \in Due(n) \/ q = Len(log) + 1
    BY <1>1, RecordIs
<1>5. batch[s] \subseteq 1..Len(log)
    <2>1. pc[s] \in {"idle", "read", "check", "handle", "mark", "save"}
        BY <1>1 DEF TypeOK
    <2>2. Due(n) \subseteq 1..Len(log) /\ Due(0) \subseteq 1..Len(log)
        BY <1>1, DueIs
    <2> QED BY <1>1, <1>2, <2>1, <2>2 DEF Batched, InFlight
<1>6. ASSUME NEW q \in Due(n)', NEW p \in batch[s], q <= p PROVE q \in batch[s]
    <2>1. q # Len(log) + 1
        BY <1>3, <1>5, <1>6
    <2> QED BY <1>1, <1>2, <1>4, <1>6, <2>1 DEF Batched
<1>7. Due(position[s])' = Due(n)'
    BY <1>1, <1>2 DEF Due
<1> QED BY <1>1, <1>2, <1>4, <1>6, <1>7 DEF Batched, InFlight

(* ... and whatever else happens. *)
LEMMA BatchedStep ==
    ASSUME Core, [Next]_vars
    PROVE  (\A s \in Runner : Batched(s))'
<1>1. TypeOK /\ \A s \in Runner : Batched(s)
    BY DEF Core
<1>2. CASE Record
    BY <1>2, BatchedRecord
<1>3. CASE UNCHANGED vars
    BY <1>1, <1>3, BatchedKeeps DEF vars
<1>4. ASSUME NEW r \in Runner,
             Start(r) \/ Read(r) \/ Check(r) \/ HandleEvent(r) \/ Mark(r) \/ Save(r) \/ GivesUp(r)
      PROVE  /\ log' = log
             /\ \A s \in Runner : s # r => Batched(s)'
    <2>1. log' = log
        BY <1>4 DEF Start, Read, Check, HandleEvent, Mark, Save, SaveAs, GivesUp, Fail, ReadFails
    <2>2. ASSUME NEW s \in Runner, s # r
          PROVE  pc'[s] = pc[s] /\ position'[s] = position[s] /\ batch'[s] = batch[s]
        <3>1. pc'[s] = pc[s]
            BY <1>1, <1>4, <2>2 DEF Start, Read, Check, HandleEvent, Mark, Save, SaveAs, GivesUp,
                                    Fail, ReadFails, Stop, Goto, TypeOK
        <3>2. position'[s] = position[s]
            BY <1>1, <1>4, <2>2 DEF Start, Read, Check, HandleEvent, Mark, Save, SaveAs, GivesUp,
                                    Fail, ReadFails, Stop, TypeOK
        <3>3. batch'[s] = batch[s]
            BY <1>1, <1>4, <2>2 DEF Start, Read, Check, HandleEvent, Mark, Save, SaveAs, GivesUp,
                                    Fail, ReadFails, Stop, TypeOK
        <3> QED BY <3>1, <3>2, <3>3
    <2> QED BY <1>1, <2>1, <2>2, BatchedKeeps
<1>6. ASSUME NEW r \in Runner, Start(r) \/ GivesUp(r) PROVE Batched(r)'
    <2>1. pc'[r] \in {"idle", "read"} /\ batch'[r] = {}
        BY <1>1, <1>6 DEF Start, GivesUp, Fail, ReadFails, Stop, Goto, Batched, TypeOK
    <2> QED BY <2>1 DEF Batched, InFlight
<1>7. ASSUME NEW r \in Runner, Read(r) PROVE Batched(r)'
    <2>1. log' = log /\ position' = position /\ batch'[r] = Page(r)
          /\ pc'[r] \in {"idle", "check", "handle"} /\ (pc'[r] = "idle" <=> Page(r) = {})
        BY <1>1, <1>7 DEF Read, Goto, ToHandle, TypeOK
    <2>2. /\ Page(r) \subseteq Due(position[r])
          /\ \A q \in Due(position[r]), p \in Page(r) : q <= p => q \in Page(r)
        BY <1>1, PageIs
    <2>3. Due(position[r])' = Due(position[r])
        BY <2>1 DEF Due
    <2> QED BY <2>1, <2>2, <2>3 DEF Batched, InFlight
<1>8. ASSUME NEW r \in Runner, Check(r) \/ HandleEvent(r) PROVE Batched(r)'
    <2>1. pc[r] \in {"check", "handle"} /\ log' = log /\ batch' = batch
        BY <1>8 DEF Check, HandleEvent
    <2>2. \/ position' = position /\ pc'[r] = "handle"
          \/ position'[r] = Event(r) /\ InFlight(r)'
        BY <1>1, <1>8 DEF Check, HandleEvent, Goto, TypeOK, InFlight
    <2>3. Batched(r) /\ batch[r] # {} /\ batch[r] \subseteq Due(position[r])
          /\ \A q \in Due(position[r]), p \in batch[r] : q <= p => q \in batch[r]
        BY <1>1, <2>1 DEF Batched
    <2>4. /\ Event(r) \in batch[r] /\ Event(r) \in Due(0) /\ Event(r) \in Nat
          /\ Event(r) \in Due(position[r])
          /\ \A q \in batch[r] : Event(r) <= q
        BY <2>1, EventIs
    <2>5. CASE position' = position /\ pc'[r] = "handle"
        <3>1. Due(position[r])' = Due(position[r])
            BY <2>1, <2>5 DEF Due
        <3> QED BY <2>1, <2>3, <2>5, <3>1 DEF Batched, InFlight
    <2>6. CASE position'[r] = Event(r) /\ InFlight(r)'
        <3>1. batch[r] \subseteq Due(0) /\ Due(Event(r)) \subseteq Due(position[r])
            <4>1. position[r] \in Nat
                BY <1>1, Places
            <4>2. Due(position[r]) \subseteq Due(0)
                BY <1>1, <4>1, DueIs
            <4>3. Event(r) > position[r]
                BY <1>1, <2>4, <4>1, DueIs
            <4>4. ASSUME NEW q \in Due(Event(r)) PROVE q \in Due(position[r])
                <5>1. q \in Due(0) /\ q > Event(r) /\ q \in 1..Len(log) /\ Len(log) \in Nat
                    BY <1>1, <2>4, DueIs, Places
                <5>2. q > position[r]
                    BY <2>4, <4>1, <4>3, <5>1
                <5> QED BY <1>1, <4>1, <5>1, <5>2, DueIs
            <4> QED BY <2>3, <4>2, <4>4
        <3>2. Due(position[r])' = Due(Event(r)) /\ Due(0)' = Due(0)
            BY <2>1, <2>6 DEF Due
        <3>3. pc'[r] \in {"mark", "save"}
            BY <2>6 DEF InFlight
        <3> QED BY <2>1, <2>3, <2>4, <2>6, <3>1, <3>2, <3>3 DEF Batched, InFlight
    <2> QED BY <2>2, <2>5, <2>6
<1>9. ASSUME NEW r \in Runner, Mark(r) PROVE Batched(r)'
    <2>1. /\ pc[r] = "mark" /\ pc'[r] = "save" /\ log' = log
          /\ batch' = batch /\ position' = position
        BY <1>1, <1>9 DEF Mark, Goto, TypeOK
    <2>2. Due(position[r])' = Due(position[r]) /\ Due(0)' = Due(0)
        BY <2>1 DEF Due
    <2> QED BY <1>1, <2>1, <2>2 DEF Batched, InFlight
<1>10. ASSUME NEW r \in Runner, Save(r) PROVE Batched(r)'
    <2>1. /\ pc[r] = "save" /\ log' = log /\ position' = position
          /\ batch'[r] = batch[r] \ {position[r]}
          /\ IF batch[r] = {position[r]} THEN pc'[r] = "read" ELSE pc'[r] \in {"check", "handle"}
        BY <1>1, <1>10 DEF Save, SaveAs, Goto, ToHandle, TypeOK
    <2>2. /\ position[r] \in batch[r] /\ batch[r] \subseteq Due(0)
          /\ \A q \in batch[r] : position[r] <= q
          /\ \A q \in Due(position[r]), p \in batch[r] : q <= p => q \in batch[r]
        BY <1>1, <2>1 DEF Batched, InFlight
    <2>3. position[r] \in Nat
        BY <1>1, Places
    <2>4. batch'[r] \subseteq Due(position[r])
        <3>1. ASSUME NEW q \in batch[r], q # position[r] PROVE q \in Due(position[r])
            <4>1. q \in 1..Len(log) /\ Len(log) \in Nat
                BY <1>1, <2>2, DueIs, Places
            <4>2. q > position[r]
                BY <2>2, <2>3, <3>1, <4>1
            <4> QED BY <1>1, <2>2, <2>3, <4>2, DueIs
        <3> QED BY <2>1, <3>1
    <2>5. Due(position[r])' = Due(position[r])
        BY <2>1 DEF Due
    <2>6. position[r] \notin Due(position[r])
        BY <1>1, <2>3, DueIs
    <2>7. \A q \in Due(position[r]), p \in batch'[r] : q <= p => q \in batch'[r]
        BY <2>1, <2>2, <2>6
    <2>8. batch[r] # {position[r]} => batch'[r] # {}
        BY <2>1, <2>2
    <2>9. batch[r] = {position[r]} => batch'[r] = {}
        BY <2>1
    <2> QED BY <2>1, <2>4, <2>5, <2>7, <2>8, <2>9 DEF Batched, InFlight
<1>11. ASSUME NEW r \in Runner,
              Start(r) \/ Read(r) \/ Check(r) \/ HandleEvent(r) \/ Mark(r) \/ Save(r) \/ GivesUp(r)
       PROVE  \A s \in Runner : Batched(s)'
    BY <1>4, <1>6, <1>7, <1>8, <1>9, <1>10, <1>11
<1> QED BY <1>2, <1>3, <1>11, Kinds

(* The two halves of the induction, for what holds of overlapping runs. *)
LEMMA CoreInit == Init => Core
<1> SUFFICES ASSUME Init PROVE Core
    OBVIOUS
<1>1. <<>> \in Seq(Name) /\ <<>> \in Seq(1..MaxLog) /\ Len(<<>>) = 0 /\ DOMAIN <<>> = {}
    BY EmptySeq, LenProperties
<1>2. MaxLog \in Nat /\ MaxFailures \in Nat
    BY SubscriptionsAssumption
<1>3. TypeOK
    <2>1. /\ log \in Seq(Name) /\ Len(log) <= MaxLog /\ checkpoint \in 0..MaxLog
          /\ processed \subseteq 1..MaxLog /\ delivered \in Seq(1..MaxLog)
          /\ failures \in 0..MaxFailures
        BY <1>1, <1>2 DEF Init
    <2>2. 0 \in 0..MaxLog
        BY <1>2
    <2>3. /\ pc \in [Runner -> {"idle", "read", "check", "handle", "mark", "save"}]
          /\ position \in [Runner -> 0..MaxLog]
          /\ batch \in [Runner -> SUBSET (1..MaxLog)]
        BY <2>2 DEF Init
    <2>4. idempotent \in BOOLEAN /\ overlapped \in BOOLEAN
        BY DEF Init
    <2> QED BY <2>1, <2>3, <2>4 DEF TypeOK
<1>4. Matching(log, Wanted, 0) = {}
    BY <1>1 DEF Init, Matching
<1>5. Delivered = {}
    BY <1>1 DEF Init, Delivered
<1>6. Bounded
    BY <1>1, <1>5 DEF Init, Bounded
<1>7. NothingSkipped /\ InOrder
    BY <1>1, <1>4 DEF Init, NothingSkipped, InOrder, UpTo
<1>8. \A r \in Runner : Batched(r)
    BY DEF Init, Batched, InFlight
<1> QED BY <1>3, <1>6, <1>7, <1>8 DEF Core

LEMMA CoreStep == Core /\ [Next]_vars => Core'
<1> SUFFICES ASSUME Core, [Next]_vars PROVE Core'
    OBVIOUS
<1> QED BY TypeStep, BoundedStep, NothingSkippedStep, InOrderStep, BatchedStep DEF Core

-----------------------------------------------------------------------------
(* The invariant while calls do not overlap. *)

(* What was delivered can be counted. *)
LEMMA Counted ==
    ASSUME TypeOK, Bounded
    PROVE  IsFiniteSet(Delivered) /\ Cardinality(Delivered) \in Nat /\ failures \in Nat
<1>1. IsFiniteSet(1..Len(log))
    BY Places, FS_Interval
<1>2. IsFiniteSet(Delivered)
    BY <1>1, FS_Subset DEF Bounded
<1>3. failures \in Nat
    BY SubscriptionsAssumption DEF TypeOK
<1> QED BY <1>2, <1>3, FS_CardinalityType

(* Where the one call is at an event, that event is the first after the    *)
(* checkpoint, and no other call is under way.                             *)
LEMMA AloneAt ==
    ASSUME Core, Alone, NEW r \in Runner, pc[r] # "idle"
    PROVE  /\ \A s \in Runner : s # r => pc[s] = "idle"
           /\ pc[r] \in {"check", "handle"} =>
                 /\ Event(r) \in Due(checkpoint)
                 /\ \A q \in Due(checkpoint) : Event(r) <= q
           /\ (\A s \in Runner : ~InFlight(s)) <=> ~InFlight(r)
<1>1. \A s \in Runner : s # r => pc[s] = "idle"
    BY DEF Alone
<1>2. pc[r] \in {"check", "handle"} => position[r] = checkpoint
    BY DEF Alone, Follows
<1>3. \A s \in Runner : s # r => ~InFlight(s)
    BY <1>1 DEF InFlight
<1> QED BY <1>1, <1>2, <1>3, EventIs

(* An effect in order, and the account of repetitions after it. *)
LEMMA AloneDelivers ==
    ASSUME Core, Alone, NEW r \in Runner, pc[r] = "handle", Deliver(r)
    PROVE  /\ \A d \in Delivered', q \in Due(checkpoint) : d <= q
           /\ \A i \in 2..Len(delivered') : delivered'[i] >= delivered'[i - 1]
           /\ Len(delivered') <= Cardinality(Delivered') + failures
           /\ Len(delivered') \in Nat /\ Cardinality(Delivered') \in Nat
<1> DEFINE n == Len(delivered)
           e == Event(r)
<1>1. TypeOK /\ Bounded
    BY DEF Core
<1>2. /\ n \in Nat /\ DOMAIN delivered = 1..n
      /\ \A i \in 1..n : delivered[i] \in Delivered /\ delivered[i] \in Nat
    BY <1>1, Places DEF Delivered
<1>3. e \in Due(checkpoint) /\ e \in Nat /\ \A q \in Due(checkpoint) : e <= q
    BY AloneAt, EventIs
<1>4. /\ Len(delivered') = n + 1
      /\ \A i \in 1..n : delivered'[i] = delivered[i]
      /\ delivered'[n + 1] = e
      /\ Delivered' = Delivered \cup {e}
    BY DeliverIs
<1>5. \A d \in Delivered : d <= e
    BY <1>3 DEF Alone
<1>6. \A d \in Delivered', q \in Due(checkpoint) : d <= q
    BY <1>3, <1>4 DEF Alone
<1>7. ASSUME NEW i \in 2..(n + 1) PROVE delivered'[i] >= delivered'[i - 1]
    <2>1. CASE i \in 2..n
        <3>1. i \in 1..n /\ i - 1 \in 1..n
            BY <1>2, <2>1
        <3>2. delivered[i] >= delivered[i - 1]
            BY <2>1 DEF Alone
        <3> QED BY <1>4, <3>1, <3>2
    <2>2. CASE i = n + 1
        <3>1. i - 1 = n /\ n \in 1..n
            BY <1>2, <2>2
        <3>2. delivered[n] <= e /\ delivered[n] \in Nat
            BY <1>2, <1>5, <3>1
        <3> QED BY <1>3, <1>4, <2>2, <3>1, <3>2
    <2> QED BY <1>2, <2>1, <2>2
<1>8. IsFiniteSet(Delivered) /\ Cardinality(Delivered) \in Nat /\ failures \in Nat
    BY <1>1, Counted
<1>9. Cardinality(Delivered') = IF e \in Delivered THEN Cardinality(Delivered) ELSE Cardinality(Delivered) + 1
    BY <1>4, <1>8, FS_AddElement
<1>10. n + 1 <= Cardinality(Delivered') + failures
    <2>1. CASE e \in Delivered
        <3>1. checkpoint \in Nat /\ e > checkpoint
            BY <1>1, <1>3, DueIs, Places
        <3>2. ~InFlight(r)
            BY DEF InFlight
        <3>3. Repeatable
            BY <2>1, <3>1, <3>2, AloneAt DEF Repeatable
        <3> QED BY <1>9, <2>1, <3>3 DEF Alone
    <2>2. CASE e \notin Delivered
        <3>1. n <= Cardinality(Delivered) + failures
            BY DEF Alone
        <3> QED BY <1>2, <1>8, <1>9, <2>2, <3>1
    <2> QED BY <2>1, <2>2
<1> QED BY <1>2, <1>4, <1>6, <1>7, <1>8, <1>9, <1>10

(* A call that is not begun beside another one. *)
LEMMA StartsAlone ==
    ASSUME Core, Alone, NEW r \in Runner, Start(r), ~overlapped'
    PROVE  Alone'
<1>1. TypeOK /\ \A s \in Runner : pc[s] = "idle"
    BY DEF Core, Start
<1>2. /\ UNCHANGED <<log, checkpoint, processed, batch, delivered, failures>>
      /\ pc'[r] = "read" /\ position'[r] = checkpoint
      /\ \A s \in Runner : s # r => pc'[s] = "idle"
    BY <1>1 DEF Start, Goto, TypeOK
<1>3. Delivered' = Delivered /\ Due(checkpoint)' = Due(checkpoint)
    BY <1>2 DEF Delivered, Due
<1>4. \A s \in Runner : Follows(s)'
    BY <1>2 DEF Follows, InFlight
<1>5. \A s \in Runner : ~InFlight(s)
    BY <1>1 DEF InFlight
<1>6. Repeatable' => Repeatable
    BY <1>2, <1>3, <1>5 DEF Repeatable
<1> QED BY <1>2, <1>3, <1>4, <1>6 DEF Alone

(* The log grows beyond all that was handled. *)
LEMMA RecordAlone ==
    ASSUME Core, Alone, Record
    PROVE  Alone'
<1>1. TypeOK /\ Bounded
    BY DEF Core
<1>2. UNCHANGED <<checkpoint, processed, pc, position, batch, delivered, failures>>
    BY DEF Record
<1>3. Delivered' = Delivered /\ Delivered \subseteq 1..Len(log) /\ Len(log) \in Nat
    BY <1>1, <1>2, Places DEF Delivered, Bounded
<1>4. PICK n \in Nat : n = checkpoint
    BY <1>1, Places
<1>5. Due(n) \subseteq Due(n)' /\ \A q \in Due(n)' : q \in Due(n) \/ q = Len(log) + 1
    BY <1>1, RecordIs
<1>6. Due(checkpoint)' = Due(n)'
    BY <1>2, <1>4 DEF Due
<1>7. \A d \in Delivered, q \in Due(n)' : d <= q
    BY <1>3, <1>4, <1>5 DEF Alone
<1>8. ASSUME NEW s \in Runner PROVE Follows(s)'
    <2>1. position[s] \in Nat /\ position[s] <= Len(log) /\ Follows(s)
        BY <1>1, Places DEF Bounded, Alone
    <2>2. Event(s)' = Event(s) /\ (InFlight(s)' <=> InFlight(s))
        BY <1>2 DEF Event, InFlight
    <2>3. InFlight(s) => \A q \in Due(n)' : position[s] <= q
        BY <1>3, <1>4, <1>5, <2>1 DEF Follows
    <2> QED BY <1>2, <1>4, <1>5, <1>6, <2>1, <2>2, <2>3 DEF Follows
<1>9. Repeatable' <=> Repeatable
    BY <1>2, <1>3 DEF Repeatable, InFlight
<1> QED BY <1>2, <1>3, <1>4, <1>6, <1>7, <1>8, <1>9 DEF Alone

(* The steps of the one call. *)
LEMMA StepAlone ==
    ASSUME Core, Alone, NEW r \in Runner,
           Read(r) \/ Check(r) \/ HandleEvent(r) \/ Mark(r) \/ Save(r) \/ GivesUp(r)
    PROVE  Alone'
<1>1. TypeOK /\ Bounded
    BY DEF Core
<1>2. pc[r] # "idle" /\ log' = log
    BY DEF Read, Check, HandleEvent, Mark, Save, SaveAs, GivesUp, Fail, ReadFails
<1>3. \A s \in Runner : s # r => pc[s] = "idle"
    BY <1>2, AloneAt
<1>4. \A s \in Runner : s # r => pc'[s] = "idle"
    <2>1. ASSUME NEW s \in Runner, s # r PROVE pc'[s] = pc[s]
        BY <1>1, <2>1 DEF Read, Check, HandleEvent, Mark, Save, SaveAs, GivesUp,
                          Fail, ReadFails, Stop, Goto, TypeOK
    <2> QED BY <1>3, <2>1
<1>5. \A s, t \in Runner : pc'[s] # "idle" /\ pc'[t] # "idle" => s = t
    BY <1>4
<1>6. \A s \in Runner : s # r => Follows(s)' /\ ~InFlight(s)'
    BY <1>4 DEF Follows, InFlight
<1>7. checkpoint' = checkpoint => Due(checkpoint)' = Due(checkpoint)
    BY <1>2 DEF Due
<1>8. delivered' = delivered => Delivered' = Delivered
    BY DEF Delivered
<1>9. Follows(r)
    BY DEF Alone
<1>10. ASSUME Follows(r)', UNCHANGED <<checkpoint, delivered, failures>>,
              InFlight(r) => InFlight(r)'
       PROVE  Alone'
    <2>1. Repeatable' => Repeatable
        BY <1>2, <1>8, <1>10, AloneAt DEF Repeatable
    <2> QED BY <1>5, <1>6, <1>7, <1>8, <1>10, <2>1 DEF Alone
<1>11. CASE Read(r)
    <2>1. /\ UNCHANGED <<checkpoint, delivered, failures, position, processed>>
          /\ pc[r] = "read" /\ pc'[r] \in {"idle", "check", "handle"}
          /\ pc'[r] = "handle" => ~idempotent
        BY <1>1, <1>11 DEF Read, Goto, ToHandle, TypeOK
    <2>2. Follows(r)'
        BY <1>1, <1>9, <2>1 DEF Follows, InFlight, Bounded
    <2> QED BY <1>10, <2>1, <2>2 DEF InFlight
<1>12. CASE Check(r)
    <2>1. /\ UNCHANGED <<checkpoint, delivered, failures, batch, processed>>
          /\ pc[r] = "check"
          /\ \/ Event(r) \in processed /\ pc'[r] = "save" /\ position'[r] = Event(r)
             \/ Event(r) \notin processed /\ pc'[r] = "handle" /\ position' = position
        BY <1>1, <1>12 DEF Check, Goto, TypeOK
    <2>2. Event(r)' = Event(r)
        BY <2>1 DEF Event
    <2>3. Event(r) \in Due(checkpoint) /\ \A q \in Due(checkpoint) : Event(r) <= q
        BY <2>1, AloneAt
    <2>4. Follows(r)'
        BY <1>7, <1>9, <2>1, <2>2, <2>3 DEF Follows, InFlight
    <2> QED BY <1>10, <2>1, <2>4 DEF InFlight
<1>13. CASE HandleEvent(r)
    <2>1. /\ UNCHANGED <<checkpoint, failures>>
          /\ pc[r] = "handle" /\ pc'[r] \in {"mark", "save"} /\ position'[r] = Event(r)
          /\ Deliver(r)
        BY <1>1, <1>13 DEF HandleEvent, Goto, TypeOK
    <2>2. Event(r) \in Due(checkpoint) /\ \A q \in Due(checkpoint) : Event(r) <= q
        BY <2>1, AloneAt
    <2>3. Follows(r)' /\ InFlight(r)'
        BY <1>7, <2>1, <2>2 DEF Follows, InFlight
    <2>4. ~Repeatable'
        BY <2>3 DEF Repeatable
    <2> QED BY <1>5, <1>6, <1>7, <2>1, <2>3, <2>4, AloneDelivers DEF Alone
<1>14. CASE Mark(r)
    <2>1. /\ UNCHANGED <<checkpoint, delivered, failures, position>>
          /\ pc[r] = "mark" /\ pc'[r] = "save"
        BY <1>1, <1>14 DEF Mark, Goto, TypeOK
    <2>2. Follows(r)'
        BY <1>7, <1>9, <2>1 DEF Follows, InFlight
    <2> QED BY <1>10, <2>1, <2>2 DEF InFlight
<1>15. CASE Save(r)
    <2>1. /\ UNCHANGED <<delivered, failures, position, processed>>
          /\ pc[r] = "save" /\ pc'[r] \in {"read", "check", "handle"} /\ checkpoint' = position[r]
          /\ pc'[r] = "handle" => ~idempotent
        BY <1>1, <1>15 DEF Save, SaveAs, Goto, ToHandle, TypeOK
    <2>2. Follows(r)'
        BY <1>1, <2>1 DEF Follows, InFlight, Bounded
    <2>3. position[r] \in Due(checkpoint) /\ \A d \in Delivered : d <= position[r]
        BY <1>9, <2>1 DEF Follows, InFlight, Alone
    <2>4. position[r] \in Nat /\ Delivered \subseteq 1..Len(log) /\ Len(log) \in Nat
        BY <1>1, Places DEF Bounded
    <2>5. Due(checkpoint)' = Due(position[r])
        BY <1>2, <2>1 DEF Due
    <2>6. ASSUME NEW d \in Delivered, NEW q \in Due(position[r]) PROVE d <= q
        <3>1. q > position[r] /\ q \in 1..Len(log)
            BY <1>1, <2>4, DueIs
        <3> QED BY <2>3, <2>4, <3>1
    <2>7. ~Repeatable'
        <3>1. \A d \in Delivered : ~(d > position[r])
            BY <2>3, <2>4
        <3>2. Delivered' = Delivered /\ checkpoint' = position[r]
            BY <1>8, <2>1
        <3> QED BY <3>1, <3>2 DEF Repeatable
    <2> QED BY <1>5, <1>6, <1>8, <2>1, <2>2, <2>5, <2>6, <2>7 DEF Alone
<1>16. CASE ReadFails(r)
    <2>1. /\ UNCHANGED <<checkpoint, delivered, failures>> /\ pc[r] = "read" /\ pc'[r] = "idle"
        BY <1>1, <1>16 DEF ReadFails, Stop, Goto, TypeOK
    <2> QED BY <1>10, <2>1 DEF InFlight, Follows
<1>17. CASE Fail(r)
    <2>1. /\ checkpoint' = checkpoint /\ failures' = failures + 1 /\ pc'[r] = "idle"
          /\ delivered' = delivered \/ (pc[r] = "handle" /\ Deliver(r))
        BY <1>1, <1>17 DEF Fail, Stop, Goto, TypeOK
    <2>2. Follows(r)'
        BY <2>1 DEF Follows, InFlight
    <2>3. failures \in Nat /\ Cardinality(Delivered) \in Nat /\ Len(delivered) \in Nat
        BY <1>1, Counted, Places
    <2>4. /\ \A d \in Delivered', q \in Due(checkpoint) : d <= q
          /\ \A i \in 2..Len(delivered') : delivered'[i] >= delivered'[i - 1]
          /\ Len(delivered') <= Cardinality(Delivered') + failures
          /\ Len(delivered') \in Nat /\ Cardinality(Delivered') \in Nat
        <3>1. CASE delivered' = delivered
            BY <1>8, <2>3, <3>1 DEF Alone
        <3>2. CASE pc[r] = "handle" /\ Deliver(r)
            BY <3>2, AloneDelivers
        <3> QED BY <2>1, <3>1, <3>2
    <2>5. Len(delivered') + 1 <= Cardinality(Delivered') + failures'
        BY <2>1, <2>3, <2>4
    <2>6. Len(delivered') <= Cardinality(Delivered') + failures'
        BY <2>1, <2>3, <2>4
    <2> QED BY <1>5, <1>6, <1>7, <2>1, <2>2, <2>4, <2>5, <2>6 DEF Alone
<1> QED BY <1>11, <1>12, <1>13, <1>14, <1>15, <1>16, <1>17 DEF GivesUp

(* The two halves of the induction. *)
LEMMA InitRunInv == Init => RunInv
<1> SUFFICES ASSUME Init PROVE Alone
    BY CoreInit DEF RunInv
<1>1. Len(<<>>) = 0 /\ DOMAIN <<>> = {}
    BY EmptySeq, LenProperties
<1>2. Delivered = {} /\ Cardinality({}) = 0
    BY <1>1, FS_EmptySet DEF Init, Delivered
<1> QED BY <1>1, <1>2 DEF Init, Alone, Follows, InFlight, Repeatable

LEMMA StepRunInv == RunInv /\ [Next]_vars => RunInv'
<1> SUFFICES ASSUME RunInv, [Next]_vars PROVE RunInv'
    OBVIOUS
<1>1. Core /\ Core'
    BY CoreStep DEF RunInv
<1>2. ASSUME ~overlapped' PROVE Alone'
    <2>1. Alone
        <3>1. overlapped' = overlapped \/ \E r \in Runner : Start(r)
            BY Kinds DEF Record, Read, Check, HandleEvent, Mark, Save, SaveAs, GivesUp, Fail,
                         ReadFails, vars, flags
        <3>2. ~overlapped
            BY <1>2, <3>1 DEF Start
        <3> QED BY <3>2 DEF RunInv
    <2>2. CASE UNCHANGED vars
        <3>1. UNCHANGED <<log, checkpoint, processed, pc, position, batch, delivered, failures>>
            BY <2>2 DEF vars
        <3>2. Delivered' = Delivered /\ Due(checkpoint)' = Due(checkpoint)
            BY <3>1 DEF Delivered, Due
        <3>3. \A s \in Runner : Follows(s)' <=> Follows(s)
            BY <3>1, <3>2 DEF Follows, InFlight, Event
        <3>4. Repeatable' <=> Repeatable
            BY <3>1, <3>2 DEF Repeatable, InFlight
        <3> QED BY <2>1, <3>1, <3>2, <3>3, <3>4 DEF Alone
    <2> QED BY <1>1, <1>2, <2>1, <2>2, Kinds, RecordAlone, StartsAlone, StepAlone
<1> QED BY <1>1, <1>2 DEF RunInv

-----------------------------------------------------------------------------
(* The theorems. *)

(* The inductive invariant holds in every state. *)
THEOREM Invariance == Spec => []RunInv
<1> QED BY InitRunInv, StepRunInv, PTL DEF Spec

(* The model's variables keep their types. *)
THEOREM TypeCorrect == Spec => []TypeOK
<1>1. RunInv => TypeOK
    BY DEF RunInv, Core
<1> QED BY <1>1, Invariance, PTL

(* At least once: no checkpoint and no position ever passes an event that  *)
(* was not handled, whatever calls overlap, fail or are dropped.           *)
THEOREM NoEventIsSkipped == Spec => []NothingSkipped
<1>1. RunInv => NothingSkipped
    BY DEF RunInv, Core
<1> QED BY <1>1, Invariance, PTL

(* In order: an event is handled for the first time only after all those   *)
(* recorded before it, by whichever runners those were handled.            *)
THEOREM EventsAreInOrder == Spec => []InOrder
<1>1. RunInv => InOrder
    BY DEF RunInv, Core
<1> QED BY <1>1, Invariance, PTL

(* Without overlapping calls, what is handled again is the event in flight *)
(* when a call failed, and nothing older.                                  *)
THEOREM OnlyInFlightIsRedelivered == Spec => []RedeliversOnlyInFlight
<1>1. RunInv => RedeliversOnlyInFlight
    BY DEF RunInv, Alone, RedeliversOnlyInFlight
<1> QED BY <1>1, Invariance, PTL

(* Without overlapping calls, a repetition costs a failure: the effects    *)
(* are at most as many as the events handled and the calls that failed.    *)
THEOREM RepetitionsCostFailures == Spec => []RepeatsNeedFailures
<1>1. RunInv => RepeatsNeedFailures
    BY DEF RunInv, Alone, RepeatsNeedFailures
<1> QED BY <1>1, Invariance, PTL

(* An event that is not the one delivered is delivered no more often.      *)
LEMMA OthersTimes ==
    ASSUME Core, NEW r \in Runner, pc[r] = "handle", Deliver(r), NEW p, p # Event(r)
    PROVE  Times(p, delivered') = Times(p, delivered)
<1>1. /\ Len(delivered) \in Nat /\ DOMAIN delivered = 1..Len(delivered)
    BY Places DEF Core
<1>2. /\ DOMAIN delivered' = 1..(Len(delivered) + 1)
      /\ \A i \in 1..Len(delivered) : delivered'[i] = delivered[i]
      /\ delivered'[Len(delivered) + 1] = Event(r)
    BY DeliverIs
<1>3. \A i : i \in 1..(Len(delivered) + 1) <=> i \in 1..Len(delivered) \/ i = Len(delivered) + 1
    BY <1>1
<1>4. {i \in DOMAIN delivered' : delivered'[i] = p} = {i \in DOMAIN delivered : delivered[i] = p}
    BY <1>1, <1>2, <1>3
<1> QED BY <1>4 DEF Times

(* Without overlapping calls, an event marked as processed is not handled  *)
(* again: the one runner that could is past the marker's check.            *)
THEOREM MarkedEventsStayDone == Spec => MarkedStaysDone
<1>1. RunInv /\ [Next]_vars =>
        [~overlapped' => \A p \in processed : Times(p, delivered') = Times(p, delivered)]_vars
    <2> SUFFICES ASSUME RunInv, [Next]_vars, ~overlapped', NEW p \in processed
                 PROVE  Times(p, delivered') = Times(p, delivered)
        OBVIOUS
    <2>1. CASE delivered' = delivered
        BY <2>1
    <2>2. ASSUME NEW r \in Runner, pc[r] = "handle", Deliver(r)
          PROVE  Times(p, delivered') = Times(p, delivered)
        <3>1. overlapped' = overlapped \/ \E s \in Runner : Start(s)
            BY Kinds DEF Record, Read, Check, HandleEvent, Mark, Save, SaveAs, GivesUp, Fail,
                         ReadFails, vars, flags
        <3>2. Core /\ Alone
            BY <3>1 DEF Start, RunInv
        <3>3. Event(r) \notin processed
            BY <2>2, <3>2 DEF Alone, Follows
        <3> QED BY <2>2, <3>2, <3>3, OthersTimes
    <2> QED BY <2>1, <2>2, Effects DEF RunInv
<1> QED BY <1>1, Invariance, PTL DEF Spec, MarkedStaysDone
=============================================================================
