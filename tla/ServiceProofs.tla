--------------------------- MODULE ServiceProofs ---------------------------
(***************************************************************************)
(* Service for every set of streams, tasks, commands and payloads, every   *)
(* handler, and every number of retries and calls: what it leaves in the   *)
(* log, what the answers of its calls tell, and that it implements         *)
(* Commands.  A Restate object implements the service it runs on: whatever *)
(* Restate journals, repeats or gives up, the store sees calls of Service  *)
(* and nothing else.  And what serializability means for the aggregates of *)
(* the examples: the bank's accounts and its ledger, the durable account,  *)
(* the counter.                                                            *)
(***************************************************************************)
EXTENDS DurableAccount, Counter, EventLogProofs, FiniteSetTheorems

-----------------------------------------------------------------------------
(* The inductive invariant.  Serializable is not inductive: an append is   *)
(* serialized because the decision it carries was made on the state in     *)
(* hand, and that state is the prefix its version names.                   *)

(* A call at its append carries what the handler decided on seen. *)
Pending(t) ==
    pc[t] = "append" =>
        /\ newEvents[t] # <<>>
        /\ Ok(newEvents[t]) \in Handle(request[t].command, seen[t].state)

(* A call about to save holds a state its stream really went through. *)
Saving(t) ==
    pc[t] = "save" =>
        /\ reply[t].tag = "Ok"
        /\ SnapshotOf(t) \in Rendered
        /\ RenderedAt(StreamOf(t), SnapshotOf(t))

IInv ==
    /\ TypeOK
    /\ Sound(log)
    /\ LoadsAgree
    /\ \A t \in Task : Pending(t) /\ Saving(t)
    /\ Serializable

-----------------------------------------------------------------------------
(* Rendering. *)

(* The default state is that of every stream at version 0. *)
LEMMA DefaultRendered ==
    ASSUME Sound(log), NEW s \in Stream
    PROVE  Default \in Rendered /\ RenderedAt(s, Default)
<1>1. CurrentVersion(log, s) \in Nat
    BY DEF Sound
<1>2. SubSeq(History(log, s), 1, 0) = <<>>
    BY SubSeqEmpty
<1>3. <<>> \in Seq(Payload)
    BY EmptySeq
<1>4. Default \in Rendered
    BY <1>3 DEF Default, Rendered
<1>5. Default.version = 0 /\ Default.state = <<>>
    BY DEF Default
<1> QED BY <1>1, <1>2, <1>4, <1>5 DEF RenderedAt, PrefixAt

(* Folding the tail onto a faithful state gives the current one. *)
LEMMA CaughtupIsCurrent ==
    ASSUME Sound(log), NEW s \in Stream, NEW base \in Rendered, RenderedAt(s, base)
    PROVE  /\ Caughtup(base, s) \in Rendered
           /\ Caughtup(base, s).version = CurrentVersion(log, s)
           /\ Caughtup(base, s).state = History(log, s)
           /\ RenderedAt(s, Caughtup(base, s))
<1> DEFINE cv == CurrentVersion(log, s)
           all == Caughtup(base, s)
<1>a. cv \in Nat /\ base.version \in 0..cv /\ base.state = SubSeq(History(log, s), 1, base.version)
    BY DEF Sound, RenderedAt, PrefixAt, Rendered
<1>b. PICK v \in 0..cv : v = base.version
    BY <1>a
<1> DEFINE tail == LoadFrom(log, s, v)
<1>1. cv \in Nat /\ v \in Nat /\ v <= cv
    BY <1>a
<1>2. /\ tail \in Seq(StoredEvent) /\ Len(tail) = cv - v
      /\ \A k \in 1..(cv - v) : tail[k].version = v + k
    BY LoadFromIs
<1>3. base.state \o Payloads(tail) = History(log, s)
    BY <1>a, <1>b, TailOfHistory
<1>4. History(log, s) \in Seq(Payload) /\ Len(History(log, s)) = cv
    BY HistoryIs
<1>5. (IF tail = <<>> THEN v ELSE tail[Len(tail)].version) = cv
    <2> HIDE DEF tail, cv
    <2>1. CASE tail = <<>>
        BY <2>1, <1>1, <1>2, EmptySeq
    <2>2. CASE tail # <<>>
        <3>1. Len(tail) \in Nat \ {0}
            BY <2>2, <1>2, EmptySeq
        <3>2. Len(tail) \in 1..(cv - v) /\ v + Len(tail) = cv
            BY <3>1, <1>1, <1>2
        <3> QED BY <2>2, <3>2, <1>2
    <2> QED BY <2>1, <2>2
<1>6. all = [version |-> cv, state |-> History(log, s)]
    BY <1>b, <1>3, <1>5 DEF Caughtup, Fold
<1>7. SubSeq(History(log, s), 1, cv) = History(log, s)
    BY <1>4, SubSeqFull
<1> HIDE DEF all, tail
<1> QED BY <1>1, <1>4, <1>6, <1>7 DEF all, Rendered, RenderedAt, PrefixAt

(* A load gives the stream's state at its current version. *)
LEMMA RebuiltIsCurrent ==
    ASSUME Sound(log), NEW s \in Stream
    PROVE  /\ Rebuilt(s) \in Rendered
           /\ RenderedAt(s, Rebuilt(s))
<1>1. Rebuilt(s) = Caughtup(Default, s)
    BY DEF Rebuilt, Caughtup, Load, Default
<1> QED BY <1>1, DefaultRendered, CaughtupIsCurrent

-----------------------------------------------------------------------------
(* Type correctness needs the log to be sound: what a load returns is      *)
(* typed because every version up to the current one is there.             *)

(* The two halves of the induction, for each part of the invariant. *)
LEMMA TypeInit == Init => TypeOK
<1> SUFFICES ASSUME Init PROVE TypeOK
    OBVIOUS
<1>1. <<>> \in Seq(StoredEvent) /\ <<>> \in Seq(Payload)
    BY EmptySeq
<1>2. Default \in Rendered
    BY <1>1 DEF Default, Rendered
<1>3. (CHOOSE r \in Request : TRUE) \in Request
    BY ServiceAssumption
<1> QED BY <1>1, <1>2, <1>3, ServiceAssumption DEF Init, TypeOK

LEMMA TypeStep ==
    ASSUME TypeOK, Sound(log), LoadsAgree, \A t \in Task : Saving(t), [Next]_vars
    PROVE  TypeOK'
<1> USE DEF TypeOK
<1>1. ASSUME NEW t \in Task, Begin(t) PROVE TypeOK'
    <2>1. <<>> \in Seq(Payload) /\ Default \in Rendered
        BY EmptySeq DEF Default, Rendered
    <2>2. PICK r \in Request : BeginWith(t, r)
        BY <1>1 DEF Begin
    <2>3. CurrentVersion(log, r.stream) \in Nat
        BY <2>2 DEF Sound, Request
    <2>4. begun' \in 0..MaxCalls /\ call' \in [Task -> 0..MaxCalls]
        BY <2>2, ServiceAssumption DEF BeginWith
    <2> QED BY <2>1, <2>2, <2>3, <2>4, ServiceAssumption DEF BeginWith, Goto
<1>2. ASSUME NEW t \in Task, LoadStream(t) PROVE TypeOK'
    <2>1. StreamOf(t) \in Stream
        BY DEF StreamOf, Request
    <2>2. Rebuilt(StreamOf(t)) \in Rendered
        BY <2>1, RebuiltIsCurrent
    <2> QED BY <1>2, <2>2 DEF LoadStream, Goto, store, ghost
<1>3. ASSUME NEW t \in Task, FetchSnapshot(t) PROVE TypeOK'
    <2>1. snapshots[StreamOf(t)] \in Rendered
        BY DEF StreamOf, Request
    <2> QED BY <1>3, <2>1 DEF FetchSnapshot, Goto, store, ghost
<1>4. ASSUME NEW t \in Task, LoadTail(t) PROVE TypeOK'
    <2>1. StreamOf(t) \in Stream /\ RenderedAt(StreamOf(t), seen[t])
        BY DEF StreamOf, Request, LoadsAgree
    <2>2. Caughtup(seen[t], StreamOf(t)) \in Rendered
        BY <2>1, CaughtupIsCurrent
    <2> QED BY <1>4, <2>2 DEF LoadTail, Goto, store, ghost
<1>5. ASSUME NEW t \in Task, Reject(t) PROVE TypeOK'
    BY <1>5 DEF Reject, Return, Goto, store, local, ghost
<1>6. ASSUME NEW t \in Task, DecideNothing(t) PROVE TypeOK'
    <2>1. Ok(<<>>) \in [tag : {"Ok"}, events : Seq(StoredEvent)]
        BY EmptySeq DEF Ok
    <2> QED BY <1>6, <2>1 DEF DecideNothing, Return, Goto, store, local, ghost
<1>7. ASSUME NEW t \in Task, Decide(t) PROVE TypeOK'
    <2>1. PICK d \in Decisions(t) :
            d.tag = "Ok" /\ newEvents' = [newEvents EXCEPT ![t] = d.events]
        BY <1>7 DEF Decide
    <2>2. d.events \in Seq(Payload)
        BY <2>1 DEF Decisions, Decision, Rejected, Err
    <2> QED BY <1>7, <2>1, <2>2 DEF Decide, Goto, store, ghost
<1>8. ASSUME NEW t \in Task, AppendEvents(t) PROVE TypeOK'
    <2> DEFINE s == StreamOf(t)
               rec == Recorded(log, s, newEvents[t])
               c == [call |-> call[t], stream |-> s, command |-> request[t].command,
                     from |-> CurrentVersion(log, s), events |-> newEvents[t]]
    <2>1. s \in Stream /\ newEvents[t] \in Seq(Payload) /\ request[t].command \in Command
        BY DEF StreamOf, Request
    <2>2. CurrentVersion(log, s) \in Nat /\ call[t] \in Nat
        BY <2>1 DEF Sound
    <2>3. log' \in Seq(StoredEvent)
        BY <1>8, <2>1, AppendKeepsSound DEF AppendEvents, Sound
    <2>4. rec \in Seq(StoredEvent)
        BY <2>1, RecordedIs
    <2>5. reply' = [reply EXCEPT ![t] = Ok(rec)]
        BY <1>8 DEF AppendEvents
    <2>6. Ok(rec) \in [tag : {"Ok"}, events : Seq(StoredEvent)]
        BY <2>4 DEF Ok
    <2>7. c \in Commit
        BY <2>1, <2>2 DEF Commit
    <2>8. commits' = commits \cup {c}
        BY <1>8 DEF AppendEvents
    <2>9. pc' \in [Task -> {"idle", "load", "fetch", "tail", "decide", "append", "save"}]
        BY <1>8 DEF AppendEvents, Goto
    <2>10. UNCHANGED <<snapshots, request, seen, newEvents, attempts, begun, call, since>>
        BY <1>8 DEF AppendEvents, local, ghost
    <2>11. reply' \in [Task -> [tag : {"Ok"}, events : Seq(StoredEvent)]
                               \cup {Rejected, Conflict, StoreError, None}]
        <3> HIDE DEF rec
        <3> QED BY <2>5, <2>6
    <2>12. commits' \subseteq Commit
        <3> HIDE DEF c
        <3> QED BY <2>7, <2>8
    <2> QED BY <2>3, <2>9, <2>10, <2>11, <2>12
<1>9. ASSUME NEW t \in Task, Retry(t) PROVE TypeOK'
    <2>1. attempts[t] + 1 \in 0..MaxRetries
        BY <1>9, ServiceAssumption DEF Retry, MayRetry
    <2> QED BY <1>9, <2>1 DEF Retry, Goto, store, ghost
<1>10. ASSUME NEW t \in Task, GiveUp(t) PROVE TypeOK'
    BY <1>10 DEF GiveUp, Return, Goto, store, local, ghost
<1>11. ASSUME NEW t \in Task, SaveSnapshot(t) PROVE TypeOK'
    <2>1. SnapshotOf(t) \in Rendered /\ StreamOf(t) \in Stream
        BY <1>11 DEF SaveSnapshot, Saving, StreamOf, Request
    <2> QED BY <1>11, <2>1 DEF SaveSnapshot, Goto, local, ghost
<1>12. ASSUME NEW t \in Task, StoreFails(t) PROVE TypeOK'
    BY <1>12 DEF StoreFails, Return, Goto, store, local, ghost
<1>13. ASSUME NEW t \in Task, Cancel(t) PROVE TypeOK'
    BY <1>13 DEF Cancel, Return, Goto, store, local, ghost
<1>14. ASSUME NEW s \in Stream, DeleteSnapshot(s) PROVE TypeOK'
    <2>1. Default \in Rendered
        BY EmptySeq DEF Default, Rendered
    <2> QED BY <1>14, <2>1 DEF DeleteSnapshot, local, ghost
<1>15. CASE UNCHANGED vars
    BY <1>15 DEF vars
<1> QED BY <1>1, <1>2, <1>3, <1>4, <1>5, <1>6, <1>7, <1>8, <1>9, <1>10, <1>11, <1>12,
           <1>13, <1>14, <1>15 DEF Next, Step, Finished

-----------------------------------------------------------------------------
(* The log. *)

(* Only an accepted append writes the log, and each is a commit. *)
LEMMA LogSteps ==
    ASSUME [Next]_vars
    PROVE  \/ log' = log /\ commits' = commits
           \/ \E t \in Task : AppendEvents(t)
BY DEF Next, Step, vars, Begin, BeginWith, LoadStream, FetchSnapshot, LoadTail, Reject, DecideNothing,
       Decide, Retry, GiveUp, SaveSnapshot, StoreFails, Cancel, DeleteSnapshot, Finished, store

(* Only appends change the log, and they keep it contiguous. *)
LEMMA SoundStep ==
    ASSUME TypeOK, Sound(log), [Next]_vars
    PROVE  Sound(log)'
<1>1. CASE log' = log
    BY <1>1
<1>2. ASSUME NEW t \in Task, AppendEvents(t) PROVE Sound(log)'
    <2>1. StreamOf(t) \in Stream /\ newEvents[t] \in Seq(Payload)
        BY DEF TypeOK, StreamOf, Request
    <2>2. Sound(Appended(log, StreamOf(t), newEvents[t]))
        BY <2>1, AppendKeepsSound
    <2>3. log' = Appended(log, StreamOf(t), newEvents[t])
        BY <1>2 DEF AppendEvents
    <2> QED BY <2>2, <2>3
<1> QED BY <1>1, <1>2, LogSteps

(* A faithful state stays faithful, whatever is appended. *)
LEMMA RenderedStays ==
    ASSUME TypeOK, Sound(log), [Next]_vars,
           NEW s \in Stream, NEW r \in Rendered, RenderedAt(s, r)
    PROVE  /\ r.version <= CurrentVersion(log', s)
           /\ r.state = SubSeq(History(log', s), 1, r.version)
<1>1. CASE log' = log
    BY <1>1 DEF RenderedAt, PrefixAt
<1>2. ASSUME NEW t \in Task, AppendEvents(t)
      PROVE  /\ r.version <= CurrentVersion(log', s)
             /\ r.state = SubSeq(History(log', s), 1, r.version)
    <2>1. StreamOf(t) \in Stream /\ newEvents[t] \in Seq(Payload)
        BY DEF TypeOK, StreamOf, Request
    <2>2. PICK n \in 0..CurrentVersion(log, s) : n = r.version
        BY DEF RenderedAt, Rendered, Sound
    <2>3. r.state = SubSeq(History(log, s), 1, n)
        BY <2>2 DEF RenderedAt, PrefixAt
    <2>4. /\ n <= CurrentVersion(Appended(log, StreamOf(t), newEvents[t]), s)
          /\ SubSeq(History(Appended(log, StreamOf(t), newEvents[t]), s), 1, n) =
                SubSeq(History(log, s), 1, n)
        BY <2>1, PrefixStays, 1 \in Nat \ {0}
    <2>5. log' = Appended(log, StreamOf(t), newEvents[t])
        BY <1>2 DEF AppendEvents
    <2> QED BY <2>2, <2>3, <2>4, <2>5
<1> QED BY <1>1, <1>2, LogSteps

-----------------------------------------------------------------------------
(* The states in hand. *)

(* Folding what an append recorded onto the state it was decided on gives  *)
(* the state after it.                                                     *)
LEMMA FoldedOn ==
    ASSUME Sound(log), NEW s \in Stream, NEW evs \in Seq(Payload), evs # <<>>,
           NEW r \in Rendered, RenderedAt(s, r), r.version = CurrentVersion(log, s),
           NEW after, after = Fold(r, Recorded(log, s, evs))
    PROVE  /\ after \in Rendered
           /\ after.version = CurrentVersion(Appended(log, s, evs), s)
           /\ after.state = History(Appended(log, s, evs), s)
<1> DEFINE rec == Recorded(log, s, evs)
           cv == CurrentVersion(log, s)
<1>1. rec # <<>> /\ rec[Len(rec)].version = cv + Len(evs) /\ Payloads(rec) = evs
    BY RecordedTells
<1>2. r.state = History(log, s)
    <2>1. History(log, s) \in Seq(Payload) /\ Len(History(log, s)) = cv
        BY HistoryIs
    <2> QED BY <2>1, SubSeqFull DEF RenderedAt, PrefixAt
<1>3. after = [version |-> cv + Len(evs), state |-> History(log, s) \o evs]
    <2> HIDE DEF rec
    <2>1. after = Fold(r, rec)
        BY DEF rec
    <2> QED BY <2>1, <1>1, <1>2 DEF Fold
<1>4. /\ CurrentVersion(Appended(log, s, evs), s) = cv + Len(evs)
      /\ History(Appended(log, s, evs), s) = History(log, s) \o evs
    BY OwnVersions, AppendExtendsHistory
<1>5. cv + Len(evs) \in Nat
    BY LenProperties DEF Sound
<1>6. History(log, s) \o evs \in Seq(Payload)
    BY HistoryIs, ConcatProperties
<1> QED BY <1>3, <1>4, <1>5, <1>6 DEF Rendered

(* An append is accepted only at the version the state in hand is at. *)
LEMMA ExpectedIsCurrent ==
    ASSUME NEW t, NEW actual, Passes(Expected(t), actual)
    PROVE  seen[t].version = actual
BY DEF Passes, Expected, NoStream, Exact

(* Where the state in hand comes from. *)
LEMMA SeenSteps ==
    ASSUME TypeOK, [Next]_vars, NEW t \in Task
    PROVE  /\ request'[t] \in Request
           /\ \/ seen'[t] = Default
              \/ /\ request'[t] = request[t]
                 /\ seen'[t] \in {seen[t], Rebuilt(StreamOf(t)), snapshots[StreamOf(t)],
                                  Caughtup(seen[t], StreamOf(t))}
<1> USE DEF TypeOK
<1>1. ASSUME NEW u \in Task, Begin(u)
      PROVE  /\ request'[t] \in Request
             /\ \/ seen'[t] = Default
                \/ request'[t] = request[t] /\ seen'[t] = seen[t]
    BY <1>1 DEF Begin, BeginWith
<1>2. ASSUME NEW u \in Task, LoadStream(u) \/ FetchSnapshot(u) \/ LoadTail(u)
      PROVE  /\ request'[t] = request[t]
             /\ seen'[t] \in {seen[t], Rebuilt(StreamOf(t)), snapshots[StreamOf(t)],
                              Caughtup(seen[t], StreamOf(t))}
    BY <1>2 DEF LoadStream, FetchSnapshot, LoadTail
<1>3. CASE request' = request /\ seen' = seen
    BY <1>3
<1>4. \/ \E u \in Task : Begin(u) \/ LoadStream(u) \/ FetchSnapshot(u) \/ LoadTail(u)
      \/ request' = request /\ seen' = seen
    BY DEF Next, Step, vars, Reject, DecideNothing, Decide, AppendEvents, Retry, GiveUp,
           SaveSnapshot, StoreFails, Cancel, DeleteSnapshot, Finished, local
<1> QED BY <1>1, <1>2, <1>3, <1>4

(* Where a snapshot comes from. *)
LEMMA SnapshotSteps ==
    ASSUME TypeOK, [Next]_vars, NEW s \in Stream
    PROVE  \/ snapshots'[s] \in {snapshots[s], Default}
           \/ \E t \in Task : /\ pc[t] = "save" /\ StreamOf(t) = s
                              /\ snapshots'[s] = SnapshotOf(t)
<1> USE DEF TypeOK
<1>1. ASSUME NEW t \in Task, SaveSnapshot(t)
      PROVE  \/ snapshots'[s] = snapshots[s]
             \/ pc[t] = "save" /\ StreamOf(t) = s /\ snapshots'[s] = SnapshotOf(t)
    BY <1>1 DEF SaveSnapshot
<1>2. ASSUME NEW u \in Stream, DeleteSnapshot(u)
      PROVE  snapshots'[s] \in {snapshots[s], Default}
    BY <1>2 DEF DeleteSnapshot
<1>3. \/ \E t \in Task : SaveSnapshot(t)
      \/ \E u \in Stream : DeleteSnapshot(u)
      \/ snapshots' = snapshots
    BY DEF Next, Step, vars, Begin, BeginWith, LoadStream, FetchSnapshot, LoadTail, Reject, DecideNothing,
           Decide, AppendEvents, Retry, GiveUp, StoreFails, Cancel, Finished, store
<1> QED BY <1>1, <1>2, <1>3

(* States in hand and snapshots stay prefixes of their streams. *)
LEMMA LoadsStep ==
    ASSUME TypeOK, Sound(log), LoadsAgree, \A t \in Task : Saving(t), [Next]_vars
    PROVE  LoadsAgree'
<1> DEFINE Holds(s, r) == /\ r.version <= CurrentVersion(log', s)
                          /\ r.state = SubSeq(History(log', s), 1, r.version)
<1>1. \A s \in Stream, r \in Rendered : RenderedAt(s, r) => Holds(s, r)
    BY RenderedStays
<1>2. ASSUME NEW s \in Stream
      PROVE  Default \in Rendered /\ RenderedAt(s, Default)
    BY DefaultRendered
<1> HIDE DEF Holds
<1>3. ASSUME NEW t \in Task PROVE Holds(request'[t].stream, seen'[t])
    <2>1. CASE seen'[t] = Default
        <3>1. request'[t].stream \in Stream
            BY SeenSteps DEF Request
        <3> QED BY <2>1, <3>1, <1>1, <1>2
    <2>2. CASE /\ request'[t] = request[t]
               /\ seen'[t] \in {seen[t], Rebuilt(StreamOf(t)), snapshots[StreamOf(t)],
                                Caughtup(seen[t], StreamOf(t))}
        <3> DEFINE s == StreamOf(t)
        <3>1. s \in Stream /\ s = request'[t].stream
            BY <2>2 DEF TypeOK, Request, StreamOf
        <3>2. seen[t] \in Rendered /\ RenderedAt(s, seen[t])
            BY DEF TypeOK, LoadsAgree
        <3>3. snapshots[s] \in Rendered /\ RenderedAt(s, snapshots[s])
            BY <3>1 DEF TypeOK, LoadsAgree
        <3>4. Rebuilt(s) \in Rendered /\ RenderedAt(s, Rebuilt(s))
            BY <3>1, RebuiltIsCurrent
        <3>5. Caughtup(seen[t], s) \in Rendered /\ RenderedAt(s, Caughtup(seen[t], s))
            BY <3>1, <3>2, CaughtupIsCurrent
        <3>6. seen'[t] \in Rendered /\ RenderedAt(s, seen'[t])
            BY <2>2, <3>2, <3>3, <3>4, <3>5
        <3> QED BY <3>1, <3>6, <1>1
    <2> QED BY <2>1, <2>2, SeenSteps
<1>4. ASSUME NEW s \in Stream PROVE Holds(s, snapshots'[s])
    <2>1. CASE snapshots'[s] \in {snapshots[s], Default}
        <3>1. snapshots[s] \in Rendered /\ RenderedAt(s, snapshots[s])
            BY DEF TypeOK, LoadsAgree
        <3> QED BY <2>1, <3>1, <1>1, <1>2
    <2>2. ASSUME NEW t \in Task, pc[t] = "save", StreamOf(t) = s, snapshots'[s] = SnapshotOf(t)
          PROVE  Holds(s, snapshots'[s])
        BY <2>2, <1>1 DEF Saving
    <2> QED BY <2>1, <2>2, SnapshotSteps
<1> QED BY <1>3, <1>4 DEF Holds, LoadsAgree, RenderedAt, PrefixAt, StreamOf

-----------------------------------------------------------------------------
(* What a call carries to its append, and from there to its snapshot. *)

(* A step of one call leaves the others alone. *)
LEMMA OwnSteps ==
    ASSUME TypeOK, [Next]_vars, NEW t \in Task, pc'[t] \in {"append", "save"}
    PROVE  \/ /\ pc'[t] = pc[t] /\ request'[t] = request[t] /\ seen'[t] = seen[t]
              /\ newEvents'[t] = newEvents[t] /\ reply'[t] = reply[t]
           \/ (pc'[t] = "append" /\ Decide(t))
           \/ (pc'[t] = "save" /\ AppendEvents(t))
<1> USE DEF TypeOK
<1> DEFINE Same == /\ pc'[t] = pc[t] /\ request'[t] = request[t] /\ seen'[t] = seen[t]
                   /\ newEvents'[t] = newEvents[t] /\ reply'[t] = reply[t]
<1>1. ASSUME NEW u \in Task,
             \/ Begin(u) \/ LoadStream(u) \/ FetchSnapshot(u) \/ LoadTail(u) \/ Retry(u)
             \/ SaveSnapshot(u)
      PROVE  Same
    BY <1>1 DEF Begin, BeginWith, LoadStream, FetchSnapshot, LoadTail, Retry, SaveSnapshot, Goto,
                local, ghost
<1>2. ASSUME NEW u \in Task,
             Reject(u) \/ DecideNothing(u) \/ GiveUp(u) \/ StoreFails(u) \/ Cancel(u)
      PROVE  Same
    BY <1>2 DEF Reject, DecideNothing, GiveUp, StoreFails, Cancel, Return, Goto, local, ghost
<1>3. ASSUME NEW u \in Task, Decide(u)
      PROVE  Same \/ (pc'[t] = "append" /\ Decide(t))
    <2>1. CASE u = t
        BY <2>1, <1>3 DEF Decide, Goto
    <2>2. CASE u # t
        <3>1. PICK d \in Decisions(u) : newEvents' = [newEvents EXCEPT ![u] = d.events]
            BY <1>3 DEF Decide
        <3>2. pc' = [pc EXCEPT ![u] = "append"] /\ UNCHANGED <<request, seen, reply>>
            BY <1>3 DEF Decide, Goto
        <3> QED BY <2>2, <3>1, <3>2
    <2> QED BY <2>1, <2>2
<1>4. ASSUME NEW u \in Task, AppendEvents(u)
      PROVE  Same \/ (pc'[t] = "save" /\ AppendEvents(t))
    <2>1. CASE u = t
        <3>1. pc'[t] \in {"save", "idle"}
            BY <2>1, <1>4 DEF AppendEvents, Goto
        <3> QED BY <2>1, <3>1, <1>4
    <2>2. CASE u # t
        <3>1. /\ reply' = [reply EXCEPT ![u] = Ok(Recorded(log, StreamOf(u), newEvents[u]))]
              /\ UNCHANGED <<request, seen, newEvents>>
            BY <1>4 DEF AppendEvents, local
        <3>2. PICK label : pc' = [pc EXCEPT ![u] = label]
            BY <1>4 DEF AppendEvents, Goto
        <3> QED BY <2>2, <3>1, <3>2
    <2> QED BY <2>1, <2>2
<1>5. CASE UNCHANGED vars \/ \E s \in Stream : DeleteSnapshot(s)
    BY <1>5 DEF vars, DeleteSnapshot, local
<1> QED BY <1>1, <1>2, <1>3, <1>4, <1>5 DEF Next, Step, Finished

(* A call comes to its append by the handler, and by nothing else. *)
LEMMA PendingStep ==
    ASSUME TypeOK, [Next]_vars, NEW t \in Task, Pending(t)
    PROVE  Pending(t)'
<1> SUFFICES ASSUME pc'[t] = "append"
             PROVE  /\ newEvents'[t] # <<>>
                    /\ Ok(newEvents'[t]) \in Handle(request'[t].command, seen'[t].state)
    BY DEF Pending
<1>1. CASE /\ pc'[t] = pc[t] /\ request'[t] = request[t] /\ seen'[t] = seen[t]
           /\ newEvents'[t] = newEvents[t]
    BY <1>1 DEF Pending
<1>2. CASE Decide(t)
    <2>1. PICK d \in Decisions(t) :
            /\ d.tag = "Ok" /\ d.events # <<>>
            /\ newEvents' = [newEvents EXCEPT ![t] = d.events]
        BY <1>2 DEF Decide
    <2>2. d \in Handle(request[t].command, seen[t].state) /\ d \in Decision
        BY DEF Decisions
    <2>3. d = Ok(d.events)
        BY <2>1, <2>2 DEF Decision, Rejected, Err, Ok
    <2>4. newEvents'[t] = d.events /\ request' = request /\ seen' = seen
        BY <1>2, <2>1 DEF Decide, TypeOK
    <2> QED BY <2>1, <2>2, <2>3, <2>4
<1> QED BY <1>1, <1>2, OwnSteps

(* A call comes to its save with the state that its append made. *)
LEMMA SavingStep ==
    ASSUME TypeOK, Sound(log), LoadsAgree, [Next]_vars, NEW t \in Task, Pending(t), Saving(t)
    PROVE  Saving(t)'
<1> SUFFICES ASSUME pc'[t] = "save"
             PROVE  /\ reply'[t].tag = "Ok"
                    /\ Fold(seen'[t], reply'[t].events) \in Rendered
                    /\ Fold(seen'[t], reply'[t].events).version
                            <= CurrentVersion(log', request'[t].stream)
                    /\ Fold(seen'[t], reply'[t].events).state =
                            SubSeq(History(log', request'[t].stream), 1,
                                   Fold(seen'[t], reply'[t].events).version)
    BY DEF Saving, SnapshotOf, RenderedAt, PrefixAt, StreamOf
<1> DEFINE s == request[t].stream
<1>0. s \in Stream /\ seen[t] \in Rendered /\ newEvents[t] \in Seq(Payload)
    BY DEF TypeOK, Request
<1>1. CASE /\ pc'[t] = pc[t] /\ request'[t] = request[t] /\ seen'[t] = seen[t]
           /\ reply'[t] = reply[t]
    <2> DEFINE r == Fold(seen[t], reply[t].events)
    <2>1. reply[t].tag = "Ok" /\ r \in Rendered /\ RenderedAt(s, r)
        BY <1>1 DEF Saving, SnapshotOf, StreamOf
    <2> HIDE DEF r
    <2>2. r.version <= CurrentVersion(log', s) /\ r.state = SubSeq(History(log', s), 1, r.version)
        BY <2>1, <1>0, RenderedStays
    <2> QED BY <1>1, <2>1, <2>2 DEF r
<1>2. CASE AppendEvents(t)
    <2> DEFINE evs == newEvents[t]
               log2 == Appended(log, s, evs)
               r == Fold(seen[t], Recorded(log, s, evs))
    <2>1. evs # <<>> /\ seen[t].version = CurrentVersion(log, s)
        BY <1>2, ExpectedIsCurrent DEF AppendEvents, Pending, StreamOf
    <2>2. RenderedAt(s, seen[t])
        BY DEF LoadsAgree, StreamOf
    <2>3. r \in Rendered /\ r.version = CurrentVersion(log2, s) /\ r.state = History(log2, s)
        BY <1>0, <2>1, <2>2, FoldedOn
    <2>4. Sound(log2)
        BY <1>0, AppendKeepsSound
    <2>5. CurrentVersion(log2, s) \in Nat /\ SubSeq(History(log2, s), 1, CurrentVersion(log2, s)) = History(log2, s)
        BY <1>0, <2>4, HistoryIs, SubSeqFull DEF Sound
    <2>6. /\ log' = log2 /\ request' = request /\ seen' = seen
          /\ reply' = [reply EXCEPT ![t] = Ok(Recorded(log, s, evs))]
        BY <1>2 DEF AppendEvents, local, StreamOf
    <2>7. reply'[t].tag = "Ok" /\ reply'[t].events = Recorded(log, s, evs)
        BY <2>6 DEF TypeOK, Ok
    <2> HIDE DEF log2, r
    <2>8. Fold(seen'[t], reply'[t].events) = r
        BY <2>6, <2>7 DEF r
    <2> QED BY <2>3, <2>5, <2>6, <2>7, <2>8
<1> QED BY <1>1, <1>2, OwnSteps

-----------------------------------------------------------------------------
(* Serializability. *)

(* A commit stays where it is in its stream. *)
LEMMA CommitStays ==
    ASSUME Sound(log), NEW s \in Stream, NEW evs \in Seq(Payload),
           NEW d \in Commit, DecidedIn(History(log, d.stream), d)
    PROVE  DecidedIn(History(Appended(log, s, evs), d.stream), d)
<1> DEFINE log2 == Appended(log, s, evs)
           u == d.stream
           n == d.from + Len(d.events)
           cv == CurrentVersion(log, u)
<1>1. u \in Stream /\ d.from \in Nat /\ Len(d.events) \in Nat
    BY LenProperties DEF Commit
<1>2. Len(History(log, u)) = cv /\ cv \in Nat /\ n <= cv
    BY <1>1, HistoryIs DEF Sound, DecidedIn
<1>3. d.from \in 0..cv /\ n \in 0..cv /\ d.from + 1 \in Nat \ {0}
    BY <1>1, <1>2
<1>4. SubSeq(History(log2, u), 1, d.from) = SubSeq(History(log, u), 1, d.from)
    BY <1>1, <1>3, PrefixStays, 1 \in Nat \ {0}
<1>5. n <= CurrentVersion(log2, u)
    BY <1>1, <1>3, PrefixStays, 1 \in Nat \ {0}
<1>6. SubSeq(History(log2, u), d.from + 1, n) = SubSeq(History(log, u), d.from + 1, n)
    BY <1>1, <1>3, PrefixStays
<1>7. Len(History(log2, u)) = CurrentVersion(log2, u)
    BY <1>1, HistoryIs, AppendKeepsSound
<1> HIDE DEF log2
<1> QED BY <1>4, <1>5, <1>6, <1>7 DEF DecidedIn, log2

(* A batch decided on the whole of a history is in its place at the end. *)
LEMMA NewCommit ==
    ASSUME Sound(log), NEW s \in Stream, NEW evs \in Seq(Payload), NEW c \in Commit,
           c.stream = s, c.from = CurrentVersion(log, s), c.events = evs,
           Ok(evs) \in Handle(c.command, History(log, s))
    PROVE  DecidedIn(History(Appended(log, s, evs), s), c)
<1> DEFINE h == History(log, s)
           cv == CurrentVersion(log, s)
<1>1. h \in Seq(Payload) /\ Len(h) = cv /\ cv \in Nat /\ Len(evs) \in Nat
    BY HistoryIs, LenProperties DEF Sound
<1>2. History(Appended(log, s, evs), s) = h \o evs
    BY AppendExtendsHistory
<1> HIDE DEF h, cv
<1>3. Len(h \o evs) = cv + Len(evs)
    BY <1>1, ConcatProperties
<1>4. SubSeq(h \o evs, 1, cv) = h
    <2>1. SubSeq(h \o evs, 1, cv) = SubSeq(h, 1, cv)
        BY <1>1, SubSeqBeforeConcat, 1 \in Nat \ {0}, cv \in 0..cv
    <2> QED BY <2>1, <1>1, SubSeqFull
<1>5. SubSeq(h \o evs, cv + 1, cv + Len(evs)) = evs
    <2>1. CASE evs = <<>>
        BY <2>1, <1>1, EmptySeq, SubSeqEmpty
    <2>2. CASE evs # <<>>
        <3>1. Len(evs) \in Nat \ {0}
            BY <2>2, EmptySeq
        <3>2. /\ cv + 1 \in Len(h) + 1 .. Len(h) + Len(evs)
              /\ cv + Len(evs) \in Len(h) + 1 .. Len(h) + Len(evs)
              /\ cv + 1 - Len(h) = 1 /\ cv + Len(evs) - Len(h) = Len(evs)
            BY <3>1, <1>1
        <3>3. SubSeq(h \o evs, cv + 1, cv + Len(evs)) = SubSeq(evs, 1, Len(evs))
            BY <3>2, <1>1, SubSeqOfConcat2
        <3> QED BY <3>3, SubSeqFull
    <2> QED BY <2>1, <2>2
<1>6. c.from = cv /\ c.events = evs /\ Ok(evs) \in Handle(c.command, h)
    BY DEF h, cv
<1>7. c.from + Len(c.events) <= Len(h \o evs)
    BY <1>1, <1>3, <1>6
<1>8. Ok(c.events) \in Handle(c.command, SubSeq(h \o evs, 1, c.from))
    BY <1>4, <1>6, Zenon
<1>9. c.events = SubSeq(h \o evs, c.from + 1, c.from + Len(c.events))
    BY <1>5, <1>6, Zenon
<1> QED BY <1>2, <1>7, <1>8, <1>9, Zenon DEF DecidedIn

(* An append is decided on the whole history; old commits keep their       *)
(* place.                                                                  *)
LEMMA SerializableStep ==
    ASSUME TypeOK, Sound(log), LoadsAgree, \A t \in Task : Pending(t), Serializable, [Next]_vars
    PROVE  Serializable'
<1>1. CASE log' = log /\ commits' = commits
    BY <1>1 DEF Serializable
<1>2. ASSUME NEW t \in Task, AppendEvents(t) PROVE Serializable'
    <2> DEFINE s == StreamOf(t)
               evs == newEvents[t]
               cv == CurrentVersion(log, s)
               log2 == Appended(log, s, evs)
               c == [call |-> call[t], stream |-> s, command |-> request[t].command,
                     from |-> cv, events |-> evs]
    <2>1. /\ s \in Stream /\ evs \in Seq(Payload) /\ request[t].command \in Command
          /\ call[t] \in Nat /\ cv \in Nat /\ Len(evs) \in Nat
        BY LenProperties DEF TypeOK, StreamOf, Request, Sound
    <2>2. log' = log2 /\ commits' = commits \cup {c}
        BY <1>2 DEF AppendEvents
    <2>3. evs # <<>> /\ Ok(evs) \in Handle(request[t].command, seen[t].state)
        BY <1>2 DEF AppendEvents, Pending
    <2>4. seen[t].state = History(log, s)
        <3>1. seen[t].version = cv /\ RenderedAt(s, seen[t])
            BY <1>2, ExpectedIsCurrent DEF AppendEvents, LoadsAgree
        <3>2. History(log, s) \in Seq(Payload) /\ Len(History(log, s)) = cv
            BY <2>1, HistoryIs
        <3> QED BY <3>1, <3>2, SubSeqFull DEF RenderedAt, PrefixAt
    <2>5. c \in Commit /\ c.stream = s /\ c.from = cv /\ c.events = evs
          /\ c.command = request[t].command
        BY <2>1 DEF Commit
    <2> HIDE DEF c
    <2>6. DecidedIn(History(log2, c.stream), c)
        BY <2>1, <2>3, <2>4, <2>5, NewCommit
    <2>7. ASSUME NEW d \in commits PROVE DecidedIn(History(log2, d.stream), d)
        <3>1. d \in Commit
            BY DEF TypeOK
        <3>2. DecidedIn(History(log, d.stream), d)
            BY DEF Serializable
        <3> QED BY <2>1, <3>1, <3>2, CommitStays
    <2>8. ASSUME NEW d \in commits
          PROVE  /\ d.stream \in Stream /\ d.from \in Nat /\ Len(d.events) \in Nat
                 /\ d.from + Len(d.events) <= CurrentVersion(log, d.stream)
        <3>1. d.stream \in Stream /\ d.from \in Nat /\ Len(d.events) \in Nat
            BY LenProperties DEF TypeOK, Commit
        <3> QED BY <3>1, HistoryIs DEF Serializable, DecidedIn
    <2>a. CurrentVersion(log2, s) = cv + Len(evs)
        BY <2>1, OwnVersions
    <2>b. \A u \in Stream : u # s => CurrentVersion(log2, u) = CurrentVersion(log, u)
        BY <2>1, OtherStreams
    <2>c. cv = CurrentVersion(log, s)
        OBVIOUS
    <2> HIDE DEF s, evs, cv, log2
    <2>9. ASSUME NEW u \in Stream, NEW v \in 1..CurrentVersion(log2, u)
          PROVE  \E x \in commits \cup {c} :
                    \A d \in commits \cup {c} : Covers(d, u, v) <=> d = x
        <3>1. CASE v \in 1..CurrentVersion(log, u) /\ ~Covers(c, u, v)
            <4>1. PICK x \in commits : \A d \in commits : Covers(d, u, v) <=> d = x
                BY <3>1 DEF Serializable
            <4> QED BY <3>1, <4>1
        <3>2. CASE u # s
            <4>1. ~Covers(c, u, v)
                BY <3>2, <2>5 DEF Covers
            <4> QED BY <3>1, <3>2, <4>1, <2>b
        <3>3. CASE u = s /\ v <= cv
            <4>1. v \in 1..CurrentVersion(log, u)
                BY <3>3, <2>1, <2>a, <2>c
            <4>2. ~Covers(c, u, v)
                BY <3>3, <4>1, <2>1, <2>5 DEF Covers
            <4> QED BY <3>1, <4>1, <4>2
        <3>4. CASE u = s /\ v > cv
            <4>1. v <= cv + Len(evs)
                BY <3>4, <2>1, <2>a
            <4>2. Covers(c, u, v)
                BY <3>4, <4>1, <2>5 DEF Covers
            <4>3. ASSUME NEW d \in commits PROVE ~Covers(d, u, v)
                <5>1. CASE d.stream # s
                    BY <5>1, <3>4 DEF Covers
                <5>2. CASE d.stream = s
                    <6>1. d.from + Len(d.events) <= cv /\ d.from \in Nat /\ Len(d.events) \in Nat
                        BY <5>2, <2>8, <2>c
                    <6>2. v \in Int
                        BY <3>4, <2>1, <2>a
                    <6> QED BY <6>1, <6>2, <3>4, <2>1 DEF Covers
                <5> QED BY <5>1, <5>2
            <4> QED BY <4>2, <4>3
        <3>5. u = s => v <= cv \/ v > cv
            BY <2>1, <2>a
        <3> QED BY <3>2, <3>3, <3>4, <3>5
    <2> QED BY <2>2, <2>6, <2>7, <2>9 DEF Serializable
<1> QED BY <1>1, <1>2, LogSteps

-----------------------------------------------------------------------------
(* The theorems. *)

(* The two halves of the induction. *)
LEMMA InitIInv == Init => IInv
<1> SUFFICES ASSUME Init PROVE IInv
    OBVIOUS
<1>1. TypeOK
    BY TypeInit
<1>2. log = <<>> /\ commits = {} /\ snapshots = [s \in Stream |-> Default]
      /\ pc = [t \in Task |-> "idle"] /\ seen = [t \in Task |-> Default]
    BY DEF Init
<1>3. Sound(log)
    BY <1>2, EmptyLog
<1>4. LoadsAgree
    <2>1. \A s \in Stream : RenderedAt(s, Default)
        BY <1>3, DefaultRendered
    <2>2. \A t \in Task : StreamOf(t) \in Stream
        BY <1>1 DEF TypeOK, StreamOf, Request
    <2> QED BY <1>2, <2>1, <2>2 DEF LoadsAgree
<1>5. \A t \in Task : Pending(t) /\ Saving(t)
    BY <1>2 DEF Pending, Saving
<1>6. Serializable
    BY <1>2, EmptyLog, 1..0 = {} DEF Serializable
<1> QED BY <1>1, <1>3, <1>4, <1>5, <1>6 DEF IInv

LEMMA StepIInv == IInv /\ [Next]_vars => IInv'
<1> SUFFICES ASSUME IInv, [Next]_vars PROVE IInv'
    OBVIOUS
<1> USE DEF IInv
<1>1. TypeOK'
    BY TypeStep
<1>2. Sound(log)'
    BY SoundStep
<1>3. LoadsAgree'
    BY LoadsStep
<1>4. \A t \in Task : Pending(t)'
    BY PendingStep
<1>5. \A t \in Task : Saving(t)'
    BY SavingStep
<1>6. Serializable'
    BY SerializableStep
<1> QED BY <1>1, <1>2, <1>3, <1>4, <1>5, <1>6

(* In every state the log is contiguous, every state in hand is what load  *)
(* gave at its version, every suspended decision is the handler's on that  *)
(* state, and every commit is in its place (Service::execute and its       *)
(* variants).                                                              *)
THEOREM Invariance == Spec => []IInv
BY InitIInv, StepIInv, PTL DEF Spec

(* Every state of every call is well formed. *)
THEOREM TypeCorrect == Spec => []TypeOK
<1>1. IInv => TypeOK
    BY DEF IInv
<1> QED BY <1>1, Invariance, PTL

(* However calls interleave, fail or are dropped, the log Service leaves   *)
(* keeps the contract of EventStore: contiguous versions, in log order.    *)
THEOREM LogContiguous == Spec => []StreamsContiguous
<1>1. IInv => StreamsContiguous
    BY DEF IInv, Sound, StreamsContiguous
<1> QED BY <1>1, Invariance, PTL

(* load_snapshotted renders what load would, with any number of calls      *)
(* appending, saving and deleting snapshots between its two awaits.        *)
THEOREM SnapshotsAreTransparent == Spec => []LoadsAgree
<1>1. IInv => LoadsAgree
    BY DEF IInv
<1> QED BY <1>1, Invariance, PTL

(* Optimistic concurrency works: each batch in the log was decided on      *)
(* exactly the events before it, and every event belongs to one batch.     *)
THEOREM CommandsSerializable == Spec => []Serializable
<1>1. IInv => Serializable
    BY DEF IInv
<1> QED BY <1>1, Invariance, PTL

-----------------------------------------------------------------------------
(* The inductive invariant, on top of IInv. *)

(* Calls are told apart by their numbers, and a commit names its call. *)
Numbered ==
    /\ IsFiniteSet(commits)
    /\ \A t \in Task : call[t] <= begun /\ (pc[t] # "idle" => call[t] # 0)
    /\ \A t, u \in Task : call[t] = call[u] /\ call[t] # 0 => t = u
    /\ \A c \in commits : c.call \in 1..begun /\ c.events # <<>>
    /\ \A c, d \in commits : c.call = d.call => c = d
    /\ \A t \in Task : \A c \in CommitsOf(t) :
          c.stream = StreamOf(t) /\ c.command = request[t].command

BeforeAppend == {"load", "fetch", "tail", "decide", "append"}

Tells(t) ==
    \/ reply[t].events = <<>> /\ CommitsOf(t) = {}
    \/ \E c \in commits :
          /\ CommitsOf(t) = {c}
          /\ reply[t].events = NumberedFrom(c.stream, c.from, c.events)

(* AnswerTellsCommit, at every step of the call: it writes once, and has   *)
(* its answer from then on.                                                *)
Answered(t) ==
    /\ pc[t] \in BeforeAppend => reply[t] = None /\ CommitsOf(t) = {}
    /\ pc[t] = "save" => /\ reply[t].tag = "Ok" /\ reply[t].events # <<>>
                         /\ request[t].mode = "execute_snapshotting"
    /\ reply[t].tag \in {"Rejected", "Conflict"} => CommitsOf(t) = {}
    /\ reply[t].tag = "Ok" => Tells(t)
    /\ request[t].mode = "execute" /\ reply[t].tag # "Ok" => CommitsOf(t) = {}

(* Commits lie before version v of their stream or after it. *)
Boundary(s, v) ==
    \A c \in commits : c.stream = s => c.from + Len(c.events) <= v \/ c.from >= v

RivalsBefore(t) == {c \in RivalsOf(t) : c.from < seen[t].version}

(* The state a call decides on was current at an instant of the call, and  *)
(* the rivals its retries blame had committed by then.                     *)
Witnessed(t) ==
    /\ since[t] <= CurrentVersion(log, StreamOf(t))
    /\ pc[t] \in {"decide", "append"} =>
          /\ since[t] <= seen[t].version
          /\ Boundary(StreamOf(t), seen[t].version)
          /\ attempts[t] <= Cardinality(RivalsBefore(t))

CInv ==
    /\ IInv
    /\ Numbered
    /\ \A t \in Task : Answered(t) /\ Witnessed(t)
    /\ ConflictsHaveRivals

-----------------------------------------------------------------------------
(* Steps of one task leave the others alone. *)

Untouched(t) ==
    /\ pc'[t] = pc[t] /\ request'[t] = request[t] /\ seen'[t] = seen[t]
    /\ newEvents'[t] = newEvents[t] /\ attempts'[t] = attempts[t]
    /\ reply'[t] = reply[t] /\ call'[t] = call[t] /\ since'[t] = since[t]

(* What a step is to one task: its own, or none. *)
LEMMA TaskSteps ==
    ASSUME TypeOK, [Next]_vars, NEW t \in Task
    PROVE  \/ Untouched(t)
           \/ Begin(t) \/ Step(t) \/ StoreFails(t) \/ Cancel(t)
<1> USE DEF TypeOK, Untouched
<1>1. ASSUME NEW u \in Task, u # t, Begin(u) PROVE Untouched(t)
    BY <1>1 DEF Begin, BeginWith, Goto
<1>2. ASSUME NEW u \in Task, u # t,
             \/ LoadStream(u) \/ FetchSnapshot(u) \/ LoadTail(u) \/ Retry(u) \/ SaveSnapshot(u)
      PROVE  Untouched(t)
    BY <1>2 DEF LoadStream, FetchSnapshot, LoadTail, Retry, SaveSnapshot, Goto, local, ghost
<1>3. ASSUME NEW u \in Task, u # t,
             Reject(u) \/ DecideNothing(u) \/ GiveUp(u) \/ StoreFails(u) \/ Cancel(u)
      PROVE  Untouched(t)
    BY <1>3 DEF Reject, DecideNothing, GiveUp, StoreFails, Cancel, Return, Goto, local, ghost
<1>4. ASSUME NEW u \in Task, u # t, Decide(u) PROVE Untouched(t)
    <2>1. PICK d \in Decisions(u) : newEvents' = [newEvents EXCEPT ![u] = d.events]
        BY <1>4 DEF Decide
    <2> QED BY <2>1, <1>4 DEF Decide, Goto, ghost
<1>5. ASSUME NEW u \in Task, u # t, AppendEvents(u) PROVE Untouched(t)
    <2>1. /\ reply' = [reply EXCEPT ![u] = Ok(Recorded(log, StreamOf(u), newEvents[u]))]
          /\ UNCHANGED <<local, ghost>>
        BY <1>5 DEF AppendEvents
    <2>2. PICK label : pc' = [pc EXCEPT ![u] = label]
        BY <1>5 DEF AppendEvents, Goto
    <2> QED BY <1>5, <2>1, <2>2 DEF local, ghost
<1>6. CASE UNCHANGED vars \/ \E s \in Stream : DeleteSnapshot(s)
    BY <1>6 DEF vars, DeleteSnapshot, local, ghost
<1> QED BY <1>1, <1>2, <1>3, <1>4, <1>5, <1>6 DEF Next, Step, Finished

-----------------------------------------------------------------------------
(* When a snapshot is due. *)

(* Division with remainder ... *)
LEMMA DivisionIs ==
    ASSUME NEW n \in Nat \ {0}, NEW x \in Nat
    PROVE  x \div n \in Nat /\ x % n \in 0..(n - 1) /\ x = n * (x \div n) + (x % n)
OBVIOUS

(* ... and multiples. *)
LEMMA MultiplesGrow ==
    ASSUME NEW n \in Nat, NEW x \in Nat, NEW y \in Nat, x < y
    PROVE  n * x \in Nat /\ n * y \in Nat /\ n * x + n <= n * y
OBVIOUS

LEMMA MultipleIs ==
    ASSUME NEW n \in Nat \ {0}, NEW b \in Nat
    PROVE  n * b \in Nat /\ (n * b) % n = 0
OBVIOUS

(* should_snapshot compares two quotients: they differ where a version     *)
(* after the old one, up to the new one, is a multiple of n.               *)
LEMMA ShouldSnapshotIs ==
    ASSUME NEW n \in Nat, NEW old \in Nat, NEW m \in Nat
    PROVE  ShouldSnapshot(n, old, old + m) <=> n # 0 /\ \E k \in 1..m : (old + k) % n = 0
<1> SUFFICES ASSUME n # 0
             PROVE  old \div n # (old + m) \div n <=> \E k \in 1..m : (old + k) % n = 0
    BY DEF ShouldSnapshot
<1>1. n \in Nat \ {0} /\ old + m \in Nat
    OBVIOUS
<1>2. PICK a \in Nat : a = old \div n
    BY <1>1, DivisionIs
<1>3. PICK b \in Nat : b = (old + m) \div n
    BY <1>1, DivisionIs
<1>4. n * a \in Nat /\ n * a <= old /\ old < n * a + n
    <2>1. old = n * a + (old % n) /\ old % n \in 0..(n - 1)
        BY <1>1, <1>2, DivisionIs
    <2>2. n * a \in Nat
        BY <1>1, MultipleIs
    <2> QED BY <2>1, <2>2
<1>5. n * b \in Nat /\ n * b <= old + m /\ old + m < n * b + n
    <2>1. old + m = n * b + ((old + m) % n) /\ (old + m) % n \in 0..(n - 1)
        BY <1>1, <1>3, DivisionIs
    <2>2. n * b \in Nat
        BY <1>1, MultipleIs
    <2> QED BY <2>1, <2>2
<1>6. ASSUME a # b PROVE \E k \in 1..m : (old + k) % n = 0
    <2>1. a < b
        <3>1. b < a => n * b + n <= n * a
            BY MultiplesGrow
        <3> QED BY <1>4, <1>5, <1>6, <3>1
    <2>2. n * a + n <= n * b
        BY <2>1, MultiplesGrow
    <2>3. n * b - old \in 1..m /\ old + (n * b - old) = n * b
        BY <1>4, <1>5, <2>2
    <2>4. (n * b) % n = 0
        BY <1>1, MultipleIs
    <2> QED BY <2>3, <2>4
<1>7. ASSUME NEW k \in 1..m, (old + k) % n = 0 PROVE a # b
    <2>1. PICK q \in Nat : n * q = old + k /\ n * q \in Nat
        <3>1. old + k \in Nat
            OBVIOUS
        <3>2. (old + k) \div n \in Nat /\ old + k = n * ((old + k) \div n) + ((old + k) % n)
            BY <1>1, <3>1, DivisionIs
        <3>3. n * ((old + k) \div n) \in Nat
            BY <1>1, <3>2, MultipleIs
        <3> QED BY <1>7, <3>2, <3>3
    <2>2. a < q
        <3>1. q < a => n * q + n <= n * a
            BY MultiplesGrow
        <3>2. n * q > n * a
            BY <1>4, <2>1
        <3> QED BY <1>4, <2>1, <3>1, <3>2
    <2>3. n * a + n <= n * q
        BY <2>2, MultiplesGrow
    <2> QED BY <1>5, <2>1, <2>3
<1> QED BY <1>2, <1>3, <1>6, <1>7

(* The policy is asked what Crosses says: the version expected, which the  *)
(* append was accepted at, is that of the event before the first recorded. *)
LEMMA DueIsCrossing ==
    ASSUME IInv, NEW t \in Task, AppendEvents(t), NEW recorded,
           recorded = Recorded(log, StreamOf(t), newEvents[t])
    PROVE  /\ SnapshotDue(t, recorded)
                <=> request[t].mode = "execute_snapshotting" /\ Crosses(recorded)
           /\ CurrentVersion(log, StreamOf(t)) < recorded[Len(recorded)].version
<1> DEFINE s == StreamOf(t)
           evs == newEvents[t]
           cv == CurrentVersion(log, s)
<1>1. s \in Stream /\ evs \in Seq(Payload) /\ evs # <<>> /\ Sound(log) /\ cv \in Nat
    BY DEF IInv, TypeOK, StreamOf, Request, Sound, Pending, AppendEvents
<1>2. seen[t].version = cv
    BY ExpectedIsCurrent DEF AppendEvents
<1>3. Len(evs) \in Nat \ {0}
    BY <1>1, EmptySeq, LenProperties
<1>4. recorded[Len(recorded)].version = cv + Len(evs)
    BY <1>1, RecordedTells
<1>5. /\ DOMAIN recorded = 1..Len(evs)
      /\ \A k \in 1..Len(evs) : recorded[k].version = cv + k
    BY <1>1, <1>3 DEF Recorded, NumberedFrom
<1> HIDE DEF cv, evs
<1>6. ShouldSnapshot(SnapshotEvery, cv, cv + Len(evs)) <=> Crosses(recorded)
    <2>1. ShouldSnapshot(SnapshotEvery, cv, cv + Len(evs))
            <=> SnapshotEvery # 0 /\ \E k \in 1..Len(evs) : (cv + k) % SnapshotEvery = 0
        BY <1>1, <1>3, ShouldSnapshotIs, ServiceAssumption
    <2> QED BY <1>5, <2>1 DEF Crosses
<1>7. cv < cv + Len(evs)
    BY <1>1, <1>3
<1> QED BY <1>2, <1>4, <1>6, <1>7 DEF SnapshotDue, cv

(* Only a call whose batch crossed a multiple of n comes to a save. *)
Due(t) == pc[t] = "save" => Crosses(reply[t].events)

LEMMA DueStep ==
    ASSUME IInv, [Next]_vars, NEW t \in Task, Due(t)
    PROVE  Due(t)'
<1> SUFFICES ASSUME pc'[t] = "save" PROVE Crosses(reply'[t].events)
    BY DEF Due, Crosses
<1>1. CASE pc'[t] = pc[t] /\ reply'[t] = reply[t]
    BY <1>1 DEF Due
<1>2. CASE AppendEvents(t)
    <2>1. PICK recorded : recorded = Recorded(log, StreamOf(t), newEvents[t])
        OBVIOUS
    <2>2. /\ reply' = [reply EXCEPT ![t] = Ok(recorded)]
          /\ pc' = [pc EXCEPT ![t] = IF SnapshotDue(t, recorded) THEN "save" ELSE "idle"]
        BY <1>2, <2>1 DEF AppendEvents, Goto
    <2>3. reply'[t].events = recorded /\ SnapshotDue(t, recorded)
        BY <2>2 DEF IInv, TypeOK, Ok
    <2> QED BY <1>2, <2>1, <2>3, DueIsCrossing
<1> QED BY <1>1, <1>2, OwnSteps DEF IInv

(* A call that returns what it wrote has saved the snapshot that was due,  *)
(* and there is no other of that version.                                  *)
LEMMA ReturnsAfterSnapshot ==
    ASSUME IInv, [Next]_vars, NEW t \in Task, Due(t), ReturnsWritten(t)
    PROVE  SnapshotFollows(t)
<1> DEFINE s == StreamOf(t)
           events == reply'[t].events
<1>0. /\ TypeOK /\ s \in Stream
      /\ pc[t] # "idle" /\ pc'[t] = "idle" /\ reply'[t].tag = "Ok" /\ events # <<>>
      /\ request[t].mode = "execute_snapshotting"
    BY DEF IInv, TypeOK, ReturnsWritten, StreamOf, Request
<1>1. CASE AppendEvents(t)
    <2>1. PICK recorded : recorded = Recorded(log, StreamOf(t), newEvents[t])
        OBVIOUS
    <2>2. /\ reply' = [reply EXCEPT ![t] = Ok(recorded)] /\ snapshots' = snapshots
          /\ pc' = [pc EXCEPT ![t] = IF SnapshotDue(t, recorded) THEN "save" ELSE "idle"]
        BY <1>1, <2>1 DEF AppendEvents, Goto
    <2>3. reply'[t].events = recorded /\ ~SnapshotDue(t, recorded)
        BY <1>0, <2>2 DEF TypeOK, Ok
    <2>4. ~Crosses(recorded) /\ CurrentVersion(log, s) < recorded[Len(recorded)].version
        BY <1>0, <1>1, <2>1, <2>3, DueIsCrossing
    <2>5. /\ snapshots[s].version \in Nat /\ CurrentVersion(log, s) \in Nat
          /\ snapshots[s].version <= CurrentVersion(log, s)
        BY <1>0 DEF IInv, LoadsAgree, RenderedAt, TypeOK, Rendered, Sound
    <2>6. recorded[Len(recorded)].version \in Nat
        <3>1. newEvents[t] \in Seq(Payload) /\ newEvents[t] # <<>> /\ Sound(log)
            BY <1>0, <1>1 DEF IInv, TypeOK, Pending, AppendEvents
        <3>2. recorded[Len(recorded)].version = CurrentVersion(log, s) + Len(newEvents[t])
            BY <1>0, <2>1, <3>1, RecordedTells
        <3>3. Len(newEvents[t]) \in Nat
            BY <3>1, LenProperties
        <3> QED BY <2>5, <3>2, <3>3
    <2> QED BY <2>2, <2>3, <2>4, <2>5, <2>6 DEF SnapshotFollows
<1>2. CASE SaveSnapshot(t)
    <2>1. pc[t] = "save" /\ reply' = reply /\ snapshots' = [snapshots EXCEPT ![s] = SnapshotOf(t)]
        BY <1>2 DEF SaveSnapshot
    <2>2. Crosses(events)
        BY <2>1 DEF Due
    <2>3. snapshots'[s].version = events[Len(events)].version
        BY <1>0, <2>1 DEF TypeOK, SnapshotOf, Fold
    <2> QED BY <2>2, <2>3 DEF SnapshotFollows
<1>3. CASE Reject(t) \/ GiveUp(t) \/ StoreFails(t) \/ Cancel(t)
    BY <1>0, <1>3 DEF Reject, GiveUp, StoreFails, Cancel, Return, TypeOK,
                      Rejected, Conflict, StoreError, None, Err
<1>4. CASE DecideNothing(t)
    BY <1>0, <1>4 DEF DecideNothing, Return, TypeOK, Ok
<1>5. ~Begin(t) /\ ~Untouched(t)
    BY <1>0 DEF Begin, BeginWith, Untouched
<1>6. CASE LoadStream(t) \/ FetchSnapshot(t) \/ LoadTail(t) \/ Decide(t) \/ Retry(t)
    BY <1>0, <1>6 DEF LoadStream, FetchSnapshot, LoadTail, Decide, Retry, Goto, TypeOK
<1> QED BY <1>0, <1>1, <1>2, <1>3, <1>4, <1>5, <1>6, TaskSteps DEF Step

(* SnapshotPolicy::EveryNEvents: execute_snapshotting returns its events   *)
(* with a snapshot of the last of them if the batch crossed a multiple of  *)
(* n, and without one otherwise, for every n and every length of batch.    *)
THEOREM SnapshotsFollowPolicy == Spec => SnapshotsWhenDue
<1>1. Init => \A t \in Task : Due(t)
    BY DEF Init, Due
<1>2. IInv /\ (\A t \in Task : Due(t)) /\ [Next]_vars => (\A t \in Task : Due(t))'
    BY DueStep
<1>3. IInv /\ (\A t \in Task : Due(t)) /\ [Next]_vars
        => [\A t \in Task : ReturnsWritten(t) => SnapshotFollows(t)]_vars
    BY ReturnsAfterSnapshot
<1> QED BY <1>1, <1>2, <1>3, Invariance, PTL DEF Spec, SnapshotsWhenDue

-----------------------------------------------------------------------------
(* What an append leaves behind. *)

(* The commit an append of t makes. *)
CommitMade(t) ==
    [call |-> call[t], stream |-> StreamOf(t), command |-> request[t].command,
     from |-> CurrentVersion(log, StreamOf(t)), events |-> newEvents[t]]

(* The commit that an append makes. *)
LEMMA AppendMakes ==
    ASSUME CInv, NEW t \in Task, AppendEvents(t)
    PROVE  /\ commits' = commits \cup {CommitMade(t)}
           /\ CommitMade(t) \in Commit
           /\ CommitMade(t).call = call[t] /\ call[t] \in 1..begun
           /\ CommitMade(t).stream = StreamOf(t) /\ StreamOf(t) \in Stream
           /\ CommitMade(t).command = request[t].command
           /\ CommitMade(t).from = CurrentVersion(log, StreamOf(t))
           /\ CommitMade(t).events = newEvents[t] /\ newEvents[t] # <<>>
           /\ UNCHANGED <<request, seen, newEvents, attempts, begun, call, since>>
<1>1. TypeOK /\ Sound(log) /\ Pending(t)
    BY DEF CInv, IInv
<1>2. /\ call[t] \in Nat /\ call[t] <= begun /\ begun \in Nat /\ call[t] # 0
      /\ StreamOf(t) \in Stream /\ newEvents[t] \in Seq(Payload) /\ request[t].command \in Command
    BY <1>1, ServiceAssumption DEF CInv, Numbered, TypeOK, AppendEvents, StreamOf, Request
<1>3. CurrentVersion(log, StreamOf(t)) \in Nat
    BY <1>1, <1>2 DEF Sound
<1>4. CommitMade(t) \in Commit
    BY <1>2, <1>3 DEF CommitMade, Commit
<1>5. commits' = commits \cup {CommitMade(t)}
    BY DEF AppendEvents, CommitMade
<1>6. newEvents[t] # <<>>
    BY <1>1 DEF Pending, AppendEvents
<1>7. UNCHANGED <<request, seen, newEvents, attempts, begun, call, since>>
    BY DEF AppendEvents, local, ghost
<1>8. call[t] \in 1..begun
    BY <1>2
<1> QED BY <1>2, <1>4, <1>5, <1>6, <1>7, <1>8 DEF CommitMade

(* The commits of a call change only by its own append. *)
LEMMA OwnCommitsStay ==
    ASSUME CInv, [Next]_vars, NEW t \in Task, call'[t] = call[t], ~AppendEvents(t)
    PROVE  CommitsOf(t)' = CommitsOf(t)
<1>1. CASE commits' = commits
    BY <1>1 DEF CommitsOf
<1>2. ASSUME NEW u \in Task, AppendEvents(u) PROVE CommitsOf(t)' = CommitsOf(t)
    <2>1. commits' = commits \cup {CommitMade(u)} /\ CommitMade(u).call = call[u] /\ call[u] # 0
        BY <1>2, AppendMakes
    <2>2. call[u] # call[t]
        BY <1>2, <2>1 DEF CInv, Numbered
    <2> QED BY <2>1, <2>2 DEF CommitsOf
<1> QED BY <1>1, <1>2, LogSteps

(* It is the only one of its call. *)
LEMMA OwnCommitMade ==
    ASSUME CInv, NEW t \in Task, AppendEvents(t)
    PROVE  CommitsOf(t)' = {CommitMade(t)}
<1>1. CommitsOf(t) = {}
    BY DEF CInv, Answered, BeforeAppend, AppendEvents
<1>2. commits' = commits \cup {CommitMade(t)} /\ CommitMade(t).call = call[t] /\ call' = call
    BY AppendMakes
<1> QED BY <1>1, <1>2 DEF CommitsOf

(* A new call has a number that no commit bears. *)
LEMMA BeginIsNew ==
    ASSUME CInv, NEW t \in Task, Begin(t)
    PROVE  /\ call'[t] = begun + 1 /\ begun' = begun + 1 /\ begun \in Nat
           /\ call' = [call EXCEPT ![t] = begun + 1]
           /\ commits' = commits
           /\ CommitsOf(t)' = {}
<1>1. PICK r \in Request : BeginWith(t, r)
    BY DEF Begin
<1>2. begun \in Nat /\ call \in [Task -> 0..MaxCalls]
    BY ServiceAssumption DEF CInv, IInv, TypeOK
<1>3. call' = [call EXCEPT ![t] = begun + 1] /\ begun' = begun + 1 /\ commits' = commits
    BY <1>1 DEF BeginWith
<1>4. call'[t] = begun + 1
    BY <1>2, <1>3
<1>5. \A c \in commits : c.call # begun + 1
    BY <1>2 DEF CInv, Numbered
<1> QED BY <1>2, <1>3, <1>4, <1>5 DEF CommitsOf

(* Only Begin numbers a call. *)
LEMMA CallSteps ==
    ASSUME [Next]_vars
    PROVE  \/ UNCHANGED <<call, begun>>
           \/ \E t \in Task : Begin(t)
BY DEF Next, Step, vars, LoadStream, FetchSnapshot, LoadTail, Reject, DecideNothing, Decide,
       AppendEvents, Retry, GiveUp, SaveSnapshot, StoreFails, Cancel, DeleteSnapshot, Finished, ghost

(* Calls stay told apart, and commits keep naming theirs. *)
LEMMA NumberedStep ==
    ASSUME CInv, [Next]_vars
    PROVE  Numbered'
<1>0. TypeOK /\ begun \in Nat /\ call \in [Task -> 0..MaxCalls]
    BY ServiceAssumption DEF CInv, IInv, TypeOK
<1>1. begun' \in Nat /\ begun' >= begun
    BY <1>0, CallSteps, BeginIsNew
<1>2. IsFiniteSet(commits')
    <2>1. CASE commits' = commits
        BY <2>1 DEF CInv, Numbered
    <2>2. ASSUME NEW t \in Task, AppendEvents(t) PROVE IsFiniteSet(commits')
        BY <2>2, AppendMakes, FS_AddElement DEF CInv, Numbered
    <2> QED BY <2>1, <2>2, LogSteps
<1>3. ASSUME NEW t \in Task
      PROVE  call'[t] <= begun' /\ (pc'[t] # "idle" => call'[t] # 0)
    <2>1. CASE Begin(t)
        BY <2>1, BeginIsNew
    <2>2. CASE ~Begin(t)
        <3>1. call'[t] = call[t] /\ begun' >= begun
            <4>1. CASE UNCHANGED <<call, begun>>
                BY <4>1, <1>0
            <4>2. ASSUME NEW u \in Task, Begin(u) PROVE call'[t] = call[t] /\ begun' >= begun
                BY <4>2, <2>2, <1>0, BeginIsNew
            <4> QED BY <4>1, <4>2, CallSteps
        <3>2. pc'[t] # "idle" => pc[t] # "idle"
            <4>1. CASE Step(t) \/ StoreFails(t) \/ Cancel(t)
                BY <4>1 DEF Step, LoadStream, FetchSnapshot, LoadTail, Reject, DecideNothing, Decide,
                            AppendEvents, Retry, LostRace, GiveUp, SaveSnapshot, StoreFails, Cancel
            <4> QED BY <4>1, <2>2, <1>0, TaskSteps DEF Untouched
        <3>3. call[t] \in Nat /\ call[t] <= begun /\ (pc[t] # "idle" => call[t] # 0)
            BY <1>0 DEF CInv, Numbered
        <3> QED BY <3>1, <3>2, <3>3, <1>0, <1>1
    <2> QED BY <2>1, <2>2
<1>4. ASSUME NEW t \in Task, NEW u \in Task, call'[t] = call'[u], call'[t] # 0 PROVE t = u
    <2>1. CASE call' = call
        BY <1>4, <2>1 DEF CInv, Numbered
    <2>2. ASSUME NEW w \in Task, Begin(w) PROVE t = u
        <3>1. call' = [call EXCEPT ![w] = begun + 1]
            BY <2>2, BeginIsNew
        <3>2. call[t] <= begun /\ call[u] <= begun
            BY DEF CInv, Numbered
        <3>3. call[t] # begun + 1 /\ call[u] # begun + 1
            BY <3>2, <1>0
        <3> QED BY <1>0, <1>4, <3>1, <3>3 DEF CInv, Numbered
    <2> QED BY <2>1, <2>2, CallSteps
<1>5. /\ \A c \in commits' : c.call \in 1..begun' /\ c.events # <<>>
      /\ \A c, d \in commits' : c.call = d.call => c = d
    <2>1. CASE commits' = commits
        BY <2>1, <1>0, <1>1 DEF CInv, Numbered
    <2>2. ASSUME NEW t \in Task, AppendEvents(t)
          PROVE  /\ \A c \in commits' : c.call \in 1..begun' /\ c.events # <<>>
                 /\ \A c, d \in commits' : c.call = d.call => c = d
        <3>1. /\ commits' = commits \cup {CommitMade(t)} /\ begun' = begun
              /\ CommitMade(t).call = call[t] /\ call[t] \in 1..begun
              /\ CommitMade(t).events # <<>>
            BY <2>2, AppendMakes
        <3>2. \A c \in commits : c.call # call[t]
            BY <2>2 DEF CInv, Answered, BeforeAppend, AppendEvents, CommitsOf
        <3> QED BY <3>1, <3>2 DEF CInv, Numbered
    <2> QED BY <2>1, <2>2, LogSteps
<1>6. ASSUME NEW t \in Task, NEW c \in CommitsOf(t)'
      PROVE  c.stream = StreamOf(t)' /\ c.command = request'[t].command
    <2>1. CASE AppendEvents(t)
        BY <2>1, <1>6, OwnCommitMade, AppendMakes DEF StreamOf
    <2>2. CASE Begin(t)
        BY <2>2, <1>6, BeginIsNew
    <2>3. CASE ~AppendEvents(t) /\ ~Begin(t)
        <3>1. request'[t] = request[t] /\ call'[t] = call[t]
            <4>1. CASE Step(t) \/ StoreFails(t) \/ Cancel(t)
                BY <4>1, <2>3 DEF Step, LoadStream, FetchSnapshot, LoadTail, Reject, DecideNothing, Decide,
                            Retry, GiveUp, SaveSnapshot, StoreFails, Cancel, local, ghost
            <4> QED BY <4>1, <2>3, <1>0, TaskSteps DEF Untouched
        <3>2. c \in CommitsOf(t)
            BY <1>6, <2>3, <3>1, OwnCommitsStay
        <3> QED BY <3>1, <3>2 DEF CInv, Numbered, StreamOf
    <2> QED BY <2>1, <2>2, <2>3
<1> QED BY <1>2, <1>3, <1>4, <1>5, <1>6 DEF Numbered

(* How replies and labels are set. *)
LEMMA ReplyTyped ==
    ASSUME TypeOK, NEW t \in Task
    PROVE  /\ reply[t] = None => reply[t].tag \notin {"Ok", "Rejected", "Conflict"}
           /\ \A r : (reply' = [reply EXCEPT ![t] = r]) => reply'[t] = r
           /\ \A label : (pc' = [pc EXCEPT ![t] = label]) => pc'[t] = label
BY DEF TypeOK, None, Err

(* What an append answers tells its commit. *)
LEMMA AppendTells ==
    ASSUME CInv, NEW t \in Task, AppendEvents(t)
    PROVE  /\ reply'[t] = Ok(Recorded(log, StreamOf(t), newEvents[t]))
           /\ reply'[t].tag = "Ok"
           /\ reply'[t].events = NumberedFrom(CommitMade(t).stream, CommitMade(t).from,
                                              CommitMade(t).events)
           /\ Payloads(reply'[t].events) = newEvents[t]
           /\ reply'[t].events # <<>>
<1> DEFINE rec == Recorded(log, StreamOf(t), newEvents[t])
<1>1. TypeOK /\ Sound(log) /\ newEvents[t] \in Seq(Payload) /\ newEvents[t] # <<>> /\ StreamOf(t) \in Stream
    BY AppendMakes DEF CInv, IInv, TypeOK
<1>2. rec # <<>> /\ Payloads(rec) = newEvents[t]
    BY <1>1, RecordedTells
<1>3. rec = NumberedFrom(CommitMade(t).stream, CommitMade(t).from, CommitMade(t).events)
    BY AppendMakes DEF Recorded
<1>4. reply' = [reply EXCEPT ![t] = Ok(rec)]
    BY DEF AppendEvents
<1> HIDE DEF rec
<1>5. reply'[t] = Ok(rec)
    BY <1>1, <1>4, ReplyTyped
<1>6. reply'[t].tag = "Ok" /\ reply'[t].events = rec
    BY <1>5 DEF Ok
<1> QED BY <1>2, <1>3, <1>5, <1>6 DEF rec

(* Answers stay true, also while a snapshot is still to be saved. *)
LEMMA AnsweredStep ==
    ASSUME CInv, [Next]_vars, NEW t \in Task
    PROVE  Answered(t)'
<1>0. TypeOK /\ Answered(t)
    BY DEF CInv, IInv
<1>1. commits \subseteq commits'
    BY LogSteps, AppendMakes
(* A step that ends the call, or keeps what it has to say. *)
<1>2. ASSUME CommitsOf(t)' = CommitsOf(t), request'[t] = request[t],
             \/ reply'[t] = reply[t] /\ pc'[t] \in {pc[t], "idle"}
             \/ reply'[t] = reply[t] /\ pc[t] \in BeforeAppend /\ pc'[t] \in BeforeAppend
      PROVE  Answered(t)'
    <2>1. Tells(t) => Tells(t)'
        BY <1>1, <1>2 DEF Tells
    <2> QED BY <1>0, <1>2, <2>1 DEF Answered, BeforeAppend
<1>3. CASE Untouched(t)
    <2>1. ~AppendEvents(t) /\ call'[t] = call[t]
        BY <1>0, <1>3 DEF Untouched, AppendEvents, Goto, TypeOK
    <2> QED BY <2>1, <1>2, <1>3, OwnCommitsStay DEF Untouched
<1>4. CASE Begin(t)
    <2>1. PICK r \in Request : BeginWith(t, r)
        BY <1>4 DEF Begin
    <2>2. reply'[t] = None /\ pc'[t] \in {"load", "fetch"}
        BY <1>0, <2>1 DEF BeginWith, Goto, TypeOK
    <2>3. CommitsOf(t)' = {}
        BY <1>4, BeginIsNew
    <2> QED BY <2>2, <2>3 DEF Answered, BeforeAppend, None, Err
<1>5. CASE LoadStream(t) \/ FetchSnapshot(t) \/ LoadTail(t) \/ Decide(t) \/ Retry(t)
    <2>1. /\ pc[t] \in BeforeAppend /\ pc'[t] \in BeforeAppend /\ call' = call
          /\ request' = request /\ reply' = reply
        BY <1>0, <1>5 DEF LoadStream, FetchSnapshot, LoadTail, Decide, Retry, LostRace, Goto, TypeOK,
                          BeforeAppend, ghost
    <2>2. ~AppendEvents(t)
        <3>1. AppendEvents(t) => pc[t] = "append" /\ pc'[t] \in {"save", "idle"}
            BY <1>0 DEF AppendEvents, Goto, TypeOK
        <3> QED BY <2>1, <3>1 DEF BeforeAppend
    <2> QED BY <2>1, <2>2, <1>2, OwnCommitsStay
<1>6. CASE SaveSnapshot(t)
    <2>1. ~AppendEvents(t) /\ call' = call /\ request' = request /\ reply' = reply /\ pc'[t] = "idle"
        BY <1>0, <1>6 DEF SaveSnapshot, AppendEvents, Goto, TypeOK, local, ghost
    <2> QED BY <2>1, <1>2, OwnCommitsStay
<1>7. CASE Reject(t) \/ DecideNothing(t) \/ GiveUp(t)
    <2>1. /\ pc[t] \in BeforeAppend /\ pc'[t] = "idle" /\ commits' = commits
          /\ UNCHANGED <<call, request>>
          /\ reply'[t] \in {Rejected, Ok(<<>>), Conflict}
        BY <1>0, <1>7 DEF Reject, DecideNothing, GiveUp, LostRace, Return, Goto, TypeOK, BeforeAppend,
                          ghost, local
    <2>2. CommitsOf(t)' = {}
        BY <2>1, <1>0 DEF Answered, CommitsOf
    <2> QED BY <2>1, <2>2 DEF Answered, Tells, BeforeAppend, Rejected, Conflict, Ok, Err
<1>8. CASE StoreFails(t) \/ Cancel(t)
    <2>1. /\ pc[t] # "idle" /\ pc'[t] = "idle" /\ commits' = commits /\ UNCHANGED <<call, request>>
          /\ reply'[t] \in {StoreError, None}
        BY <1>0, <1>8 DEF StoreFails, Cancel, Return, Goto, TypeOK, ghost, local
    <2>2. pc[t] = "save" \/ pc[t] \in BeforeAppend
        BY <2>1, <1>0 DEF TypeOK, BeforeAppend
    <2>3. request[t].mode = "execute" => CommitsOf(t) = {}
        BY <2>2, <1>0 DEF Answered
    <2>4. CommitsOf(t)' = CommitsOf(t)
        BY <2>1 DEF CommitsOf
    <2> QED BY <2>1, <2>3, <2>4 DEF Answered, BeforeAppend, StoreError, None, Err
<1>9. CASE AppendEvents(t)
    <2> DEFINE c == CommitMade(t)
    <2>1. CommitsOf(t)' = {c} /\ c \in commits'
        BY <1>9, OwnCommitMade, AppendMakes
    <2>2. reply'[t].tag = "Ok" /\ reply'[t].events # <<>>
          /\ reply'[t].events = NumberedFrom(c.stream, c.from, c.events)
        BY <1>9, AppendTells
    <2>3. pc'[t] \in {"save", "idle"} /\ request' = request
          /\ (pc'[t] = "save" => request[t].mode = "execute_snapshotting")
        <3>1. request' = request
            BY <1>9 DEF AppendEvents, local
        <3>2. pc'[t] = IF SnapshotDue(t, Recorded(log, StreamOf(t), newEvents[t])) THEN "save" ELSE "idle"
            BY <1>9, <1>0 DEF AppendEvents, Goto, TypeOK
        <3> QED BY <3>1, <3>2 DEF SnapshotDue
    <2> HIDE DEF c
    <2> QED BY <2>1, <2>2, <2>3 DEF Answered, Tells, BeforeAppend
<1> QED BY <1>0, <1>3, <1>4, <1>5, <1>6, <1>7, <1>8, <1>9, TaskSteps DEF Step

-----------------------------------------------------------------------------
(* Rivals. *)

(* Versions never go back. *)
LEMMA VersionGrows ==
    ASSUME TypeOK, Sound(log), [Next]_vars, NEW s \in Stream
    PROVE  /\ CurrentVersion(log, s) \in Nat /\ CurrentVersion(log', s) \in Nat
           /\ CurrentVersion(log, s) <= CurrentVersion(log', s)
<1>1. CurrentVersion(log, s) \in Nat
    BY DEF Sound
<1>2. CASE log' = log
    BY <1>1, <1>2
<1>3. ASSUME NEW t \in Task, AppendEvents(t)
      PROVE  /\ CurrentVersion(log', s) \in Nat
             /\ CurrentVersion(log, s) <= CurrentVersion(log', s)
    <2>1. StreamOf(t) \in Stream /\ newEvents[t] \in Seq(Payload)
        BY DEF TypeOK, StreamOf, Request
    <2>2. log' = Appended(log, StreamOf(t), newEvents[t])
        BY <1>3 DEF AppendEvents
    <2>3. CurrentVersion(log, s) \in 0..CurrentVersion(log, s)
        BY <1>1
    <2>4. CurrentVersion(log, s) <= CurrentVersion(log', s)
        BY <2>1, <2>2, <2>3, PrefixStays, 1 \in Nat \ {0}
    <2>5. CurrentVersion(log', s) \in Nat
        BY <2>1, <2>2, AppendKeepsSound DEF Sound
    <2> QED BY <2>4, <2>5
<1> QED BY <1>1, <1>2, <1>3, LogSteps

(* A commit is not empty and lies within its stream. *)
LEMMA CommitsLie ==
    ASSUME CInv, NEW c \in commits
    PROVE  /\ c \in Commit /\ c.stream \in Stream /\ c.from \in Nat /\ Len(c.events) \in Nat
           /\ c.from < c.from + Len(c.events)
           /\ c.from + Len(c.events) <= CurrentVersion(log, c.stream)
<1>1. c \in Commit /\ c.stream \in Stream /\ c.from \in Nat /\ c.events \in Seq(Payload) /\ c.events # <<>>
    BY DEF CInv, IInv, TypeOK, Commit, Numbered
<1>2. Len(c.events) \in Nat \ {0}
    BY <1>1, EmptySeq, LenProperties
<1>3. c.from + Len(c.events) <= CurrentVersion(log, c.stream)
    BY <1>1, HistoryIs DEF CInv, IInv, Serializable, DecidedIn
<1> QED BY <1>1, <1>2, <1>3

(* Rivals can be counted. *)
LEMMA RivalsFinite ==
    ASSUME CInv, NEW t \in Task
    PROVE  /\ IsFiniteSet(RivalsOf(t)) /\ Cardinality(RivalsOf(t)) \in Nat
           /\ IsFiniteSet(RivalsBefore(t)) /\ Cardinality(RivalsBefore(t)) \in Nat
<1>1. IsFiniteSet(commits)
    BY DEF CInv, Numbered
<1>2. RivalsOf(t) \subseteq commits /\ RivalsBefore(t) \subseteq commits
    BY DEF RivalsOf, RivalsBefore
<1> QED BY <1>1, <1>2, FS_Subset, FS_CardinalityType

(* Nobody takes a rival away. *)
LEMMA RivalsStay ==
    ASSUME CInv, [Next]_vars, NEW t \in Task,
           request'[t] = request[t], since'[t] = since[t], call'[t] = call[t]
    PROVE  /\ Cardinality(RivalsOf(t)) <= Cardinality(RivalsOf(t)')
           /\ Cardinality(RivalsOf(t)') \in Nat
           /\ seen'[t] = seen[t] =>
                Cardinality(RivalsBefore(t)) <= Cardinality(RivalsBefore(t)')
<1>1. commits \subseteq commits' /\ IsFiniteSet(commits')
    BY LogSteps, AppendMakes, NumberedStep DEF Numbered
<1>2. RivalsOf(t) \subseteq RivalsOf(t)' /\ RivalsOf(t)' \subseteq commits'
    BY <1>1 DEF RivalsOf, StreamOf
<1>3. RivalsBefore(t)' \subseteq commits'
    BY <1>2 DEF RivalsBefore
<1>4. seen'[t] = seen[t] => RivalsBefore(t) \subseteq RivalsBefore(t)'
    BY <1>2 DEF RivalsBefore
<1>5. IsFiniteSet(RivalsOf(t)') /\ IsFiniteSet(RivalsBefore(t)')
    BY <1>1, <1>2, <1>3, FS_Subset
<1> QED BY <1>2, <1>4, <1>5, FS_Subset, FS_CardinalityType

(* The commit that follows the state a lost append was decided on is new.  *)
LEMMA LostRaceHasRival ==
    ASSUME CInv, NEW t \in Task, LostRace(t)
    PROVE  attempts[t] + 1 <= Cardinality(RivalsOf(t))
<1> DEFINE s == StreamOf(t)
           cv == CurrentVersion(log, s)
           v == seen[t].version
<1>1. TypeOK /\ Sound(log) /\ LoadsAgree /\ Serializable /\ Answered(t) /\ Witnessed(t)
      /\ pc[t] = "append"
    BY DEF CInv, IInv, LostRace
<1>2. s \in Stream /\ cv \in Nat /\ v \in Nat /\ v <= cv /\ attempts[t] \in Nat /\ since[t] \in Nat
    BY <1>1, ServiceAssumption DEF TypeOK, StreamOf, Request, Rendered, Sound, LoadsAgree, RenderedAt
<1>3. v # cv
    BY <1>2 DEF LostRace, Passes, Expected, NoStream, Exact
<1>4. v + 1 \in 1..cv
    BY <1>2, <1>3
<1>5. PICK c \in commits : Covers(c, s, v + 1)
    BY <1>1, <1>2, <1>4 DEF Serializable
<1>6. /\ c.stream = s /\ c.from < v + 1 /\ v + 1 <= c.from + Len(c.events)
      /\ c.from \in Nat /\ Len(c.events) \in Nat
    BY <1>5, CommitsLie DEF Covers
<1>7. c.from + Len(c.events) <= v \/ c.from >= v
    BY <1>1, <1>6 DEF Witnessed, Boundary
<1>8. c.from = v
    BY <1>2, <1>6, <1>7
<1>9. c.call # call[t]
    BY <1>1, <1>5 DEF Answered, BeforeAppend, CommitsOf
<1>10. c \in RivalsOf(t)
    BY <1>1, <1>2, <1>5, <1>6, <1>8, <1>9 DEF RivalsOf, Witnessed
<1>11. c \notin RivalsBefore(t)
    BY <1>2, <1>8 DEF RivalsBefore
<1>12. RivalsBefore(t) \cup {c} \subseteq RivalsOf(t)
    BY <1>10 DEF RivalsBefore
<1>13. Cardinality(RivalsBefore(t) \cup {c}) = Cardinality(RivalsBefore(t)) + 1
    BY <1>11, RivalsFinite, FS_AddElement
<1>14. Cardinality(RivalsBefore(t) \cup {c}) <= Cardinality(RivalsOf(t))
    BY <1>12, RivalsFinite, FS_Subset
<1>15. attempts[t] <= Cardinality(RivalsBefore(t))
    BY <1>1 DEF Witnessed
<1> QED BY <1>2, <1>13, <1>14, <1>15, RivalsFinite

(* A conflict is answered only after as many rivals as attempts. *)
LEMMA RivalsStep ==
    ASSUME CInv, [Next]_vars
    PROVE  ConflictsHaveRivals'
<1> SUFFICES ASSUME NEW t \in Task
             PROVE  Cardinality(RivalsOf(t)') >= attempts'[t] + (IF reply'[t] = Conflict THEN 1 ELSE 0)
    BY DEF ConflictsHaveRivals
<1> DEFINE blame == attempts[t] + (IF reply[t] = Conflict THEN 1 ELSE 0)
<1>0. /\ TypeOK /\ attempts[t] \in Nat /\ attempts' \in [Task -> Nat]
      /\ Cardinality(RivalsOf(t)) >= blame /\ Cardinality(RivalsOf(t)) \in Nat
    <2>1. TypeOK /\ TypeOK'
        BY TypeStep DEF CInv, IInv
    <2>2. attempts \in [Task -> 0..MaxRetries] /\ attempts' \in [Task -> 0..MaxRetries] /\ MaxRetries \in Nat
        BY <2>1, ServiceAssumption DEF TypeOK
    <2>3. Cardinality(RivalsOf(t)) >= blame /\ Cardinality(RivalsOf(t)) \in Nat
        BY RivalsFinite DEF CInv, ConflictsHaveRivals
    <2> QED BY <2>1, <2>2, <2>3
<1>1. CASE Untouched(t)
    BY <1>0, <1>1, RivalsStay DEF Untouched
<1>2. CASE Begin(t)
    <2>1. PICK r \in Request : BeginWith(t, r)
        BY <1>2 DEF Begin
    <2>2. attempts'[t] = 0 /\ reply'[t] = None
        BY <1>0, <2>1 DEF BeginWith, TypeOK
    <2>3. RivalsOf(t)' \subseteq commits' /\ IsFiniteSet(commits')
        BY NumberedStep DEF RivalsOf, Numbered
    <2>4. Cardinality(RivalsOf(t)') \in Nat
        BY <2>3, FS_Subset, FS_CardinalityType
    <2> QED BY <2>2, <2>4 DEF None, Conflict, Err
<1>3. CASE LostRace(t) /\ (Retry(t) \/ GiveUp(t))
    <2>1. UNCHANGED <<request, since, call>>
        BY <1>3 DEF Retry, GiveUp, local, ghost
    <2>2. reply[t] = None
        BY <1>3 DEF CInv, Answered, BeforeAppend, LostRace
    <2>3. \/ attempts'[t] = attempts[t] + 1 /\ reply'[t] = None
          \/ attempts'[t] = attempts[t] /\ reply'[t] = Conflict
        BY <1>0, <1>3, <2>2 DEF Retry, GiveUp, Return, local, TypeOK
    <2>4. attempts[t] + 1 <= Cardinality(RivalsOf(t))
        BY <1>3, LostRaceHasRival
    <2> QED BY <1>0, <2>1, <2>3, <2>4, RivalsStay DEF None, Conflict, Err
<1>4. CASE LoadStream(t) \/ FetchSnapshot(t) \/ LoadTail(t) \/ Decide(t) \/ SaveSnapshot(t)
    <2>1. UNCHANGED <<request, attempts, reply, since, call>>
        BY <1>4 DEF LoadStream, FetchSnapshot, LoadTail, Decide, SaveSnapshot, local, ghost
    <2> QED BY <1>0, <2>1, RivalsStay
<1>5. CASE Reject(t) \/ DecideNothing(t) \/ StoreFails(t) \/ Cancel(t)
    <2>1. UNCHANGED <<request, attempts, since, call>>
          /\ reply'[t] \in {Rejected, Ok(<<>>), StoreError, None}
        BY <1>0, <1>5 DEF Reject, DecideNothing, StoreFails, Cancel, Return, local, ghost, TypeOK
    <2>2. reply'[t] # Conflict
        BY <2>1 DEF Rejected, Ok, StoreError, None, Conflict, Err
    <2> QED BY <1>0, <2>1, <2>2, RivalsStay
<1>6. CASE AppendEvents(t)
    <2>1. UNCHANGED <<request, attempts, since, call>> /\ reply'[t].tag = "Ok"
        BY <1>6, AppendMakes, AppendTells
    <2>2. reply'[t] # Conflict
        BY <2>1 DEF Conflict, Err
    <2> QED BY <1>0, <2>1, <2>2, RivalsStay
<1> QED BY <1>0, <1>1, <1>2, <1>3, <1>4, <1>5, <1>6, TaskSteps DEF Step, Retry, GiveUp

(* The state a call decides on was current while it ran. *)
LEMMA WitnessedStep ==
    ASSUME CInv, [Next]_vars, NEW t \in Task
    PROVE  Witnessed(t)'
<1> DEFINE s == StreamOf(t)
           cv == CurrentVersion(log, s)
<1>0. /\ TypeOK /\ Sound(log) /\ LoadsAgree /\ Witnessed(t)
      /\ s \in Stream /\ cv \in Nat /\ since[t] \in Nat /\ attempts[t] \in Nat /\ seen[t] \in Rendered
      /\ seen[t].version \in Nat /\ seen[t].version <= cv
    <2>1. TypeOK /\ Sound(log) /\ LoadsAgree /\ Witnessed(t)
        BY DEF CInv, IInv
    <2>2. s \in Stream /\ since[t] \in Nat /\ seen[t] \in Rendered /\ attempts[t] \in 0..MaxRetries
        BY <2>1 DEF TypeOK, StreamOf, Request
    <2>3. cv \in Nat /\ RenderedAt(s, seen[t])
        BY <2>1, <2>2 DEF Sound, LoadsAgree
    <2> QED BY <2>1, <2>2, <2>3, ServiceAssumption DEF Rendered, RenderedAt
<1>1. CASE Begin(t)
    <2>1. PICK r \in Request : BeginWith(t, r)
        BY <1>1 DEF Begin
    <2>2. /\ request'[t] = r /\ since'[t] = CurrentVersion(log, r.stream) /\ log' = log
          /\ pc'[t] \in {"load", "fetch"}
        BY <1>0, <2>1 DEF BeginWith, Goto, TypeOK
    <2>3. CurrentVersion(log, r.stream) \in Nat
        BY <1>0 DEF Sound, Request
    <2> QED BY <2>2, <2>3 DEF Witnessed, StreamOf
<1>2. ASSUME request'[t] = request[t], since'[t] = since[t]
      PROVE  since'[t] <= CurrentVersion(log', StreamOf(t)')
    <2>1. cv <= CurrentVersion(log', s) /\ CurrentVersion(log', s) \in Nat
        BY <1>0, VersionGrows
    <2> QED BY <1>0, <1>2, <2>1 DEF Witnessed, StreamOf
<1>3. CASE Untouched(t)
    <2>1. CASE pc[t] \in {"decide", "append"}
        <3>1. Boundary(s, seen[t].version)'
            <4>1. CASE commits' = commits
                BY <1>0, <1>3, <2>1, <4>1 DEF Witnessed, Boundary, Untouched, StreamOf
            <4>2. ASSUME NEW u \in Task, AppendEvents(u) PROVE Boundary(s, seen[t].version)'
                <5>1. commits' = commits \cup {CommitMade(u)}
                      /\ CommitMade(u).from = CurrentVersion(log, StreamOf(u))
                      /\ CommitMade(u).stream = StreamOf(u)
                    BY <4>2, AppendMakes
                <5> QED BY <1>0, <1>3, <2>1, <5>1 DEF Witnessed, Boundary, Untouched, StreamOf
            <4> QED BY <4>1, <4>2, LogSteps
        <3>2. Cardinality(RivalsBefore(t)) <= Cardinality(RivalsBefore(t)')
            BY <1>3, RivalsStay DEF Untouched
        <3>3. Cardinality(RivalsBefore(t)) \in Nat /\ Cardinality(RivalsBefore(t)') \in Nat
            <4>1. RivalsBefore(t)' \subseteq commits' /\ IsFiniteSet(commits')
                BY NumberedStep DEF RivalsBefore, RivalsOf, Numbered
            <4> QED BY <4>1, RivalsFinite, FS_Subset, FS_CardinalityType
        <3> QED BY <1>0, <1>2, <1>3, <2>1, <3>1, <3>2, <3>3 DEF Untouched, Witnessed
    <2>2. CASE pc[t] \notin {"decide", "append"}
        BY <1>2, <1>3, <2>2 DEF Untouched, Witnessed
    <2> QED BY <2>1, <2>2
<1>4. CASE LoadStream(t) \/ LoadTail(t)
    <2>1. /\ log' = log /\ commits' = commits /\ UNCHANGED <<request, attempts, since, call>>
          /\ seen'[t] \in {Rebuilt(s), Caughtup(seen[t], s)}
        BY <1>0, <1>4 DEF LoadStream, LoadTail, store, ghost, TypeOK
    <2>2. seen'[t].version = cv
        <3>1. Default \in Rendered /\ RenderedAt(s, Default) /\ RenderedAt(s, seen[t])
            BY <1>0, DefaultRendered DEF LoadsAgree
        <3>2. Rebuilt(s) = Caughtup(Default, s)
            BY DEF Rebuilt, Caughtup, Load, Default
        <3> QED BY <1>0, <2>1, <3>1, <3>2, CaughtupIsCurrent
    <2>3. Boundary(s, cv)
        BY CommitsLie DEF Boundary
    <2>4. RivalsBefore(t)' = RivalsOf(t)
        <3>1. RivalsOf(t)' = RivalsOf(t)
            BY <2>1 DEF RivalsOf, StreamOf
        <3>2. \A c \in RivalsOf(t) : c.from < cv
            <4>1. ASSUME NEW c \in RivalsOf(t) PROVE c.from < cv
                <5>1. c \in commits /\ c.stream = s
                    BY DEF RivalsOf
                <5> QED BY <5>1, <1>0, CommitsLie
            <4> QED BY <4>1
        <3> QED BY <2>2, <3>1, <3>2 DEF RivalsBefore
    <2>5. attempts[t] <= Cardinality(RivalsOf(t))
        BY <1>0, RivalsFinite DEF CInv, ConflictsHaveRivals
    <2>6. attempts'[t] <= Cardinality(RivalsBefore(t)')
        BY <2>1, <2>4, <2>5
    <2>7. StreamOf(t)' = s /\ Boundary(s, cv)'
        BY <2>1, <2>3 DEF StreamOf, Boundary
    <2> QED BY <1>0, <2>1, <2>2, <2>6, <2>7 DEF Witnessed
<1>5. CASE Decide(t)
    <2>1. /\ pc[t] = "decide" /\ log' = log /\ commits' = commits
          /\ UNCHANGED <<request, attempts, since, call, seen>>
        BY <1>5 DEF Decide, store, ghost
    <2>2. RivalsBefore(t)' = RivalsBefore(t) /\ Boundary(s, seen[t].version)' = Boundary(s, seen[t].version)
        BY <2>1 DEF RivalsBefore, RivalsOf, StreamOf, Boundary
    <2> QED BY <1>0, <2>1, <2>2 DEF Witnessed, StreamOf, Boundary
<1>6. CASE \/ FetchSnapshot(t) \/ Reject(t) \/ DecideNothing(t) \/ AppendEvents(t) \/ Retry(t)
           \/ GiveUp(t) \/ SaveSnapshot(t) \/ StoreFails(t) \/ Cancel(t)
    <2>1. /\ UNCHANGED <<request, since>>
          /\ pc'[t] \notin {"decide", "append"}
        BY <1>0, <1>6 DEF FetchSnapshot, Reject, DecideNothing, AppendEvents, Retry, GiveUp, SaveSnapshot,
                          StoreFails, Cancel, Return, Goto, local, ghost, TypeOK
    <2> QED BY <1>2, <2>1 DEF Witnessed
<1> QED BY <1>0, <1>1, <1>3, <1>4, <1>5, <1>6, TaskSteps DEF Step

-----------------------------------------------------------------------------
(* The invariants. *)

(* The two halves of the induction. *)
LEMMA InitCInv == Init => CInv
<1> SUFFICES ASSUME Init PROVE CInv
    OBVIOUS
<1>1. IInv
    BY InitIInv
<1>2. /\ commits = {} /\ pc = [t \in Task |-> "idle"] /\ call = [t \in Task |-> 0] /\ begun = 0
      /\ reply = [t \in Task |-> None] /\ attempts = [t \in Task |-> 0] /\ since = [t \in Task |-> 0]
    BY DEF Init
<1>3. \A t \in Task : CommitsOf(t) = {} /\ RivalsOf(t) = {}
    BY <1>2 DEF CommitsOf, RivalsOf
<1>4. IsFiniteSet({}) /\ Cardinality({}) = 0
    BY FS_EmptySet
<1>5. Numbered
    BY <1>2, <1>3, <1>4 DEF Numbered
<1>6. \A t \in Task : Answered(t)
    BY <1>2, <1>3 DEF Answered, BeforeAppend, None, Err
<1>7. ASSUME NEW t \in Task PROVE Witnessed(t)
    <2>1. CurrentVersion(log, StreamOf(t)) \in Nat
        BY <1>1 DEF IInv, TypeOK, Sound, StreamOf, Request
    <2> QED BY <1>2, <2>1 DEF Witnessed
<1>8. ConflictsHaveRivals
    <2>1. None # Conflict
        BY DEF None, Conflict, Err
    <2>2. ASSUME NEW t \in Task
          PROVE  Cardinality(RivalsOf(t)) = 0 /\ attempts[t] = 0 /\ reply[t] # Conflict
        BY <1>2, <1>3, <1>4, <2>1
    <2> QED BY <2>2 DEF ConflictsHaveRivals
<1> QED BY <1>1, <1>5, <1>6, <1>7, <1>8 DEF CInv

LEMMA StepCInv == CInv /\ [Next]_vars => CInv'
<1> SUFFICES ASSUME CInv, [Next]_vars PROVE CInv'
    OBVIOUS
<1>1. IInv'
    BY StepIInv DEF CInv
<1>2. \A t \in Task : Answered(t)' /\ Witnessed(t)'
    BY AnsweredStep, WitnessedStep
<1> QED BY <1>1, <1>2, NumberedStep, RivalsStep DEF CInv

(* In every state calls are told apart by their numbers, each call has its *)
(* one commit or none as its answer will say, and its retries blame        *)
(* commits of others (Service::execute_with_retry and its variants).       *)
THEOREM CommandInvariance == Spec => []CInv
BY InitCInv, StepCInv, PTL DEF Spec

(* A caller can trust the answer: Ok names exactly what was written and    *)
(* where, Rejected and Conflict mean that nothing was.                     *)
THEOREM AnswersTellCommits == Spec => []AnswerTellsCommit
<1>1. CInv => AnswerTellsCommit
    BY DEF CInv, Answered, Tells, AnswerTellsCommit
<1> QED BY <1>1, CommandInvariance, PTL

(* Conflicts are never spurious: every retry of execute_with_retry, and a  *)
(* final Conflict, has a commit of its own that another call made on the   *)
(* stream after this call began.                                           *)
THEOREM ConflictsAreReal == Spec => []ConflictsHaveRivals
<1>1. CInv => ConflictsHaveRivals
    BY DEF CInv
<1> QED BY <1>1, CommandInvariance, PTL

-----------------------------------------------------------------------------
(* Service implements Commands. *)

HistoryBar == [s \in Stream |-> History(log, s)]
OpenBar    == [t \in Task |-> pc[t] # "idle"]
AskedBar   == [t \in Task |-> [stream |-> StreamOf(t), command |-> request[t].command]]
AnswerBar  == [t \in Task |-> [reply[t] EXCEPT !.events = Payloads(@)]]

(* Reading nothing gives nothing. *)
LEMMA PayloadsOfNothing == Payloads(<<>>) = <<>>
<1>1. <<>> \in Seq(StoredEvent)
    BY EmptySeq
<1>2. Payloads(<<>>) \in Seq(Payload) /\ Len(Payloads(<<>>)) = Len(<<>>)
    BY <1>1, PayloadsAre
<1> QED BY <1>2, EmptySeq

(* An answer without events is the same in both. *)
LEMMA PlainAnswer ==
    /\ \A tag : [Err(tag) EXCEPT !.events = Payloads(@)] = Promise!Err(tag)
    /\ [Ok(<<>>) EXCEPT !.events = Payloads(@)] = Promise!Ok(<<>>)
BY PayloadsOfNothing DEF Err, Ok, Promise!Err, Promise!Ok

(* Initial states map to initial states. *)
LEMMA InitMaps == Init => Promise!Init
<1> SUFFICES ASSUME Init PROVE Promise!Init
    OBVIOUS
<1>1. TypeOK
    BY TypeInit
<1>2. HistoryBar = [s \in Stream |-> <<>>]
    BY EmptyLog DEF Init, HistoryBar
<1>3. OpenBar = [t \in Task |-> FALSE]
    BY DEF Init, OpenBar
<1>4. AskedBar \in [Task -> [stream : Stream, command : Command]]
    BY <1>1 DEF AskedBar, TypeOK, StreamOf, Request
<1>5. AnswerBar = [t \in Task |-> Promise!Err("None")]
    BY PlainAnswer DEF Init, AnswerBar, None
<1>6. since = [t \in Task |-> 0]
    BY DEF Init
<1> QED BY <1>2, <1>3, <1>4, <1>5, <1>6 DEF Promise!Init, HistoryBar, OpenBar, AskedBar, AnswerBar

Bars == <<HistoryBar, OpenBar, AskedBar, since, AnswerBar>>

(* A call before its append is an open one without an answer. *)
LEMMA UndecidedBar ==
    ASSUME CInv, NEW t \in Task, pc[t] \in BeforeAppend
    PROVE  OpenBar[t] /\ AnswerBar[t] = Promise!Err("None")
<1>1. reply[t] = None /\ pc[t] # "idle"
    BY DEF CInv, Answered, BeforeAppend
<1> QED BY <1>1, PlainAnswer DEF OpenBar, AnswerBar, None

(* What Commands calls the history of a call's stream is the log's. *)
LEMMA HistoryBarIs ==
    ASSUME CInv, NEW t \in Task
    PROVE  /\ HistoryBar[AskedBar[t].stream] = History(log, StreamOf(t))
           /\ AskedBar[t].stream = StreamOf(t) /\ AskedBar[t].command = request[t].command
           /\ StreamOf(t) \in Stream
           /\ Len(History(log, StreamOf(t))) = CurrentVersion(log, StreamOf(t))
           /\ CurrentVersion(log, StreamOf(t)) \in Nat /\ since[t] \in Nat
<1>1. StreamOf(t) \in Stream /\ since[t] \in Nat /\ Sound(log)
    BY DEF CInv, IInv, TypeOK, StreamOf, Request
<1>2. AskedBar[t].stream = StreamOf(t) /\ AskedBar[t].command = request[t].command
    BY DEF AskedBar
<1> QED BY <1>1, <1>2, HistoryIs DEF HistoryBar, Sound

(* Returning without a write closes the call. *)
LEMMA ReturnMaps ==
    ASSUME CInv, NEW t \in Task, NEW result, Return(t, result),
           UNCHANGED <<store, local, ghost, commits>>
    PROVE  /\ UNCHANGED <<HistoryBar, AskedBar, since>>
           /\ OpenBar' = [OpenBar EXCEPT ![t] = FALSE]
           /\ AnswerBar' = [AnswerBar EXCEPT ![t] = [result EXCEPT !.events = Payloads(@)]]
<1>1. pc \in [Task -> {"idle", "load", "fetch", "tail", "decide", "append", "save"}]
      /\ DOMAIN reply = Task /\ reply = [u \in Task |-> reply[u]]
    BY DEF CInv, IInv, TypeOK
<1>2. pc' = [pc EXCEPT ![t] = "idle"] /\ reply' = [reply EXCEPT ![t] = result]
    BY DEF Return, Goto
<1>3. log' = log /\ request' = request /\ since' = since
    BY DEF store, local, ghost
<1>4. UNCHANGED <<HistoryBar, AskedBar>>
    BY <1>3 DEF HistoryBar, AskedBar, StreamOf
<1>5. OpenBar' = [OpenBar EXCEPT ![t] = FALSE]
    BY <1>1, <1>2 DEF OpenBar
<1>6. AnswerBar' = [AnswerBar EXCEPT ![t] = [result EXCEPT !.events = Payloads(@)]]
    BY <1>1, <1>2 DEF AnswerBar
<1> QED BY <1>3, <1>4, <1>5, <1>6

(* A call that begins does so in Commands. *)
LEMMA BeginMaps ==
    ASSUME CInv, NEW t \in Task, Begin(t)
    PROVE  Promise!Begin(t)
<1>1. PICK r \in Request : BeginWith(t, r)
    BY DEF Begin
<1>2. r.stream \in Stream /\ r.command \in Command
    BY DEF Request
<1>3. TypeOK /\ Sound(log)
    BY DEF CInv, IInv
<1>4. /\ pc[t] = "idle" /\ log' = log
      /\ request' = [request EXCEPT ![t] = r]
      /\ since' = [since EXCEPT ![t] = CurrentVersion(log, r.stream)]
      /\ reply' = [reply EXCEPT ![t] = None]
    BY <1>1 DEF BeginWith
<1>5. PICK label \in {"load", "fetch"} : pc' = [pc EXCEPT ![t] = label]
    BY <1>1 DEF BeginWith, Goto
<1>6. Len(HistoryBar[r.stream]) = CurrentVersion(log, r.stream)
    BY <1>2, <1>3, HistoryIs DEF HistoryBar
<1>7. HistoryBar' = HistoryBar
    BY <1>4 DEF HistoryBar
<1>8. ~OpenBar[t] /\ OpenBar' = [OpenBar EXCEPT ![t] = TRUE]
    BY <1>3, <1>4, <1>5 DEF OpenBar, TypeOK
<1>9. AskedBar' = [AskedBar EXCEPT ![t] = [stream |-> r.stream, command |-> r.command]]
    BY <1>3, <1>4 DEF AskedBar, StreamOf, TypeOK
<1>10. AnswerBar' = [AnswerBar EXCEPT ![t] = Promise!Err("None")]
    <2>1. AnswerBar' = [AnswerBar EXCEPT ![t] = [None EXCEPT !.events = Payloads(@)]]
        BY <1>3, <1>4 DEF AnswerBar, TypeOK
    <2> QED BY <2>1, PlainAnswer DEF None
<1> QED BY <1>2, <1>4, <1>6, <1>7, <1>8, <1>9, <1>10
        DEF Promise!Begin, HistoryBar, OpenBar, AskedBar, AnswerBar

(* A call that writes nothing decided on the history as it was at seen's   *)
(* version, which the call lived to see.                                   *)
LEMMA DeclineMaps ==
    ASSUME CInv, NEW t \in Task, Reject(t) \/ DecideNothing(t)
    PROVE  Promise!Decline(t)
<1>1. PICK d \in {Rejected, Ok(<<>>)} : d \in Decisions(t) /\ Return(t, d)
    BY DEF Reject, DecideNothing
<1>2. pc[t] = "decide" /\ UNCHANGED <<store, local, ghost, commits>>
    BY DEF Reject, DecideNothing
<1>3. d \in {Promise!Err("Rejected"), Promise!Ok(<<>>)}
      /\ [d EXCEPT !.events = Payloads(@)] = d
    BY <1>1, PlainAnswer DEF Rejected, Err, Ok, Promise!Err, Promise!Ok
<1>4. OpenBar[t] /\ AnswerBar[t] = Promise!Err("None")
    BY <1>2, UndecidedBar DEF BeforeAppend
<1>5. Promise!Close(t, d)
    <2>1. /\ UNCHANGED <<HistoryBar, AskedBar, since>>
          /\ OpenBar' = [OpenBar EXCEPT ![t] = FALSE]
          /\ AnswerBar' = [AnswerBar EXCEPT ![t] = d]
        BY <1>1, <1>2, <1>3, ReturnMaps
    <2> QED BY <2>1 DEF Promise!Close, HistoryBar, OpenBar, AskedBar, AnswerBar
<1>6. d \in Handle(AskedBar[t].command, SubSeq(HistoryBar[AskedBar[t].stream], 1, seen[t].version))
    <2>1. d \in Handle(request[t].command, seen[t].state)
        BY <1>1 DEF Decisions
    <2>2. seen[t].state = SubSeq(History(log, StreamOf(t)), 1, seen[t].version)
        BY DEF CInv, IInv, LoadsAgree, RenderedAt, PrefixAt
    <2> QED BY <2>1, <2>2, HistoryBarIs
<1>7. seen[t].version \in since[t]..Len(HistoryBar[AskedBar[t].stream])
    <2>1. seen[t].version \in Nat
        BY DEF CInv, IInv, TypeOK, Rendered
    <2>2. since[t] <= seen[t].version /\ seen[t].version <= CurrentVersion(log, StreamOf(t))
        BY <1>2 DEF CInv, Witnessed, IInv, LoadsAgree, RenderedAt
    <2> QED BY <2>1, <2>2, HistoryBarIs
<1> QED BY <1>3, <1>4, <1>5, <1>6, <1>7
        DEF Promise!Decline, Promise!Undecided, Promise!HistoryOf, HistoryBar, OpenBar, AskedBar, AnswerBar

(* Giving up after the last retry is Commands' conflict. *)
LEMMA ConflictMaps ==
    ASSUME CInv, NEW t \in Task, GiveUp(t)
    PROVE  Promise!Conflict(t)
<1>1. LostRace(t) /\ pc[t] = "append" /\ Return(t, Conflict) /\ UNCHANGED <<store, local, ghost, commits>>
    BY DEF GiveUp, LostRace
<1>2. OpenBar[t] /\ AnswerBar[t] = Promise!Err("None")
    BY <1>1, UndecidedBar DEF BeforeAppend
<1>3. Promise!Close(t, Promise!Err("Conflict"))
    <2>1. /\ UNCHANGED <<HistoryBar, AskedBar, since>>
          /\ OpenBar' = [OpenBar EXCEPT ![t] = FALSE]
          /\ AnswerBar' = [AnswerBar EXCEPT ![t] = Promise!Err("Conflict")]
        BY <1>1, PlainAnswer, ReturnMaps DEF Conflict
    <2> QED BY <2>1 DEF Promise!Close, HistoryBar, OpenBar, AskedBar, AnswerBar
<1>4. Len(HistoryBar[AskedBar[t].stream]) > since[t]
    <2> DEFINE cv == CurrentVersion(log, StreamOf(t))
    <2>1. seen[t].version \in Nat
        BY DEF CInv, IInv, TypeOK, Rendered
    <2>2. since[t] <= seen[t].version /\ seen[t].version <= cv
        BY <1>1 DEF CInv, Witnessed, IInv, LoadsAgree, RenderedAt
    <2>3. seen[t].version # cv
        BY <1>1, <2>1 DEF LostRace, Passes, Expected, NoStream, Exact
    <2> QED BY <2>1, <2>2, <2>3, HistoryBarIs
<1> QED BY <1>2, <1>3, <1>4
        DEF Promise!Conflict, Promise!Undecided, Promise!HistoryOf, HistoryBar, OpenBar, AskedBar, AnswerBar

(* A store error or a dropped future is an abort. *)
LEMMA AbortMaps ==
    ASSUME CInv, NEW t \in Task, StoreFails(t) \/ Cancel(t)
    PROVE  Promise!Abort(t)
<1>1. pc[t] # "idle" /\ UNCHANGED <<store, local, ghost, commits>>
    BY DEF StoreFails, Cancel
<1>2. PICK tag \in {"StoreError", "None"} : Return(t, Err(tag))
    BY DEF StoreFails, Cancel, StoreError, None
<1>3. /\ UNCHANGED <<HistoryBar, AskedBar, since>>
      /\ OpenBar' = [OpenBar EXCEPT ![t] = FALSE]
      /\ AnswerBar' = [AnswerBar EXCEPT ![t] = Promise!Err(tag)]
    BY <1>1, <1>2, PlainAnswer, ReturnMaps
<1>4. OpenBar[t]
    BY <1>1 DEF OpenBar
<1> QED BY <1>3, <1>4 DEF Promise!Abort, Promise!Close, HistoryBar, OpenBar, AskedBar, AnswerBar

(* The append takes effect on the whole history, which is what the         *)
(* decision was made on.                                                   *)
LEMMA CommitMaps ==
    ASSUME CInv, NEW t \in Task, AppendEvents(t)
    PROVE  Promise!Commit(t)
<1> DEFINE s == StreamOf(t)
           evs == newEvents[t]
           d == Ok(evs)
<1>1. TypeOK /\ Sound(log) /\ LoadsAgree /\ Pending(t) /\ pc[t] = "append"
    BY DEF CInv, IInv, AppendEvents
<1>2. s \in Stream /\ evs \in Seq(Payload) /\ evs # <<>>
    BY <1>1, AppendMakes DEF TypeOK
<1>3. OpenBar[t] /\ AnswerBar[t] = Promise!Err("None")
    BY <1>1, UndecidedBar DEF BeforeAppend
<1>4. d \in Handle(AskedBar[t].command, HistoryBar[AskedBar[t].stream])
    <2>1. d \in Handle(request[t].command, seen[t].state)
        BY <1>1 DEF Pending
    <2>2. seen[t].version = CurrentVersion(log, s) /\ RenderedAt(s, seen[t])
        BY <1>1, ExpectedIsCurrent DEF AppendEvents, LoadsAgree
    <2>3. History(log, s) \in Seq(Payload) /\ Len(History(log, s)) = CurrentVersion(log, s)
        BY <1>1, <1>2, HistoryIs
    <2>4. seen[t].state = History(log, s)
        BY <2>2, <2>3, SubSeqFull DEF RenderedAt, PrefixAt
    <2> QED BY <2>1, <2>4, HistoryBarIs
<1>5. d.tag = "Ok" /\ d.events = evs
    BY DEF Ok
<1>6. HistoryBar' = [HistoryBar EXCEPT ![s] = @ \o evs]
    <2>1. log' = Appended(log, s, evs)
        BY DEF AppendEvents
    <2>2. History(log', s) = History(log, s) \o evs
        BY <1>1, <1>2, <2>1, AppendExtendsHistory
    <2>3. \A u \in Stream : u # s => History(log', u) = History(log, u)
        BY <1>1, <1>2, <2>1, AppendKeepsOtherHistories
    <2> HIDE DEF s, evs
    <2> QED BY <1>2, <2>2, <2>3 DEF HistoryBar
<1>7. AnswerBar' = [AnswerBar EXCEPT ![t] = d]
    <2> DEFINE rec == Recorded(log, s, evs)
    <2>1. reply' = [reply EXCEPT ![t] = Ok(rec)]
        BY DEF AppendEvents
    <2>2. Payloads(rec) = evs
        BY <1>1, <1>2, RecordedTells
    <2> HIDE DEF rec, evs
    <2>3. [Ok(rec) EXCEPT !.events = Payloads(@)] = Ok(evs)
        BY <2>2 DEF Ok
    <2>4. AnswerBar' = [AnswerBar EXCEPT ![t] = [Ok(rec) EXCEPT !.events = Payloads(@)]]
        BY <1>1, <2>1 DEF AnswerBar, TypeOK
    <2> QED BY <2>3, <2>4
<1>8. OpenBar' \in {OpenBar, [OpenBar EXCEPT ![t] = FALSE]}
    <2>1. PICK label \in {"save", "idle"} : pc' = [pc EXCEPT ![t] = label]
        BY DEF AppendEvents, Goto
    <2>2. CASE label = "idle"
        <3>1. OpenBar' = [OpenBar EXCEPT ![t] = FALSE]
            BY <1>1, <2>1, <2>2 DEF OpenBar, TypeOK
        <3> QED BY <3>1
    <2>3. CASE label = "save"
        <3>1. OpenBar' = OpenBar
            BY <1>1, <2>1, <2>3 DEF OpenBar, TypeOK
        <3> QED BY <3>1
    <2> QED BY <2>1, <2>2, <2>3
<1>9. AskedBar' = AskedBar /\ since' = since
    BY AppendMakes DEF AskedBar, StreamOf
<1>10. AskedBar[t].stream = s
    BY HistoryBarIs
<1> HIDE DEF s, evs, d
<1> QED BY <1>2, <1>3, <1>4, <1>5, <1>6, <1>7, <1>8, <1>9, <1>10
        DEF Promise!Commit, Promise!Undecided, Promise!HistoryOf, HistoryBar, OpenBar, AskedBar, AnswerBar

(* Saving the snapshot is where a snapshotting call returns. *)
LEMMA SaveMaps ==
    ASSUME CInv, NEW t \in Task, SaveSnapshot(t)
    PROVE  Promise!Return(t)
<1>1. pc[t] = "save" /\ log' = log /\ UNCHANGED <<local, reply, ghost>> /\ pc' = [pc EXCEPT ![t] = "idle"]
    BY DEF SaveSnapshot, Goto
<1>2. TypeOK /\ reply[t].tag = "Ok"
    BY <1>1 DEF CInv, IInv, Answered
<1>3. UNCHANGED <<HistoryBar, AskedBar, since, AnswerBar>>
    BY <1>1 DEF HistoryBar, AskedBar, AnswerBar, StreamOf, local, ghost
<1>4. OpenBar[t] /\ OpenBar' = [OpenBar EXCEPT ![t] = FALSE]
    BY <1>1, <1>2 DEF OpenBar, TypeOK
<1>5. AnswerBar[t] # Promise!Err("None")
    <2>1. reply[t] \in [tag : {"Ok"}, events : Seq(StoredEvent)]
        BY <1>2 DEF TypeOK, Rejected, Conflict, StoreError, None, Err
    <2>2. PICK r \in [tag : {"Ok"}, events : Seq(StoredEvent)] : r = reply[t]
        BY <2>1
    <2>3. [r EXCEPT !.events = Payloads(@)].tag = "Ok"
        OBVIOUS
    <2>4. AnswerBar[t] = [r EXCEPT !.events = Payloads(@)]
        BY <2>2 DEF AnswerBar
    <2> QED BY <2>3, <2>4 DEF Promise!Err
<1>6. AnswerBar' = [AnswerBar EXCEPT ![t] = AnswerBar[t]]
    BY <1>3 DEF AnswerBar
<1> QED BY <1>3, <1>4, <1>5, <1>6
        DEF Promise!Return, Promise!Close, HistoryBar, OpenBar, AskedBar, AnswerBar

(* Loads, decisions, retries and deleted snapshots do not show. *)
LEMMA QuietSteps ==
    ASSUME CInv, NEW t \in Task,
           LoadStream(t) \/ FetchSnapshot(t) \/ LoadTail(t) \/ Decide(t) \/ Retry(t)
    PROVE  UNCHANGED Bars
<1>1. /\ log' = log /\ request' = request /\ reply' = reply /\ since' = since
      /\ pc[t] # "idle"
      /\ \E label \in BeforeAppend : pc' = [pc EXCEPT ![t] = label]
    BY DEF LoadStream, FetchSnapshot, LoadTail, Decide, Retry, LostRace, Goto, store, ghost, BeforeAppend
<1>2. OpenBar' = OpenBar
    BY <1>1 DEF OpenBar, CInv, IInv, TypeOK, BeforeAppend
<1> QED BY <1>1, <1>2 DEF Bars, HistoryBar, AskedBar, AnswerBar, StreamOf

(* Every step maps to a step or a stutter. *)
LEMMA StepMaps == CInv /\ [Next]_vars => [Promise!Next]_(Promise!vars)
<1> SUFFICES ASSUME CInv, [Next]_vars PROVE [Promise!Next]_(Promise!vars)
    OBVIOUS
<1>1. UNCHANGED Bars => UNCHANGED Promise!vars
    BY DEF Promise!vars, Bars, HistoryBar, OpenBar, AskedBar, AnswerBar
<1>2. ASSUME NEW t \in Task,
             \/ Promise!Begin(t) \/ Promise!Commit(t) \/ Promise!Return(t)
             \/ Promise!Decline(t) \/ Promise!Conflict(t) \/ Promise!Abort(t)
      PROVE  Promise!Next
    BY <1>2 DEF Promise!Next
<1>3. ASSUME NEW t \in Task, Begin(t) \/ Step(t) \/ StoreFails(t) \/ Cancel(t)
      PROVE  [Promise!Next]_(Promise!vars)
    BY <1>1, <1>2, <1>3, BeginMaps, CommitMaps, SaveMaps, DeclineMaps, ConflictMaps, AbortMaps, QuietSteps
       DEF Step
<1>4. CASE UNCHANGED vars \/ \E s \in Stream : DeleteSnapshot(s)
    BY <1>1, <1>4 DEF vars, DeleteSnapshot, Bars, HistoryBar, OpenBar, AskedBar, AnswerBar, StreamOf,
                      local, ghost
<1> QED BY <1>3, <1>4 DEF Next, Finished

(* Every call of Service takes effect at one instant, on the whole history *)
(* of its stream, or looked at one instant of its own and wrote nothing:   *)
(* versions, loads, snapshots and retries cannot be told from outside.     *)
THEOREM ServiceImplementsCommands == Spec => ImplementsCommands
BY InitMaps, StepMaps, CommandInvariance, PTL DEF Spec, ImplementsCommands, Promise!Spec

-----------------------------------------------------------------------------
(* Behind a Restate object. *)

(* A closure's request is one of those Service is about. *)
LEMMA AttemptIsBegin ==
    ASSUME NEW i \in Invocation, Attempt(i)
    PROVE  \E t \in Task : Begin(t)
<1>1. [stream |-> i.key, command |-> i.command, mode |-> "execute"] \in Request
    BY RestateObjectAssumption DEF Request
<1> QED BY <1>1 DEF Attempt, Begin

(* So is that of an in-process caller. *)
LEMMA LocalCallIsBegin ==
    ASSUME NEW t \in Task, LocalCall(t)
    PROVE  Begin(t)
BY RestateObjectAssumption DEF LocalCall, Begin

(* What Restate does apart from calling the service leaves it alone. *)
LEMMA RestateLeavesService ==
    ASSUME NEW i \in Invocation,
           JournalRun(i) \/ Redo(i) \/ ReadState(i) \/ AttemptLost(i)
    PROVE  UNCHANGED vars
BY DEF JournalRun, Redo, ReadState, AttemptLost

(* A step of the object is one of Service, or none. *)
LEMMA ObjectStep == [ObjectNext]_objectVars => [Next]_vars
<1> SUFFICES ASSUME [ObjectNext]_objectVars PROVE [Next]_vars
    OBVIOUS
<1>1. ASSUME NEW i \in Invocation, Durable(i) \/ AttemptLost(i)
      PROVE  [Next]_vars
    <2>1. CASE Attempt(i)
        BY <2>1, AttemptIsBegin DEF Next
    <2>2. CASE JournalRun(i) \/ Redo(i) \/ ReadState(i) \/ AttemptLost(i)
        BY <2>2, RestateLeavesService
    <2> QED BY <1>1, <2>1, <2>2 DEF Durable
<1>2. ASSUME NEW t \in Task, LocalCall(t) \/ ServiceStep(t) \/ Fails(t)
      PROVE  [Next]_vars
    <2>1. CASE LocalCall(t)
        BY <2>1, LocalCallIsBegin DEF Next
    <2>2. CASE ServiceStep(t) \/ Fails(t)
        BY <2>2 DEF ServiceStep, Fails, Next
    <2> QED BY <1>2, <2>1, <2>2
<1>3. ASSUME NEW s \in Stream, SnapshotDeleted(s)
      PROVE  [Next]_vars
    BY <1>3 DEF SnapshotDeleted, Next
<1>4. CASE ObjectFinished \/ UNCHANGED objectVars
    BY <1>4 DEF ObjectFinished, objectVars
<1> QED BY <1>1, <1>2, <1>3, <1>4 DEF ObjectNext

(* Every behaviour of an object and its in-process callers is, for the     *)
(* store, a behaviour of Service.                                          *)
THEOREM ObjectImplementsService == ObjectSpec => Spec
<1>1. ObjectInit => Init
    BY DEF ObjectInit
<1> QED BY <1>1, ObjectStep, PTL DEF ObjectSpec, Spec

(* An object's commands are serializable among themselves and with those   *)
(* of in-process callers, also when closures run again: each batch in the  *)
(* log was decided on exactly the events before it.                        *)
THEOREM ObjectSerializable == ObjectSpec => []Serializable
BY ObjectImplementsService, CommandsSerializable, PTL

(* For the callers of its methods, and those in process, an object is the  *)
(* service that Commands describes: each run of a closure takes effect at  *)
(* one instant, or tells why it did not.                                   *)
THEOREM ObjectImplementsCommands == ObjectSpec => ImplementsCommands
BY ObjectImplementsService, ServiceImplementsCommands, PTL

-----------------------------------------------------------------------------
(* The inductive invariant of an object.  AppendsBounded is not inductive: *)
(* it holds because each call of an invocation is the one its open closure *)
(* waits for, the one it has journaled, or one that a lost attempt made.   *)

WriteEntry == [tag : {"Ok"}, events : Seq(StoredEvent)] \cup {Rejected}
ReadEntry  == [tag : {"Read"}, seen : Rendered]

(* The journals there can be: of one write, or a write that went well and  *)
(* a read, or one read.                                                    *)
Journaled(i) ==
    \/ journal[i] = <<>>
    \/ i.handler # "get" /\ \E w \in WriteEntry : journal[i] = <<w>>
    \/ /\ i.handler = "apply"
       /\ \E w \in WriteEntry, r \in ReadEntry : w.tag = "Ok" /\ journal[i] = <<w, r>>
    \/ i.handler = "get" /\ \E r \in ReadEntry : journal[i] = <<r>>

RequestOf(i) == [stream |-> i.key, command |-> i.command, mode |-> "execute"]

(* Whose a call is. *)
Owned(i) ==
    /\ worker[i] # NoTask =>
          journal[i] = <<>> /\ i.handler # "get" /\ call[worker[i]] \in made[i]
    /\ \A j \in Invocation : j # i => worker[i] # worker[j] \/ worker[i] = NoTask
    /\ \A j \in Invocation : j # i => made[i] \cap made[j] = {}
    /\ \A t \in Task : call[t] \in made[i] => request[t] = RequestOf(i)
    /\ \A c \in CommitsFor(i) : c.stream = i.key /\ c.command = i.command

Wrote(i) == journal[i] # <<>> /\ i.handler # "get" /\ journal[i][1].events # <<>>

(* Every commit of an invocation, and every call of it under way, is that  *)
(* of the open closure, or the journaled one, or belongs to a lost attempt. *)
AccountedBy(i, gone, own) ==
    /\ IsFiniteSet(gone) /\ Cardinality(gone) <= lost[i]
    /\ \A c \in CommitsFor(i) : c.call \in gone \cup {own}
    /\ \A t \in Task : pc[t] # "idle" /\ call[t] \in made[i] =>
          call[t] \in gone \/ worker[i] = t
    /\ worker[i] # NoTask => own = call[worker[i]]
    /\ worker[i] = NoTask /\ ~Wrote(i) => own = 0

Accounted(i) == \E gone \in SUBSET made[i], own \in 0..MaxCalls : AccountedBy(i, gone, own)

(* What is journaled as written is there. *)
Kept(i) ==
    Wrote(i) => \E c \in CommitsFor(i) :
                    journal[i][1].events = NumberedFrom(c.stream, c.from, c.events)

(* What was read is the state at a version, not before what was written. *)
ReadsKept(i) ==
    \A k \in DOMAIN journal[i] : journal[i][k].tag = "Read" =>
        /\ RenderedAt(i.key, journal[i][k].seen)
        /\ i.handler # "get" =>
              \A n \in DOMAIN journal[i][1].events :
                 journal[i][1].events[n].version <= journal[i][k].seen.version

Underway(i) == made[i] # {} /\ ~Done(i)

(* Handlers of one key exclude each other, so that an open closure began   *)
(* after everything the others know that they wrote.                       *)
Excluded(i) ==
    \A j \in Invocation \ {i} :
        /\ i.key = j.key /\ Exclusive(i) /\ Exclusive(j) => ~(Underway(i) /\ Underway(j))
        /\ worker[i] # NoTask =>
              \A c \in CommitsFor(j) :
                 c.stream = i.key /\ ~LeftBehind(j, c) => c.from < since[worker[i]]

ObjectTyped ==
    /\ journal = [i \in Invocation |-> journal[i]]
    /\ worker \in [Invocation -> Task \cup {NoTask}]
    /\ lost \in [Invocation -> Nat]
    /\ made \in [Invocation -> SUBSET (1..begun)]
    /\ faults \in 0..MaxFaults
    /\ \A i \in Invocation : lost[i] <= faults

OInv ==
    /\ CInv
    /\ ObjectTyped
    /\ \A i \in Invocation :
          Journaled(i) /\ Owned(i) /\ Accounted(i) /\ Kept(i) /\ ReadsKept(i) /\ Excluded(i)


-----------------------------------------------------------------------------
(* The journal. *)

(* The closures of the handlers. *)
LEMMA RunsIs ==
    ASSUME NEW i \in Invocation
    PROVE  \/ i.handler = "submit" /\ Runs(i) = <<"write">>
           \/ i.handler = "apply" /\ Runs(i) = <<"write", "read">>
           \/ i.handler = "get" /\ Runs(i) = <<"read">>
BY RestateObjectAssumption DEF Runs

(* What the journal's entries are told apart by. *)
LEMMA EntryIs ==
    /\ \A w \in WriteEntry : w.tag \in {"Ok", "Rejected"} /\ (w.tag = "Rejected" <=> w = Rejected)
    /\ \A r \in ReadEntry : r.tag = "Read" /\ r.seen \in Rendered /\ r # Rejected
BY DEF WriteEntry, ReadEntry, Rejected, Err

(* A handler comes to its write first, and to a read after a write that    *)
(* was not rejected.                                                       *)
LEMMA ComesToWrite ==
    ASSUME NEW i \in Invocation, Journaled(i), ComesTo(i, "write")
    PROVE  journal[i] = <<>> /\ i.handler # "get"
<1>1. ~Done(i) /\ Runs(i)[Len(journal[i]) + 1] = "write"
    BY DEF ComesTo
<1>2. CASE journal[i] = <<>>
    BY <1>1, <1>2, RunsIs
<1>3. CASE \E w : i.handler # "get" /\ journal[i] = <<w>>
    BY <1>1, <1>3, RunsIs DEF Done
<1>4. CASE i.handler = "apply" /\ \E w, r : journal[i] = <<w, r>>
    BY <1>1, <1>4, RunsIs DEF Done
<1>5. CASE i.handler = "get" /\ \E r : journal[i] = <<r>>
    BY <1>1, <1>5, RunsIs DEF Done
<1> QED BY <1>2, <1>3, <1>4, <1>5 DEF Journaled

(* A read is first in its handler or comes after a write that went well. *)
LEMMA ComesToRead ==
    ASSUME NEW i \in Invocation, Journaled(i), ComesTo(i, "read")
    PROVE  \/ i.handler = "get" /\ journal[i] = <<>>
           \/ /\ i.handler = "apply"
              /\ \E w \in WriteEntry : w.tag = "Ok" /\ journal[i] = <<w>>
<1>1. ~Done(i) /\ Runs(i)[Len(journal[i]) + 1] = "read"
    BY DEF ComesTo
<1>2. CASE journal[i] = <<>>
    BY <1>1, <1>2, RunsIs
<1>3. ASSUME NEW w \in WriteEntry, i.handler # "get", journal[i] = <<w>>
      PROVE  i.handler = "apply" /\ w.tag = "Ok"
    <2>1. i.handler = "apply"
        BY <1>1, <1>3, RunsIs DEF Done
    <2>2. w # Rejected
        BY <1>1, <1>3 DEF Done, IsTerminal
    <2> QED BY <2>1, <2>2, EntryIs
<1>4. CASE i.handler = "apply" /\ \E w, r : journal[i] = <<w, r>>
    BY <1>1, <1>4, RunsIs DEF Done
<1>5. CASE i.handler = "get" /\ \E r : journal[i] = <<r>>
    BY <1>1, <1>5, RunsIs DEF Done
<1> QED BY <1>2, <1>3, <1>4, <1>5 DEF Journaled

(* A handler that has ended has journaled something. *)
LEMMA DoneIs ==
    ASSUME NEW i \in Invocation, Done(i)
    PROVE  journal[i] # <<>>
BY RunsIs DEF Done

-----------------------------------------------------------------------------
(* The steps, as far as an object's state is concerned. *)

(* A step of the service that begins no call. *)
ServiceRuns ==
    /\ UNCHANGED <<journals, call, since, request, begun>>
    /\ faults' \in {faults, faults + 1}
    /\ faults' \in Nat /\ faults' <= MaxFaults
    /\ \A t \in Task : pc'[t] # "idle" => pc[t] # "idle"
    /\ \/ commits' = commits
       \/ \E t \in Task : AppendEvents(t)

(* One that begins a call, of an invocation or another. *)
CallBegins(t, r) ==
    /\ ~IsWorker(t) /\ pc[t] = "idle"
    /\ UNCHANGED <<log, commits, journal, lost, faults>>
    /\ begun' = begun + 1
    /\ call' = [call EXCEPT ![t] = begun + 1]
    /\ request' = [request EXCEPT ![t] = r]
    /\ since' = [since EXCEPT ![t] = CurrentVersion(log, r.stream)]
    /\ \A u \in Task : u # t => pc'[u] = pc[u]

(* How a call begins ... *)
LEMMA BeginWithBegins ==
    ASSUME TypeOK, NEW t \in Task, NEW r, BeginWith(t, r), ~IsWorker(t),
           UNCHANGED <<journal, lost, faults>>
    PROVE  CallBegins(t, r)
<1>1. \A u \in Task : u # t => pc'[u] = pc[u]
    BY DEF BeginWith, Goto, TypeOK
<1> QED BY <1>1 DEF CallBegins, BeginWith

(* ... for a closure ... *)
LEMMA AttemptBegins ==
    ASSUME OInv, NEW i \in Invocation, Attempt(i)
    PROVE  /\ journal[i] = <<>> /\ i.handler # "get" /\ ~Done(i) /\ worker[i] = NoTask /\ MayRun(i)
           /\ \E t \in Task :
                /\ CallBegins(t, RequestOf(i))
                /\ worker' = [worker EXCEPT ![i] = t]
                /\ made' = [made EXCEPT ![i] = @ \cup {begun + 1}]
<1>1. TypeOK /\ Journaled(i)
    BY DEF OInv, CInv, IInv
<1>2. PICK t \in Task :
          /\ ~IsWorker(t)
          /\ BeginWith(t, RequestOf(i))
          /\ worker' = [worker EXCEPT ![i] = t]
          /\ made' = [made EXCEPT ![i] = @ \cup {call'[t]}]
    BY DEF Attempt, RequestOf
<1>3. UNCHANGED <<journal, lost, faults>>
    BY DEF Attempt
<1>4. CallBegins(t, RequestOf(i))
    BY <1>1, <1>2, <1>3, BeginWithBegins
<1>5. call'[t] = begun + 1
    BY <1>1, <1>4 DEF CallBegins, TypeOK
<1>6. journal[i] = <<>> /\ i.handler # "get"
    BY <1>1, ComesToWrite DEF Attempt
<1> QED BY <1>2, <1>4, <1>5, <1>6 DEF Attempt, ComesTo

(* ... and for an in-process caller. *)
LEMMA LocalCallBegins ==
    ASSUME OInv, NEW t \in Task, LocalCall(t)
    PROVE  \E r : CallBegins(t, r) /\ UNCHANGED <<worker, made>>
<1>1. TypeOK
    BY DEF OInv, CInv, IInv
<1>2. PICK r \in LocalRequest : BeginWith(t, r)
    BY DEF LocalCall
<1>3. ~IsWorker(t) /\ UNCHANGED <<journals, faults>>
    BY DEF LocalCall
<1>4. UNCHANGED <<journal, lost, faults, worker, made>>
    BY <1>3 DEF journals
<1>5. CallBegins(t, r)
    BY <1>1, <1>2, <1>3, <1>4, BeginWithBegins
<1> QED BY <1>4, <1>5

(* A step of Service leaves Restate's variables alone. *)
LEMMA ServiceStepRuns ==
    ASSUME OInv, NEW t \in Task, ServiceStep(t) \/ Fails(t)
    PROVE  ServiceRuns
<1>1. TypeOK /\ faults \in 0..MaxFaults /\ MaxFaults \in Nat
    BY RestateObjectAssumption DEF OInv, CInv, IInv, ObjectTyped
<1>2. Step(t) \/ StoreFails(t) \/ Cancel(t)
    BY DEF ServiceStep, Fails
<1>3. UNCHANGED <<call, since, request, begun>>
    BY <1>2 DEF Step, LoadStream, FetchSnapshot, LoadTail, Reject, DecideNothing, Decide, AppendEvents,
                Retry, GiveUp, SaveSnapshot, StoreFails, Cancel, local, ghost
<1>4. pc[t] # "idle" /\ \A u \in Task : u # t => pc'[u] = pc[u]
    <2>1. pc[t] # "idle"
        BY <1>2 DEF Step, LoadStream, FetchSnapshot, LoadTail, Reject, DecideNothing, Decide, AppendEvents,
                    Retry, LostRace, GiveUp, SaveSnapshot, StoreFails, Cancel
    <2>2. PICK label : pc' = [pc EXCEPT ![t] = label]
        BY <1>2 DEF Step, LoadStream, FetchSnapshot, LoadTail, Reject, DecideNothing, Decide, AppendEvents,
                    Retry, GiveUp, SaveSnapshot, StoreFails, Cancel, Return, Goto
    <2> QED BY <1>1, <2>1, <2>2 DEF TypeOK
<1>5. commits' = commits \/ \E u \in Task : AppendEvents(u)
    BY <1>2, LogSteps DEF Next
<1>6. UNCHANGED journals /\ faults' \in {faults, faults + 1} /\ faults' \in Nat /\ faults' <= MaxFaults
    BY <1>1 DEF ServiceStep, Fails
<1>7. \A u \in Task : pc'[u] # "idle" => pc[u] # "idle"
    BY <1>4
<1> QED BY <1>3, <1>5, <1>6, <1>7 DEF ServiceRuns

(* The kinds of steps. *)
LEMMA ObjectSteps ==
    ASSUME OInv, [ObjectNext]_objectVars
    PROVE  \/ \E i \in Invocation : Attempt(i)
           \/ \E i \in Invocation : JournalRun(i) \/ Redo(i) \/ AttemptLost(i) \/ ReadState(i)
           \/ \E t \in Task : LocalCall(t)
           \/ ServiceRuns
<1>1. CASE (\E s \in Stream : SnapshotDeleted(s)) \/ ObjectFinished \/ UNCHANGED objectVars
    <2>1. faults \in Nat /\ faults <= MaxFaults
        BY RestateObjectAssumption DEF OInv, ObjectTyped
    <2>2. /\ UNCHANGED <<journals, call, since, request, begun, pc, commits>>
          /\ faults' = faults
        BY <1>1 DEF SnapshotDeleted, DeleteSnapshot, ObjectFinished, objectVars, vars, journals, local, ghost
    <2> QED BY <2>1, <2>2 DEF ServiceRuns
<1> QED BY <1>1, ServiceStepRuns DEF ObjectNext, Durable

(* The commits of an invocation change only by the appends of its calls.   *)
LEMMA CommitsForOld ==
    ASSUME OInv, NEW i \in Invocation, commits' = commits,
           made'[i] \in {made[i], made[i] \cup {begun + 1}}
    PROVE  CommitsFor(i)' = CommitsFor(i)
<1>1. \A c \in commits : c.call # begun + 1
    <2>1. begun \in Nat
        BY ServiceAssumption DEF OInv, CInv, IInv, TypeOK
    <2> QED BY <2>1 DEF OInv, CInv, Numbered
<1> QED BY <1>1 DEF CommitsFor

(* An append makes a commit for the invocation whose call it is. *)
LEMMA CommitsForNew ==
    ASSUME OInv, NEW i \in Invocation, NEW t \in Task, AppendEvents(t), made' = made
    PROVE  /\ CommitsFor(i) \subseteq CommitsFor(i)'
           /\ \A c \in CommitsFor(i)' :
                c \in CommitsFor(i) \/ (c = CommitMade(t) /\ call[t] \in made[i])
<1>1. commits' = commits \cup {CommitMade(t)} /\ CommitMade(t).call = call[t]
    BY AppendMakes DEF OInv
<1> QED BY <1>1 DEF CommitsFor

(* An invocation that is done stays so. *)
LEMMA DoneStays ==
    ASSUME OInv, [ObjectNext]_objectVars, NEW i \in Invocation, Done(i)
    PROVE  Done(i)' /\ journal'[i] = journal[i]
<1>1. journal'[i] = journal[i]
    <2>1. ASSUME NEW j \in Invocation, JournalRun(j) PROVE journal'[i] = journal[i]
        <3>1. journal[j] = <<>>
            BY <2>1 DEF JournalRun, Returned, OInv, Owned
        <3>2. i # j
            BY <3>1, DoneIs
        <3> QED BY <2>1, <3>2 DEF JournalRun, OInv, ObjectTyped
    <2>2. ASSUME NEW j \in Invocation, ReadState(j) PROVE journal'[i] = journal[i]
        <3>1. i # j
            BY <2>2 DEF ReadState, ComesTo
        <3> QED BY <2>2, <3>1 DEF ReadState, OInv, ObjectTyped
    <2> QED BY <2>1, <2>2, ObjectSteps DEF Attempt, LocalCall, Redo, AttemptLost, ServiceRuns, journals
<1> QED BY <1>1 DEF Done

(* What Restate journals. *)
LEMMA JournalRunKeeps ==
    ASSUME OInv, NEW i \in Invocation, JournalRun(i)
    PROVE  \E t \in Task, w \in WriteEntry :
              /\ worker[i] = t /\ pc[t] = "idle" /\ call[t] \in made[i]
              /\ w = reply[t]
              /\ journal[i] = <<>> /\ i.handler # "get"
              /\ journal' = [journal EXCEPT ![i] = <<w>>]
              /\ worker' = [worker EXCEPT ![i] = NoTask]
              /\ UNCHANGED <<vars, lost, made, faults>>
<1> DEFINE t == worker[i]
           w == reply[t]
<1>1. t \in Task /\ pc[t] = "idle"
    BY DEF JournalRun, Returned, OInv, ObjectTyped
<1>2. journal[i] = <<>> /\ i.handler # "get" /\ call[t] \in made[i]
    BY DEF JournalRun, Returned, OInv, Owned
<1>3. w \in WriteEntry
    <2>1. w \in [tag : {"Ok"}, events : Seq(StoredEvent)] \cup {Rejected, Conflict, StoreError, None}
        BY <1>1 DEF OInv, CInv, IInv, TypeOK
    <2>2. w.tag = "Ok" \/ w = Rejected
        BY DEF JournalRun, IsTerminal
    <2> QED BY <2>1, <2>2 DEF WriteEntry, Conflict, StoreError, None, Err
<1>4. journal' = [journal EXCEPT ![i] = <<w>>]
    <2>1. journal' = [journal EXCEPT ![i] = Append(journal[i], w)]
        BY DEF JournalRun, OInv, ObjectTyped
    <2>2. Append(<<>>, w) = <<w>>
        OBVIOUS
    <2> QED BY <1>2, <2>1, <2>2
<1>5. worker' = [worker EXCEPT ![i] = NoTask] /\ UNCHANGED <<vars, lost, made, faults>>
    BY DEF JournalRun
<1> QED BY <1>1, <1>2, <1>3, <1>4, <1>5

(* What read_state journals. *)
LEMMA ReadStateKeeps ==
    ASSUME OInv, NEW i \in Invocation, ReadState(i)
    PROVE  \E r \in ReadEntry :
              /\ r = ReadOf(Rebuilt(i.key))
              /\ \/ i.handler = "get" /\ journal[i] = <<>> /\ journal' = [journal EXCEPT ![i] = <<r>>]
                 \/ /\ i.handler = "apply"
                    /\ \E w \in WriteEntry : /\ w.tag = "Ok" /\ journal[i] = <<w>>
                                             /\ journal' = [journal EXCEPT ![i] = <<w, r>>]
              /\ UNCHANGED <<vars, worker, lost, made, faults>>
<1> DEFINE r == ReadOf(Rebuilt(i.key))
<1>1. r \in ReadEntry
    <2>1. i.key \in Stream /\ Sound(log)
        BY RestateObjectAssumption DEF OInv, CInv, IInv
    <2>2. Rebuilt(i.key) \in Rendered
        BY <2>1, RebuiltIsCurrent
    <2> QED BY <2>2 DEF ReadOf, ReadEntry
<1>2. journal' = [journal EXCEPT ![i] = Append(journal[i], r)]
    BY DEF ReadState, ReadNow, OInv, ObjectTyped
<1> HIDE DEF r
<1>3. CASE i.handler = "get" /\ journal[i] = <<>>
    <2>1. Append(<<>>, r) = <<r>>
        OBVIOUS
    <2>2. journal' = [journal EXCEPT ![i] = <<r>>]
        BY <1>2, <1>3, <2>1
    <2> QED BY <1>1, <1>3, <2>2 DEF ReadState, r
<1>4. ASSUME NEW w \in WriteEntry, i.handler = "apply", w.tag = "Ok", journal[i] = <<w>>
      PROVE  journal' = [journal EXCEPT ![i] = <<w, r>>]
    <2>1. Append(<<w>>, r) = <<w, r>>
        <3> DEFINE S == {w, r}
        <3>1. <<w>> \in Seq(S) /\ Len(<<w>>) = 1 /\ <<w, r>> \in Seq(S) /\ Len(<<w, r>>) = 2
            OBVIOUS
        <3>2. /\ Append(<<w>>, r) \in Seq(S) /\ Len(Append(<<w>>, r)) = 2
              /\ Append(<<w>>, r)[1] = w /\ Append(<<w>>, r)[2] = r
            BY <3>1, AppendProperties
        <3>3. \A k \in 1..2 : Append(<<w>>, r)[k] = <<w, r>>[k]
            BY <3>2
        <3> HIDE DEF S
        <3> QED BY <3>1, <3>2, <3>3, SeqEqual
    <2> QED BY <1>2, <1>4, <2>1
<1>5. \/ i.handler = "get" /\ journal[i] = <<>>
      \/ i.handler = "apply" /\ \E w \in WriteEntry : w.tag = "Ok" /\ journal[i] = <<w>>
    BY ComesToRead DEF ReadState, OInv
<1> QED BY <1>1, <1>3, <1>4, <1>5 DEF ReadState, r

(* What is left of an attempt that is lost. *)
LEMMA LostEffect ==
    ASSUME OInv, NEW i \in Invocation, AttemptLost(i)
    PROVE  /\ worker[i] \in Task /\ call[worker[i]] \in made[i]
           /\ worker' = [worker EXCEPT ![i] = NoTask]
           /\ lost' = [lost EXCEPT ![i] = lost[i] + 1]
           /\ faults < MaxFaults /\ faults' = faults + 1
           /\ UNCHANGED <<vars, journal, made>>
BY DEF AttemptLost, OInv, ObjectTyped, Owned

-----------------------------------------------------------------------------
(* The invariant is preserved, part by part. *)

(* Types are kept. *)
LEMMA ObjectTypedStep ==
    ASSUME OInv, [ObjectNext]_objectVars
    PROVE  ObjectTyped'
<1>0. /\ ObjectTyped /\ begun \in Nat /\ faults \in Nat /\ faults <= MaxFaults /\ MaxFaults \in Nat
    BY ServiceAssumption, RestateObjectAssumption DEF OInv, CInv, IInv, TypeOK, ObjectTyped
<1>1. ASSUME NEW i \in Invocation, Attempt(i) PROVE ObjectTyped'
    <2>1. PICK t \in Task :
              /\ CallBegins(t, RequestOf(i))
              /\ worker' = [worker EXCEPT ![i] = t]
              /\ made' = [made EXCEPT ![i] = @ \cup {begun + 1}]
        BY <1>1, AttemptBegins
    <2>2. begun' = begun + 1 /\ UNCHANGED <<journal, lost, faults>>
        BY <2>1 DEF CallBegins
    <2>3. made' \in [Invocation -> SUBSET (1..begun')]
        BY <1>0, <2>1, <2>2 DEF ObjectTyped
    <2> QED BY <1>0, <2>1, <2>2, <2>3 DEF ObjectTyped
<1>2. ASSUME NEW t \in Task, LocalCall(t) PROVE ObjectTyped'
    <2>1. begun' = begun + 1 /\ UNCHANGED <<journal, lost, faults, worker, made>>
        BY <1>2, LocalCallBegins DEF CallBegins
    <2>2. made' \in [Invocation -> SUBSET (1..begun')]
        BY <1>0, <2>1 DEF ObjectTyped
    <2> QED BY <1>0, <2>1, <2>2 DEF ObjectTyped
<1>3. ASSUME NEW i \in Invocation, JournalRun(i) PROVE ObjectTyped'
    <2>1. PICK w : journal' = [journal EXCEPT ![i] = <<w>>]
        BY <1>3, JournalRunKeeps
    <2>2. worker' = [worker EXCEPT ![i] = NoTask] /\ UNCHANGED <<vars, lost, made, faults>>
        BY <1>3 DEF JournalRun
    <2>3. begun' = begun
        BY <2>2 DEF vars
    <2> QED BY <1>0, <2>1, <2>2, <2>3 DEF ObjectTyped
<1>4. ASSUME NEW i \in Invocation, ReadState(i) PROVE ObjectTyped'
    <2>1. PICK es : journal' = [journal EXCEPT ![i] = es]
        BY <1>4, ReadStateKeeps
    <2>2. UNCHANGED <<vars, worker, lost, made, faults>>
        BY <1>4 DEF ReadState
    <2>3. begun' = begun
        BY <2>2 DEF vars
    <2> QED BY <1>0, <2>1, <2>2, <2>3 DEF ObjectTyped
<1>5. ASSUME NEW i \in Invocation, Redo(i) PROVE ObjectTyped'
    BY <1>0, <1>5 DEF Redo, vars, ObjectTyped
<1>6. ASSUME NEW i \in Invocation, AttemptLost(i) PROVE ObjectTyped'
    BY <1>0, <1>6, LostEffect DEF vars, ObjectTyped
<1>7. CASE ServiceRuns
    BY <1>0, <1>7 DEF ServiceRuns, journals, ObjectTyped
<1> QED BY <1>1, <1>2, <1>3, <1>4, <1>5, <1>6, <1>7, ObjectSteps

(* Journals stay those of their handlers. *)
LEMMA JournaledStep ==
    ASSUME OInv, [ObjectNext]_objectVars, NEW i \in Invocation
    PROVE  Journaled(i)'
<1>0. Journaled(i) /\ ObjectTyped
    BY DEF OInv
<1>1. CASE journal'[i] = journal[i]
    BY <1>0, <1>1 DEF Journaled, WriteEntry, ReadEntry
<1>2. ASSUME NEW k \in Invocation, JournalRun(k) PROVE Journaled(i)'
    BY <1>0, <1>1, <1>2, JournalRunKeeps DEF Journaled, ObjectTyped, WriteEntry, ReadEntry
<1>3. ASSUME NEW k \in Invocation, ReadState(k) PROVE Journaled(i)'
    BY <1>0, <1>1, <1>3, ReadStateKeeps DEF Journaled, ObjectTyped, WriteEntry, ReadEntry
<1>4. ASSUME NEW k \in Invocation, Attempt(k) PROVE Journaled(i)'
    BY <1>1, <1>4 DEF Attempt
<1>5. ASSUME NEW t \in Task, LocalCall(t) PROVE Journaled(i)'
    BY <1>1, <1>5 DEF LocalCall, journals
<1> QED BY <1>1, <1>2, <1>3, <1>4, <1>5, ObjectSteps DEF Redo, AttemptLost, ServiceRuns, journals

(* Every call stays that of one invocation. *)
LEMMA OwnedStep ==
    ASSUME OInv, [ObjectNext]_objectVars, NEW i \in Invocation
    PROVE  Owned(i)'
<1>0. /\ Owned(i) /\ ObjectTyped /\ TypeOK /\ begun \in Nat
      /\ \A j \in Invocation : begun + 1 \notin made[j]
      /\ \A t \in Task : call[t] # begun + 1
    <2>1. Owned(i) /\ ObjectTyped /\ TypeOK /\ begun \in Nat
        BY ServiceAssumption DEF OInv, CInv, IInv, TypeOK
    <2>2. \A t \in Task : call[t] # begun + 1
        BY <2>1 DEF OInv, CInv, Numbered
    <2> QED BY <2>1, <2>2 DEF ObjectTyped
(* The worker of i, or nobody, holds i's call. *)
<1>1. ASSUME NEW k \in Invocation, Attempt(k) PROVE Owned(i)'
    <2>1. journal[k] = <<>> /\ k.handler # "get" /\ worker[k] = NoTask
        BY <1>1, AttemptBegins
    <2>2. PICK t \in Task :
              /\ CallBegins(t, RequestOf(k))
              /\ worker' = [worker EXCEPT ![k] = t]
              /\ made' = [made EXCEPT ![k] = @ \cup {begun + 1}]
        BY <1>1, AttemptBegins
    <2>3. /\ journal' = journal /\ commits' = commits /\ ~IsWorker(t)
          /\ call' = [call EXCEPT ![t] = begun + 1]
          /\ request' = [request EXCEPT ![t] = RequestOf(k)]
        BY <2>2 DEF CallBegins
    <2>4. made'[i] \in {made[i], made[i] \cup {begun + 1}} /\ (i # k => made'[i] = made[i])
          /\ (i = k => made'[i] = made[i] \cup {begun + 1})
        BY <1>0, <2>2 DEF ObjectTyped
    <2>5. CommitsFor(i)' = CommitsFor(i)
        BY <2>3, <2>4, CommitsForOld
    <2>6. worker'[i] # NoTask =>
              journal'[i] = <<>> /\ i.handler # "get" /\ call'[worker'[i]] \in made'[i]
        <3>1. CASE i = k
            BY <1>0, <2>1, <2>2, <2>3, <2>4, <3>1 DEF ObjectTyped, TypeOK
        <3>2. CASE i # k
            <4>1. worker'[i] = worker[i] /\ worker[i] # t
                BY <1>0, <2>2, <2>3, <3>2 DEF ObjectTyped, IsWorker
            <4> QED BY <1>0, <2>3, <2>4, <3>2, <4>1 DEF Owned, ObjectTyped, TypeOK
        <3> QED BY <3>1, <3>2
    <2>7. \A j \in Invocation : j # i => worker'[i] # worker'[j] \/ worker'[i] = NoTask
        BY <1>0, <2>2, <2>3 DEF Owned, ObjectTyped, IsWorker
    <2>8. \A j \in Invocation : j # i => made'[i] \cap made'[j] = {}
        BY <1>0, <2>2 DEF Owned, ObjectTyped
    <2>9. \A u \in Task : call'[u] \in made'[i] => request'[u] = RequestOf(i)
        BY <1>0, <2>3, <2>4 DEF Owned, TypeOK
    <2> QED BY <1>0, <2>5, <2>6, <2>7, <2>8, <2>9 DEF Owned, RequestOf
<1>2. ASSUME NEW t \in Task, LocalCall(t) PROVE Owned(i)'
    <2>1. PICK r : CallBegins(t, r) /\ UNCHANGED <<worker, made>>
        BY <1>2, LocalCallBegins
    <2>2. /\ journal' = journal /\ commits' = commits /\ ~IsWorker(t)
          /\ call' = [call EXCEPT ![t] = begun + 1]
          /\ request' = [request EXCEPT ![t] = r]
        BY <2>1 DEF CallBegins
    <2>3. CommitsFor(i)' = CommitsFor(i)
        BY <2>1, <2>2, CommitsForOld
    <2>4. worker[i] # NoTask => call'[worker[i]] = call[worker[i]]
        BY <1>0, <2>2 DEF ObjectTyped, IsWorker, TypeOK
    <2>5. \A u \in Task : call'[u] \in made[i] => request'[u] = RequestOf(i)
        BY <1>0, <2>2 DEF Owned, TypeOK
    <2> QED BY <1>0, <2>1, <2>2, <2>3, <2>4, <2>5 DEF Owned, RequestOf
<1>3. ASSUME NEW k \in Invocation, JournalRun(k) \/ Redo(k) \/ AttemptLost(k) \/ ReadState(k)
      PROVE  Owned(i)'
    <2>1. UNCHANGED <<call, request, commits, made>>
        BY <1>3 DEF JournalRun, Redo, AttemptLost, ReadState, vars
    <2>2. worker' \in {worker, [worker EXCEPT ![k] = NoTask]}
        BY <1>3 DEF JournalRun, Redo, AttemptLost, ReadState
    <2>3. worker'[i] # NoTask => journal'[i] = journal[i]
        <3>1. CASE JournalRun(k)
            BY <1>0, <3>1 DEF JournalRun, ObjectTyped
        <3>2. CASE ReadState(k)
            BY <1>0, <3>2 DEF ReadState, ComesTo, ObjectTyped
        <3> QED BY <1>3, <3>1, <3>2 DEF Redo, AttemptLost
    <2>4. worker'[i] \in {worker[i], NoTask} /\ \A j \in Invocation : worker'[j] \in {worker[j], NoTask}
        BY <1>0, <2>2 DEF ObjectTyped
    <2>5. CommitsFor(i)' = CommitsFor(i)
        BY <2>1, CommitsForOld
    <2> QED BY <1>0, <2>1, <2>3, <2>4, <2>5 DEF Owned, RequestOf
<1>4. CASE ServiceRuns
    <2>1. UNCHANGED <<journal, worker, made, call, request>>
        BY <1>4 DEF ServiceRuns, journals
    <2>2. \A c \in CommitsFor(i)' : c.stream = i.key /\ c.command = i.command
        <3>1. CASE commits' = commits
            BY <1>0, <2>1, <3>1, CommitsForOld DEF Owned
        <3>2. ASSUME NEW t \in Task, AppendEvents(t), NEW c \in CommitsFor(i)'
              PROVE  c.stream = i.key /\ c.command = i.command
            <4>1. c \in CommitsFor(i) \/ (c = CommitMade(t) /\ call[t] \in made[i])
                BY <2>1, <3>2, CommitsForNew
            <4>2. CASE call[t] \in made[i] /\ c = CommitMade(t)
                BY <1>0, <4>2 DEF Owned, CommitMade, StreamOf, RequestOf
            <4> QED BY <1>0, <4>1, <4>2 DEF Owned
        <3> QED BY <1>4, <3>1, <3>2 DEF ServiceRuns
    <2> QED BY <1>0, <2>1, <2>2 DEF Owned, RequestOf
<1> QED BY <1>1, <1>2, <1>3, <1>4, ObjectSteps

(* A step of others, or of i's own call. *)
LEMMA AccountedStays ==
    ASSUME OInv, NEW i \in Invocation,
           worker'[i] = worker[i], lost'[i] = lost[i], made'[i] = made[i], journal'[i] = journal[i],
           worker[i] # NoTask => call'[worker[i]] = call[worker[i]],
           \A t \in Task : pc'[t] # "idle" /\ call'[t] \in made[i] =>
                pc[t] # "idle" /\ call'[t] = call[t],
           \A c \in CommitsFor(i)' :
                \/ c \in CommitsFor(i)
                \/ \E t \in Task : pc[t] # "idle" /\ call[t] \in made[i] /\ c.call = call[t]
    PROVE  Accounted(i)'
<1>1. PICK gone \in SUBSET made[i], own \in 0..MaxCalls : AccountedBy(i, gone, own)
    BY DEF OInv, Accounted
<1>2. AccountedBy(i, gone, own)'
    <2>1. \A c \in CommitsFor(i)' : c.call \in gone \cup {own}
        <3>1. \A t \in Task : t # NoTask
            BY RestateObjectAssumption
        <3> QED BY <1>1, <3>1 DEF AccountedBy
    <2>2. Wrote(i)' <=> Wrote(i)
        BY DEF Wrote
    <2> QED BY <1>1, <2>1, <2>2 DEF AccountedBy
<1> QED BY <1>2 DEF Accounted

(* Every commit stays accounted for. *)
LEMMA AccountedStep ==
    ASSUME OInv, [ObjectNext]_objectVars, NEW i \in Invocation
    PROVE  Accounted(i)'
<1>0. /\ ObjectTyped /\ TypeOK /\ begun \in Nat /\ begun + 1 \notin made[i]
      /\ \A t \in Task : call[t] # begun + 1
      /\ \A t \in Task : Answered(t)
      /\ call' \in [Task -> 0..MaxCalls]
    <2>1. ObjectTyped /\ TypeOK /\ begun \in Nat
        BY ServiceAssumption DEF OInv, CInv, IInv, TypeOK
    <2>2. \A t \in Task : call[t] # begun + 1 /\ Answered(t)
        BY <2>1 DEF OInv, CInv, Numbered
    <2>3. call' \in [Task -> 0..MaxCalls]
        <3>1. TypeOK'
            BY ObjectStep, TypeStep DEF OInv, CInv, IInv
        <3> QED BY <3>1 DEF TypeOK
    <2> QED BY <2>1, <2>2, <2>3 DEF ObjectTyped
<1>1. PICK gone \in SUBSET made[i], own \in 0..MaxCalls : AccountedBy(i, gone, own)
    BY DEF OInv, Accounted
<1>2. IsFiniteSet(gone) /\ Cardinality(gone) <= lost[i] /\ lost[i] \in Nat /\ Cardinality(gone) \in Nat
    BY <1>0, <1>1, FS_CardinalityType DEF AccountedBy, ObjectTyped
<1>3. ASSUME NEW k \in Invocation, Attempt(k) PROVE Accounted(i)'
    <2>1. journal[k] = <<>> /\ worker[k] = NoTask
        BY <1>3, AttemptBegins
    <2>2. PICK t \in Task :
              /\ CallBegins(t, RequestOf(k))
              /\ worker' = [worker EXCEPT ![k] = t]
              /\ made' = [made EXCEPT ![k] = @ \cup {begun + 1}]
        BY <1>3, AttemptBegins
    <2>3. /\ journal' = journal /\ commits' = commits /\ lost' = lost /\ ~IsWorker(t)
          /\ call' = [call EXCEPT ![t] = begun + 1] /\ pc[t] = "idle"
          /\ \A u \in Task : u # t => pc'[u] = pc[u]
        BY <2>2 DEF CallBegins
    <2>4. /\ i # k => made'[i] = made[i] /\ worker'[i] = worker[i]
          /\ i = k => made'[i] = made[i] \cup {begun + 1} /\ worker'[i] = t
        BY <1>0, <2>2 DEF ObjectTyped
    <2>5. CommitsFor(i)' = CommitsFor(i)
        BY <2>3, <2>4, CommitsForOld
    <2>6. call'[t] = begun + 1 /\ \A u \in Task : u # t => call'[u] = call[u]
        BY <1>0, <2>3 DEF TypeOK
    <2>7. CASE i # k
        <3>1. worker[i] # NoTask => call'[worker[i]] = call[worker[i]]
            BY <1>0, <2>3, <2>6 DEF ObjectTyped, IsWorker
        <3>2. \A u \in Task : pc'[u] # "idle" /\ call'[u] \in made[i] =>
                  pc[u] # "idle" /\ call'[u] = call[u]
            BY <1>0, <2>3, <2>6
        <3> QED BY <2>3, <2>4, <2>5, <2>7, <3>1, <3>2, AccountedStays
    <2>8. CASE i = k
        <3>1. ~Wrote(i) /\ own = 0
            BY <1>1, <2>1, <2>8 DEF Wrote, AccountedBy
        <3>2. \A c \in CommitsFor(i) : c.call \in gone
            <4>1. \A c \in commits : c.call # 0
                BY DEF OInv, CInv, Numbered
            <4> QED BY <1>1, <3>1, <4>1 DEF AccountedBy, CommitsFor
        <3>3. \A u \in Task : pc[u] # "idle" /\ call[u] \in made[i] => call[u] \in gone
            BY <1>1, <2>1, <2>8, RestateObjectAssumption DEF AccountedBy
        <3>4. \A u \in Task : pc'[u] # "idle" /\ call'[u] \in made'[i] =>
                  call'[u] \in gone \/ worker'[i] = u
            BY <1>0, <2>3, <2>4, <2>6, <2>8, <3>3
        <3>5. PICK number : number = begun + 1
            OBVIOUS
        <3>6. worker'[i] # NoTask /\ call'[worker'[i]] = number
            BY <2>4, <2>6, <2>8, <3>5, RestateObjectAssumption
        <3>7. AccountedBy(i, gone, number)'
            <4>1. \A c \in CommitsFor(i)' : c.call \in gone \cup {number}
                BY <2>5, <3>2
            <4>2. IsFiniteSet(gone) /\ Cardinality(gone) <= lost'[i]
                BY <1>2, <2>3
            <4> QED BY <3>4, <3>6, <4>1, <4>2 DEF AccountedBy
        <3>8. gone \in SUBSET made'[i] /\ number \in 0..MaxCalls
            <4>1. call'[t] \in 0..MaxCalls
                BY <1>0
            <4> QED BY <2>4, <2>6, <2>8, <3>5, <4>1
        <3> QED BY <3>7, <3>8 DEF Accounted
    <2> QED BY <2>7, <2>8
<1>4. ASSUME NEW t \in Task, LocalCall(t) PROVE Accounted(i)'
    <2>1. PICK r : CallBegins(t, r) /\ UNCHANGED <<worker, made>>
        BY <1>4, LocalCallBegins
    <2>2. /\ journal' = journal /\ commits' = commits /\ lost' = lost /\ ~IsWorker(t)
          /\ call' = [call EXCEPT ![t] = begun + 1] /\ pc[t] = "idle"
          /\ \A u \in Task : u # t => pc'[u] = pc[u]
        BY <2>1 DEF CallBegins
    <2>3. call'[t] = begun + 1 /\ \A u \in Task : u # t => call'[u] = call[u]
        BY <1>0, <2>2 DEF TypeOK
    <2>4. worker[i] # NoTask => call'[worker[i]] = call[worker[i]]
        BY <1>0, <2>2, <2>3 DEF ObjectTyped, IsWorker
    <2>5. \A u \in Task : pc'[u] # "idle" /\ call'[u] \in made[i] =>
              pc[u] # "idle" /\ call'[u] = call[u]
        BY <1>0, <2>2, <2>3
    <2>6. CommitsFor(i)' = CommitsFor(i)
        BY <2>1, <2>2, CommitsForOld
    <2> QED BY <2>1, <2>2, <2>4, <2>5, <2>6, AccountedStays
<1>5. ASSUME NEW k \in Invocation, i # k, JournalRun(k) \/ Redo(k) \/ AttemptLost(k) \/ ReadState(k)
      PROVE  Accounted(i)'
    <2>1. UNCHANGED <<call, commits, made, pc>>
        BY <1>5 DEF JournalRun, Redo, AttemptLost, ReadState, vars
    <2>2. worker'[i] = worker[i] /\ lost'[i] = lost[i] /\ journal'[i] = journal[i]
        BY <1>0, <1>5 DEF JournalRun, Redo, AttemptLost, ReadState, ObjectTyped
    <2>3. CommitsFor(i)' = CommitsFor(i)
        BY <2>1, CommitsForOld
    <2> QED BY <2>1, <2>2, <2>3, AccountedStays
(* The call the closure waited for wrote something, or nothing. *)
<1>6. ASSUME NEW t \in Task, worker[i] = t, pc[t] = "idle", CommitsOf(t) = {}
      PROVE  \A c \in CommitsFor(i) : c.call \in gone
    <2>1. own = call[t]
        BY <1>1, <1>6, RestateObjectAssumption DEF AccountedBy
    <2> QED BY <1>1, <1>6, <2>1 DEF AccountedBy, CommitsFor, CommitsOf
<1>7. ASSUME NEW t \in Task, worker[i] = t, pc[t] = "idle"
      PROVE  \A u \in Task : pc[u] # "idle" /\ call[u] \in made[i] => call[u] \in gone
    BY <1>1, <1>7 DEF AccountedBy
<1>8. CASE JournalRun(i)
    <2>1. PICK t \in Task, w \in WriteEntry :
              /\ worker[i] = t /\ pc[t] = "idle" /\ call[t] \in made[i]
              /\ w = reply[t]
              /\ journal[i] = <<>> /\ i.handler # "get"
              /\ journal' = [journal EXCEPT ![i] = <<w>>]
              /\ worker' = [worker EXCEPT ![i] = NoTask]
              /\ UNCHANGED <<vars, lost, made, faults>>
        BY <1>8, JournalRunKeeps
    <2>2. journal'[i] = <<w>> /\ worker'[i] = NoTask /\ UNCHANGED <<call, pc, commits, made, lost>>
        BY <1>0, <2>1 DEF ObjectTyped, vars
    <2>3. CommitsFor(i)' = CommitsFor(i)
        BY <2>2, CommitsForOld
    <2>4. \A u \in Task : pc[u] # "idle" /\ call[u] \in made[i] => call[u] \in gone
        BY <1>7, <2>1
    <2>5. CASE w.events # <<>>
        <3>1. Wrote(i)'
            BY <2>1, <2>2, <2>5 DEF Wrote
        <3>2. AccountedBy(i, gone, own)'
            BY <1>1, <1>2, <2>2, <2>3, <2>4, <3>1 DEF AccountedBy
        <3> QED BY <2>2, <3>2 DEF Accounted
    <2>6. CASE w.events = <<>>
        <3>1. CommitsOf(t) = {}
            <4>1. CASE w.tag = "Rejected"
                BY <1>0, <2>1, <4>1 DEF Answered
            <4>2. CASE w.tag = "Ok"
                <5>1. Tells(t)
                    BY <1>0, <2>1, <4>2 DEF Answered
                <5>2. ASSUME NEW c \in commits PROVE NumberedFrom(c.stream, c.from, c.events) # <<>>
                    <6>1. Len(c.events) \in Nat /\ 1 \in 1..Len(c.events)
                        BY CommitsLie DEF OInv
                    <6>2. 1 \in DOMAIN NumberedFrom(c.stream, c.from, c.events)
                        BY <6>1 DEF NumberedFrom
                    <6> QED BY <6>2
                <5> QED BY <2>1, <2>6, <5>1, <5>2 DEF Tells
            <4> QED BY <4>1, <4>2, EntryIs
        <3>2. \A c \in CommitsFor(i) : c.call \in gone
            BY <1>6, <2>1, <3>1
        <3>3. AccountedBy(i, gone, 0)'
            BY <1>2, <2>2, <2>3, <2>4, <3>2 DEF AccountedBy
        <3> QED BY <2>2, <3>3, ServiceAssumption DEF Accounted
    <2> QED BY <2>5, <2>6
<1>9. CASE Redo(i)
    <2>1. PICK t \in Task : worker[i] = t /\ pc[t] = "idle" /\ call[t] \in made[i]
        BY <1>0, <1>9 DEF Redo, Returned, ObjectTyped, OInv, Owned
    <2>2. /\ journal' = journal /\ worker'[i] = NoTask /\ UNCHANGED <<call, pc, commits, made, lost>>
          /\ reply[t].tag # "Ok"
        BY <1>0, <1>9, <2>1 DEF Redo, ObjectTyped, vars
    <2>3. CommitsFor(i)' = CommitsFor(i)
        BY <2>2, CommitsForOld
    <2>4. CommitsOf(t) = {}
        <3>1. request[t].mode = "execute"
            <4>1. request[t] = RequestOf(i)
                BY <2>1 DEF OInv, Owned
            <4> QED BY <4>1 DEF RequestOf
        <3> QED BY <1>0, <2>2, <3>1 DEF Answered
    <2>5. AccountedBy(i, gone, 0)'
        BY <1>2, <1>6, <1>7, <2>1, <2>2, <2>3, <2>4 DEF AccountedBy
    <2> QED BY <2>2, <2>5, ServiceAssumption DEF Accounted
<1>10. CASE AttemptLost(i)
    <2>1. PICK t \in Task :
              /\ worker[i] = t /\ call[t] \in made[i] /\ worker'[i] = NoTask /\ lost'[i] = lost[i] + 1
              /\ UNCHANGED <<journal, call, pc, commits, made>>
        BY <1>0, <1>10, LostEffect DEF ObjectTyped, vars
    <2>2. PICK more : more = gone \cup {call[t]}
        OBVIOUS
    <2>3. own = call[t]
        BY <1>1, <2>1, RestateObjectAssumption DEF AccountedBy
    <2>4. IsFiniteSet(more) /\ Cardinality(more) <= lost'[i]
        <3>1. IsFiniteSet(more) /\ Cardinality(more) \in {Cardinality(gone), Cardinality(gone) + 1}
            BY <1>2, <2>2, FS_AddElement
        <3> QED BY <1>2, <2>1, <3>1
    <2>5. CommitsFor(i)' = CommitsFor(i)
        BY <2>1, CommitsForOld
    <2>6. \A c \in CommitsFor(i)' : c.call \in more \cup {0}
        BY <1>1, <2>2, <2>3, <2>5 DEF AccountedBy
    <2>7. \A u \in Task : pc'[u] # "idle" /\ call'[u] \in made'[i] => call'[u] \in more
        BY <1>1, <2>1, <2>2 DEF AccountedBy
    <2>8. more \in SUBSET made'[i]
        BY <2>1, <2>2
    <2>9. AccountedBy(i, more, 0)'
        BY <2>1, <2>4, <2>6, <2>7 DEF AccountedBy
    <2> QED BY <2>8, <2>9, ServiceAssumption DEF Accounted
<1>11. CASE ReadState(i)
    <2>1. /\ worker'[i] = worker[i] /\ UNCHANGED <<call, pc, commits, made, lost>>
        BY <1>11 DEF ReadState, vars
    <2>2. CommitsFor(i)' = CommitsFor(i)
        BY <2>1, CommitsForOld
    <2>3. Wrote(i)' <=> Wrote(i)
        <3>1. PICK r \in ReadEntry :
                \/ i.handler = "get" /\ journal[i] = <<>> /\ journal' = [journal EXCEPT ![i] = <<r>>]
                \/ /\ i.handler = "apply"
                   /\ \E w \in WriteEntry : /\ w.tag = "Ok" /\ journal[i] = <<w>>
                                            /\ journal' = [journal EXCEPT ![i] = <<w, r>>]
            BY <1>11, ReadStateKeeps
        <3>2. CASE i.handler = "get"
            BY <3>2 DEF Wrote
        <3>3. ASSUME NEW w, journal[i] = <<w>>, journal' = [journal EXCEPT ![i] = <<w, r>>]
              PROVE  Wrote(i)' <=> Wrote(i)
            <4>1. journal'[i] = <<w, r>>
                BY <1>0, <3>3 DEF ObjectTyped
            <4> QED BY <3>3, <4>1 DEF Wrote
        <3> QED BY <3>1, <3>2, <3>3
    <2>4. AccountedBy(i, gone, own)'
        BY <1>1, <2>1, <2>2, <2>3 DEF AccountedBy
    <2> QED BY <2>1, <2>4 DEF Accounted
<1>12. CASE ServiceRuns
    <2>1. /\ UNCHANGED <<journal, worker, lost, made, call>>
          /\ \A t \in Task : pc'[t] # "idle" => pc[t] # "idle"
        BY <1>12 DEF ServiceRuns, journals
    <2>2. \A c \in CommitsFor(i)' :
                \/ c \in CommitsFor(i)
                \/ \E t \in Task : pc[t] # "idle" /\ call[t] \in made[i] /\ c.call = call[t]
        <3>1. CASE commits' = commits
            BY <2>1, <3>1, CommitsForOld
        <3>2. ASSUME NEW t \in Task, AppendEvents(t), NEW c \in CommitsFor(i)'
              PROVE  \/ c \in CommitsFor(i)
                     \/ pc[t] # "idle" /\ call[t] \in made[i] /\ c.call = call[t]
            <4>1. pc[t] # "idle" /\ CommitMade(t).call = call[t]
                BY <3>2 DEF AppendEvents, CommitMade
            <4> QED BY <2>1, <3>2, <4>1, CommitsForNew
        <3> QED BY <1>12, <3>1, <3>2 DEF ServiceRuns
    <2> QED BY <2>1, <2>2, AccountedStays
<1> QED BY <1>3, <1>4, <1>5, <1>8, <1>9, <1>10, <1>11, <1>12, ObjectSteps

(* Commits are never taken back. *)
LEMMA CommitsForGrow ==
    ASSUME OInv, [ObjectNext]_objectVars, NEW i \in Invocation
    PROVE  CommitsFor(i) \subseteq CommitsFor(i)'
<1>1. commits \subseteq commits'
    BY ObjectStep, LogSteps, AppendMakes DEF OInv
<1>2. made[i] \subseteq made'[i]
    <2>1. ASSUME NEW k \in Invocation, Attempt(k) PROVE made[i] \subseteq made'[i]
        BY <2>1, AttemptBegins DEF OInv, ObjectTyped
    <2>2. ASSUME NEW t \in Task, LocalCall(t) PROVE made' = made
        BY <2>2 DEF LocalCall, journals
    <2> QED BY <2>1, <2>2, ObjectSteps DEF JournalRun, Redo, AttemptLost, ReadState, ServiceRuns, journals
<1> QED BY <1>1, <1>2 DEF CommitsFor

(* The journal of i changes only by these. *)
LEMMA JournalSteps ==
    ASSUME OInv, [ObjectNext]_objectVars, NEW i \in Invocation
    PROVE  \/ journal'[i] = journal[i]
           \/ JournalRun(i)
           \/ ReadState(i)
<1>1. ASSUME NEW k \in Invocation, k # i, JournalRun(k) \/ ReadState(k)
      PROVE  journal'[i] = journal[i]
    BY <1>1 DEF JournalRun, ReadState, OInv, ObjectTyped
<1>2. ASSUME NEW k \in Invocation, Attempt(k) \/ Redo(k) \/ AttemptLost(k)
      PROVE  journal'[i] = journal[i]
    BY <1>2 DEF Attempt, Redo, AttemptLost
<1>3. ASSUME NEW t \in Task, LocalCall(t) PROVE journal'[i] = journal[i]
    BY <1>3 DEF LocalCall, journals
<1> QED BY <1>1, <1>2, <1>3, ObjectSteps DEF ServiceRuns, journals

(* What is journaled as written stays in the log. *)
LEMMA KeptStep ==
    ASSUME OInv, [ObjectNext]_objectVars, NEW i \in Invocation
    PROVE  Kept(i)'
<1>0. Kept(i) /\ ObjectTyped /\ CommitsFor(i) \subseteq CommitsFor(i)'
    BY CommitsForGrow DEF OInv
<1>1. ASSUME Wrote(i)' => Wrote(i) /\ journal'[i][1] = journal[i][1]
      PROVE  Kept(i)'
    BY <1>0, <1>1 DEF Kept
<1>2. CASE journal'[i] = journal[i]
    BY <1>1, <1>2 DEF Wrote
<1>3. CASE JournalRun(i)
    <2>1. PICK t \in Task, w \in WriteEntry :
              /\ worker[i] = t /\ pc[t] = "idle" /\ call[t] \in made[i]
              /\ w = reply[t]
              /\ journal' = [journal EXCEPT ![i] = <<w>>]
        BY <1>3, JournalRunKeeps
    <2>2. journal'[i] = <<w>>
        BY <1>0, <2>1 DEF ObjectTyped
    <2>3. SUFFICES ASSUME w.events # <<>>
                   PROVE  \E c \in CommitsFor(i) :
                              w.events = NumberedFrom(c.stream, c.from, c.events)
        BY <1>0, <2>2 DEF Kept, Wrote
    <2>4. w.tag = "Ok"
        BY <2>3 DEF WriteEntry, Rejected, Err
    <2>5. Tells(t)
        BY <2>1, <2>4 DEF OInv, CInv, Answered
    <2>6. PICK c \in commits :
              CommitsOf(t) = {c} /\ w.events = NumberedFrom(c.stream, c.from, c.events)
        BY <2>1, <2>3, <2>5 DEF Tells
    <2>7. c \in CommitsFor(i)
        BY <2>1, <2>6 DEF CommitsOf, CommitsFor
    <2> QED BY <2>6, <2>7
<1>4. CASE ReadState(i)
    <2>1. PICK r \in ReadEntry :
            \/ i.handler = "get" /\ journal[i] = <<>> /\ journal' = [journal EXCEPT ![i] = <<r>>]
            \/ /\ i.handler = "apply"
               /\ \E w \in WriteEntry : /\ w.tag = "Ok" /\ journal[i] = <<w>>
                                        /\ journal' = [journal EXCEPT ![i] = <<w, r>>]
        BY <1>4, ReadStateKeeps
    <2>2. CASE i.handler = "get"
        BY <1>1, <2>2 DEF Wrote
    <2>3. ASSUME NEW w, journal[i] = <<w>>, journal' = [journal EXCEPT ![i] = <<w, r>>]
          PROVE  Kept(i)'
        <3>1. journal'[i] = <<w, r>>
            BY <1>0, <2>3 DEF ObjectTyped
        <3> QED BY <1>1, <2>3, <3>1 DEF Wrote
    <2> QED BY <2>1, <2>2, <2>3
<1> QED BY <1>2, <1>3, <1>4, JournalSteps

(* What an invocation is journaled to have written lies in its stream. *)
LEMMA WrittenLies ==
    ASSUME OInv, NEW i \in Invocation, Wrote(i), NEW n \in DOMAIN journal[i][1].events
    PROVE  /\ journal[i][1].events[n].version \in Nat
           /\ journal[i][1].events[n].version <= CurrentVersion(log, i.key)
<1>1. PICK c \in CommitsFor(i) :
          journal[i][1].events = NumberedFrom(c.stream, c.from, c.events)
    BY DEF OInv, Kept
<1>2. c \in commits /\ c.stream = i.key
    BY DEF CommitsFor, OInv, Owned
<1>3. c.from \in Nat /\ Len(c.events) \in Nat
      /\ c.from + Len(c.events) <= CurrentVersion(log, i.key)
    BY <1>2, CommitsLie DEF OInv
<1>4. n \in 1..Len(c.events) /\ journal[i][1].events[n].version = c.from + n
    BY <1>1 DEF NumberedFrom
<1>5. CurrentVersion(log, i.key) \in Nat
    BY RestateObjectAssumption DEF OInv, CInv, IInv, Sound
<1> QED BY <1>3, <1>4, <1>5

(* What is journaled as read stays a state the stream had. *)
LEMMA ReadsKeptStep ==
    ASSUME OInv, [ObjectNext]_objectVars, NEW i \in Invocation
    PROVE  ReadsKept(i)'
<1>0. /\ ReadsKept(i) /\ ObjectTyped /\ Journaled(i) /\ TypeOK /\ Sound(log) /\ i.key \in Stream
    BY RestateObjectAssumption DEF OInv, CInv, IInv
<1>1. CASE journal'[i] = journal[i]
    <2>1. ASSUME NEW k \in DOMAIN journal[i], journal[i][k].tag = "Read"
          PROVE  journal[i][k].seen \in Rendered
        BY <1>0, <2>1, EntryIs DEF Journaled
    <2>2. ASSUME NEW k \in DOMAIN journal[i], journal[i][k].tag = "Read"
          PROVE  RenderedAt(i.key, journal[i][k].seen)'
        <3>1. PICK r \in Rendered : r = journal[i][k].seen
            BY <2>1, <2>2
        <3>2. RenderedAt(i.key, r)
            BY <1>0, <2>2, <3>1 DEF ReadsKept
        <3>3. r.version <= CurrentVersion(log', i.key) /\ r.state = SubSeq(History(log', i.key), 1, r.version)
            BY <1>0, <3>2, ObjectStep, RenderedStays
        <3> QED BY <1>1, <3>1, <3>3 DEF RenderedAt, PrefixAt
    <2> QED BY <1>0, <1>1, <2>2 DEF ReadsKept
<1>2. CASE JournalRun(i)
    <2>1. PICK w \in WriteEntry : journal' = [journal EXCEPT ![i] = <<w>>]
        BY <1>2, JournalRunKeeps
    <2>2. journal'[i] = <<w>>
        BY <1>0, <2>1 DEF ObjectTyped
    <2>3. \A k \in DOMAIN <<w>> : <<w>>[k].tag # "Read"
        BY EntryIs
    <2> QED BY <2>2, <2>3 DEF ReadsKept
<1>3. CASE ReadState(i)
    <2>1. PICK r \in ReadEntry :
            /\ r = ReadOf(Rebuilt(i.key))
            /\ \/ i.handler = "get" /\ journal[i] = <<>> /\ journal' = [journal EXCEPT ![i] = <<r>>]
               \/ /\ i.handler = "apply"
                  /\ \E w \in WriteEntry : /\ w.tag = "Ok" /\ journal[i] = <<w>>
                                           /\ journal' = [journal EXCEPT ![i] = <<w, r>>]
            /\ log' = log
        BY <1>3, ReadStateKeeps DEF vars
    <2>2. RenderedAt(i.key, r.seen)' /\ r.seen.version = CurrentVersion(log, i.key)
        <3>1. r.seen = Rebuilt(i.key) /\ Rebuilt(i.key) = Caughtup(Default, i.key)
            BY <2>1 DEF ReadOf, Rebuilt, Caughtup, Load, Default
        <3>2. RenderedAt(i.key, r.seen) /\ r.seen.version = CurrentVersion(log, i.key)
            BY <1>0, <3>1, DefaultRendered, CaughtupIsCurrent
        <3> QED BY <2>1, <3>2 DEF RenderedAt, PrefixAt
    <2>3. CASE i.handler = "get" /\ journal' = [journal EXCEPT ![i] = <<r>>]
        <3>1. journal'[i] = <<r>>
            BY <1>0, <2>3 DEF ObjectTyped
        <3>2. \A k \in DOMAIN <<r>> : <<r>>[k] = r
            OBVIOUS
        <3> QED BY <2>2, <2>3, <3>1, <3>2 DEF ReadsKept
    <2>4. ASSUME NEW w \in WriteEntry, i.handler = "apply", journal[i] = <<w>>,
                 journal' = [journal EXCEPT ![i] = <<w, r>>]
          PROVE  ReadsKept(i)'
        <3>1. journal'[i] = <<w, r>>
            BY <1>0, <2>4 DEF ObjectTyped
        <3>2. \A k \in DOMAIN <<w, r>> : <<w, r>>[k].tag = "Read" => <<w, r>>[k] = r
            BY EntryIs
        <3>3. <<w, r>>[1] = w
            OBVIOUS
        <3>4. ASSUME NEW n \in DOMAIN w.events
              PROVE  w.events[n].version <= r.seen.version
            <4>1. w.events # <<>>
                BY <3>4
            <4>2. Wrote(i) /\ journal[i][1] = w
                BY <2>4, <4>1 DEF Wrote
            <4> QED BY <2>2, <3>4, <4>2, WrittenLies
        <3> QED BY <2>2, <3>1, <3>2, <3>3, <3>4 DEF ReadsKept
    <2> QED BY <2>1, <2>3, <2>4
<1> QED BY <1>1, <1>2, <1>3, JournalSteps

(* While no attempt was lost, an invocation has no call but its closure's. *)
LEMMA NothingLost ==
    ASSUME OInv, NEW i \in Invocation, lost[i] = 0
    PROVE  /\ \A t \in Task : pc[t] # "idle" /\ call[t] \in made[i] => worker[i] = t
           /\ worker[i] # NoTask => \A c \in CommitsFor(i) : c.call = call[worker[i]]
<1>1. PICK gone \in SUBSET made[i], own \in 0..MaxCalls : AccountedBy(i, gone, own)
    BY DEF OInv, Accounted
<1>2. gone = {}
    <2>1. IsFiniteSet(gone) /\ Cardinality(gone) = 0
        BY <1>1, FS_CardinalityType DEF AccountedBy
    <2> QED BY <2>1, FS_EmptySet
<1> QED BY <1>1, <1>2 DEF AccountedBy

(* An invocation is under way from its first attempt. *)
LEMMA UnderwaySteps ==
    ASSUME OInv, [ObjectNext]_objectVars, NEW i \in Invocation, Underway(i)'
    PROVE  Underway(i) \/ Attempt(i)
<1>1. ~Done(i)
    BY DoneStays DEF Underway
<1>2. CASE made'[i] = made[i]
    BY <1>1, <1>2 DEF Underway
<1>3. ASSUME NEW k \in Invocation, Attempt(k), k # i PROVE made'[i] = made[i]
    BY <1>3, AttemptBegins DEF OInv, ObjectTyped
<1>4. ASSUME NEW t \in Task, LocalCall(t) PROVE made'[i] = made[i]
    BY <1>4 DEF LocalCall, journals
<1> QED BY <1>2, <1>3, <1>4, ObjectSteps DEF JournalRun, Redo, AttemptLost, ReadState, ServiceRuns, journals

(* One that waits for a call is under way and holds its key. *)
LEMMA WorkerUnderway ==
    ASSUME OInv, NEW i \in Invocation, worker[i] # NoTask
    PROVE  Underway(i) /\ Exclusive(i)
<1>1. journal[i] = <<>> /\ i.handler # "get" /\ made[i] # {}
    BY DEF OInv, Owned
<1> QED BY <1>1, DoneIs DEF Underway, Exclusive

(* That the write of j made c is in its journal. *)
Journals(j, c) ==
    /\ journal[j] # <<>> /\ Runs(j)[1] = "write"
    /\ journal[j][1].events = NumberedFrom(c.stream, c.from, c.events)

(* What is in the journal is in the log already: an append that goes on    *)
(* for an attempt that was lost makes a commit of its own.                 *)
LEMMA JournaledBefore ==
    ASSUME OInv, NEW j \in Invocation, NEW t \in Task, AppendEvents(t), call[t] \in made[j],
           Journals(j, CommitMade(t))
    PROVE  FALSE
<1> DEFINE c == CommitMade(t)
<1>1. /\ c \in Commit /\ c.stream = StreamOf(t) /\ c.events # <<>>
      /\ c.from = CurrentVersion(log, StreamOf(t))
    BY AppendMakes DEF OInv
<1>2. StreamOf(t) = j.key
    <2>1. request[t] = RequestOf(j)
        BY DEF OInv, Owned
    <2> QED BY <2>1 DEF StreamOf, RequestOf
<1>3. Journals(j, c)
    OBVIOUS
<1> HIDE DEF c
<1>4. Len(c.events) \in Nat \ {0} /\ c.from \in Nat
    BY <1>1, EmptySeq, LenProperties DEF Commit
<1>5. 1 \in DOMAIN journal[j][1].events /\ journal[j][1].events[1].version = c.from + 1
    BY <1>3, <1>4 DEF Journals, NumberedFrom
<1>6. Wrote(j)
    <2>1. j.handler # "get"
        BY <1>3, RunsIs DEF Journals
    <2>2. journal[j][1].events # <<>>
        BY <1>5
    <2> QED BY <1>3, <2>1, <2>2 DEF Wrote, Journals
<1>7. PICK d \in CommitsFor(j) : journal[j][1].events = NumberedFrom(d.stream, d.from, d.events)
    BY <1>6 DEF OInv, Kept
<1>8. d \in commits /\ d.stream = j.key
    BY DEF CommitsFor, OInv, Owned
<1>9. /\ d.from \in Nat /\ d.from < d.from + Len(d.events) /\ Len(d.events) \in Nat
      /\ d.from + Len(d.events) <= CurrentVersion(log, d.stream)
    BY <1>8, CommitsLie DEF OInv
<1>10. journal[j][1].events[1].version = d.from + 1
    BY <1>5, <1>7, <1>9 DEF NumberedFrom
<1> QED BY <1>1, <1>2, <1>4, <1>5, <1>8, <1>9, <1>10

(* What an invocation knows that it wrote was in its journal before, where *)
(* another of its key has an open closure.                                 *)
LEMMA KnewBefore ==
    ASSUME OInv, [ObjectNext]_objectVars, NEW i \in Invocation, NEW j \in Invocation, i # j,
           worker'[i] # NoTask, i.key = j.key, NEW c, KnowsOf(j, c)',
           ~(Underway(i)' /\ Underway(j)' /\ Exclusive(i) /\ Exclusive(j))
    PROVE  Journals(j, c)
<1>0. ObjectTyped /\ Excluded(i) /\ Owned(i)' /\ Owned(j)'
    BY OwnedStep DEF OInv
<1>1. ASSUME NEW k \in Invocation, Owned(k)', worker'[k] # NoTask
      PROVE  Underway(k)' /\ Exclusive(k)
    <2>1. journal'[k] = <<>> /\ k.handler # "get" /\ made'[k] # {}
        BY <1>1 DEF Owned
    <2>2. ~Done(k)'
        BY <2>1, RunsIs DEF Done
    <2> QED BY <2>1, <2>2 DEF Underway, Exclusive
<1>2. worker'[j] = NoTask
    BY <1>0, <1>1
<1>3. journal'[j] # <<>> /\ Runs(j)[1] = "write"
      /\ journal'[j][1].events = NumberedFrom(c.stream, c.from, c.events)
    BY <1>2 DEF KnowsOf
<1>4. CASE journal'[j] = journal[j]
    BY <1>3, <1>4 DEF Journals
<1>5. CASE JournalRun(j)
    <2>1. worker[j] # NoTask /\ worker'[i] = worker[i]
        BY <1>0, <1>5 DEF JournalRun, Returned, ObjectTyped
    <2>2. Underway(i) /\ Underway(j) /\ Exclusive(i) /\ Exclusive(j)
        BY <2>1, WorkerUnderway
    <2> QED BY <1>0, <2>2 DEF Excluded
<1>6. CASE ReadState(j)
    <2>1. j.handler # "get"
        BY <1>3, RunsIs
    <2>2. PICK r \in ReadEntry, w \in WriteEntry :
              journal[j] = <<w>> /\ journal' = [journal EXCEPT ![j] = <<w, r>>]
        BY <1>6, <2>1, ReadStateKeeps
    <2>3. journal'[j] = <<w, r>>
        BY <1>0, <2>2 DEF ObjectTyped
    <2>4. journal'[j][1] = w /\ journal[j][1] = w /\ journal[j] # <<>>
        BY <2>2, <2>3
    <2> QED BY <1>3, <2>4 DEF Journals
<1> QED BY <1>4, <1>5, <1>6, JournalSteps

(* Handlers of one key go on excluding each other. *)
LEMMA ExcludedStep ==
    ASSUME OInv, [ObjectNext]_objectVars, NEW i \in Invocation
    PROVE  Excluded(i)'
<1>0. ObjectTyped /\ Excluded(i) /\ TypeOK /\ i.key \in Stream
    BY RestateObjectAssumption DEF OInv, CInv, IInv
<1>1. ASSUME NEW j \in Invocation, i # j, i.key = j.key, Exclusive(i), Exclusive(j),
             Underway(i)', Underway(j)'
      PROVE  FALSE
    <2>1. CASE Underway(i) /\ Underway(j)
        BY <1>0, <1>1, <2>1 DEF Excluded
    <2>2. ASSUME NEW k \in Invocation, NEW l \in Invocation, {k, l} = {i, j}, k # l, Attempt(k), Underway(l)'
          PROVE  FALSE
        <3>1. MayRun(k)
            BY <2>2 DEF Attempt
        <3>2. made[l] = {} \/ Done(l)
            BY <1>1, <2>2, <3>1 DEF MayRun
        <3>3. ~Underway(l)
            BY <3>2 DEF Underway
        <3>4. Attempt(l)
            BY <2>2, <3>3, UnderwaySteps
        <3>5. MayRun(l)
            BY <3>4 DEF Attempt
        <3>6. worker[k] = NoTask /\ worker[l] = NoTask
            BY <2>2, <3>4, AttemptBegins
        <3>7. made'[l] = made[l]
            BY <2>2, AttemptBegins, <1>0 DEF ObjectTyped
        <3>8. made'[l] # made[l]
            <4>1. PICK t \in Task : /\ CallBegins(t, RequestOf(l))
                                    /\ made' = [made EXCEPT ![l] = @ \cup {begun + 1}]
                BY <3>4, AttemptBegins
            <4>2. begun \in Nat /\ made[l] \subseteq 1..begun
                BY <1>0, ServiceAssumption DEF TypeOK, ObjectTyped
            <4>3. made'[l] = made[l] \cup {begun + 1}
                BY <1>0, <4>1 DEF ObjectTyped
            <4> QED BY <4>2, <4>3
        <3> QED BY <3>7, <3>8
    <2> QED BY <1>1, <2>1, <2>2, UnderwaySteps
<1>2. ASSUME NEW j \in Invocation, i # j, worker'[i] # NoTask,
             NEW c \in CommitsFor(j)', c.stream = i.key, ~LeftBehind(j, c)'
      PROVE  c.from < since'[worker'[i]]
    <2>1. lost[j] = 0 \/ Journals(j, c)
        <3>1. lost[j] \in Nat /\ lost'[j] \in {lost[j], lost[j] + 1}
            <4>1. ASSUME NEW k \in Invocation, AttemptLost(k) PROVE lost'[j] \in {lost[j], lost[j] + 1}
                BY <1>0, <4>1, LostEffect DEF ObjectTyped
            <4>2. ASSUME NEW k \in Invocation, Attempt(k) PROVE lost' = lost
                BY <4>2 DEF Attempt
            <4>3. ASSUME NEW t \in Task, LocalCall(t) PROVE lost' = lost
                BY <4>3 DEF LocalCall, journals
            <4> QED BY <1>0, <4>1, <4>2, <4>3, ObjectSteps
                    DEF ObjectTyped, JournalRun, Redo, ReadState, ServiceRuns, journals
        <3>2. CASE lost'[j] = 0
            BY <3>1, <3>2
        <3>3. CASE KnowsOf(j, c)'
            <4>1. i.key = j.key
                BY <1>2, OwnedStep DEF Owned
            <4> QED BY <1>1, <1>2, <3>3, <4>1, KnewBefore
        <3> QED BY <1>2, <3>1, <3>2, <3>3 DEF LeftBehind
    (* The closure and the others' commits were there before. *)
    <2>2. ASSUME worker'[i] = worker[i], since'[worker[i]] = since[worker[i]], c \in CommitsFor(j)
          PROVE  c.from < since'[worker'[i]]
        <3>1. ~LeftBehind(j, c)
            BY <1>0, <2>1 DEF LeftBehind, KnowsOf, Journals, ObjectTyped
        <3> QED BY <1>0, <1>2, <2>2, <3>1 DEF Excluded
    <2>3. ASSUME NEW k \in Invocation, Attempt(k) PROVE c.from < since'[worker'[i]]
        <3>1. PICK t \in Task :
                  /\ CallBegins(t, RequestOf(k))
                  /\ worker' = [worker EXCEPT ![k] = t]
                  /\ made' = [made EXCEPT ![k] = @ \cup {begun + 1}]
            BY <2>3, AttemptBegins
        <3>2. /\ commits' = commits /\ ~IsWorker(t)
              /\ since' = [since EXCEPT ![t] = CurrentVersion(log, k.key)]
            BY <3>1 DEF CallBegins, RequestOf
        <3>3. c \in CommitsFor(j)
            <4>1. made'[j] \in {made[j], made[j] \cup {begun + 1}}
                BY <1>0, <3>1 DEF ObjectTyped
            <4> QED BY <1>2, <3>2, <4>1, CommitsForOld
        <3>4. CASE k = i
            <4>1. since'[worker'[i]] = CurrentVersion(log, i.key)
                BY <1>0, <3>1, <3>2, <3>4 DEF ObjectTyped, TypeOK
            <4>2. c \in commits
                BY <3>3 DEF CommitsFor
            <4>3. c.from < c.from + Len(c.events) /\ c.from + Len(c.events) <= CurrentVersion(log, i.key)
                  /\ c.from \in Nat /\ Len(c.events) \in Nat
                BY <1>2, <4>2, CommitsLie DEF OInv
            <4>4. CurrentVersion(log, i.key) \in Nat
                BY <1>0 DEF OInv, CInv, IInv, Sound
            <4> QED BY <4>1, <4>3, <4>4
        <3>5. CASE k # i
            <4>1. worker'[i] = worker[i] /\ worker[i] # t /\ worker[i] \in Task
                BY <1>0, <1>2, <3>1, <3>2, <3>5 DEF ObjectTyped, IsWorker
            <4>2. since'[worker[i]] = since[worker[i]]
                BY <1>0, <3>2, <4>1 DEF TypeOK
            <4> QED BY <2>2, <3>3, <4>1, <4>2
        <3> QED BY <3>4, <3>5
    <2>4. ASSUME NEW t \in Task, LocalCall(t) PROVE c.from < since'[worker'[i]]
        <3>1. PICK r : CallBegins(t, r) /\ UNCHANGED <<worker, made>>
            BY <2>4, LocalCallBegins
        <3>2. /\ commits' = commits /\ ~IsWorker(t)
              /\ since' = [since EXCEPT ![t] = CurrentVersion(log, r.stream)]
            BY <3>1 DEF CallBegins
        <3>3. c \in CommitsFor(j)
            BY <1>2, <3>1, <3>2, CommitsForOld
        <3>4. worker[i] # t /\ worker[i] \in Task
            BY <1>0, <1>2, <3>1, <3>2 DEF ObjectTyped, IsWorker
        <3>5. since'[worker[i]] = since[worker[i]]
            BY <1>0, <3>2, <3>4 DEF TypeOK
        <3> QED BY <2>2, <3>1, <3>3, <3>5
    <2>5. ASSUME NEW k \in Invocation, JournalRun(k) \/ Redo(k) \/ AttemptLost(k) \/ ReadState(k)
          PROVE  c.from < since'[worker'[i]]
        <3>1. UNCHANGED <<since, commits, made>>
            BY <2>5 DEF JournalRun, Redo, AttemptLost, ReadState, vars
        <3>2. worker' \in {worker, [worker EXCEPT ![k] = NoTask]}
            BY <2>5 DEF JournalRun, Redo, AttemptLost, ReadState
        <3>3. worker'[i] = worker[i]
            BY <1>0, <1>2, <3>2 DEF ObjectTyped
        <3>4. c \in CommitsFor(j)
            BY <1>2, <3>1, CommitsForOld
        <3> QED BY <2>2, <3>1, <3>3, <3>4
    <2>6. CASE ServiceRuns
        <3>1. UNCHANGED <<since, worker, made>>
            BY <2>6 DEF ServiceRuns, journals
        <3>2. CASE c \in CommitsFor(j)
            BY <2>2, <3>1, <3>2
        <3>3. ASSUME NEW t \in Task, AppendEvents(t), c = CommitMade(t), call[t] \in made[j]
              PROVE  FALSE
            <4>0. lost[j] = 0
                BY <2>1, <3>3, JournaledBefore
            <4>1. worker[j] = t
                BY <4>0, <3>3, NothingLost DEF AppendEvents
            <4>2. worker[i] # NoTask /\ worker[j] # NoTask
                BY <1>2, <3>1, <4>1, RestateObjectAssumption
            <4>3. Underway(i) /\ Underway(j) /\ Exclusive(i) /\ Exclusive(j)
                BY <4>2, WorkerUnderway
            <4>4. request[t] = RequestOf(j)
                BY <3>3 DEF OInv, Owned
            <4>5. c.stream = j.key
                BY <3>3, <4>4 DEF CommitMade, StreamOf, RequestOf
            <4> QED BY <1>0, <1>2, <4>3, <4>5 DEF Excluded
        <3>4. CASE commits' = commits
            BY <1>2, <2>2, <3>1, <3>4, CommitsForOld
        <3> QED BY <1>2, <2>6, <3>1, <3>2, <3>3, <3>4, CommitsForNew DEF ServiceRuns
    <2> QED BY <2>3, <2>4, <2>5, <2>6, ObjectSteps
<1> QED BY <1>1, <1>2 DEF Excluded, Exclusive

-----------------------------------------------------------------------------
(* The theorems. *)

(* The two halves of the induction. *)
LEMMA InitOInv == ObjectInit => OInv
<1> SUFFICES ASSUME ObjectInit PROVE OInv
    OBVIOUS
<1>1. CInv
    BY InitCInv DEF ObjectInit
<1>2. /\ commits = {} /\ pc = [t \in Task |-> "idle"] /\ call = [t \in Task |-> 0] /\ begun = 0
      /\ journal = [i \in Invocation |-> <<>>] /\ worker = [i \in Invocation |-> NoTask]
      /\ lost = [i \in Invocation |-> 0] /\ made = [i \in Invocation |-> {}] /\ faults = 0
    BY DEF ObjectInit, Init
<1>3. ObjectTyped
    BY <1>2, RestateObjectAssumption DEF ObjectTyped
<1>4. ASSUME NEW i \in Invocation
      PROVE  Journaled(i) /\ Owned(i) /\ Accounted(i) /\ Kept(i) /\ ReadsKept(i) /\ Excluded(i)
    <2>1. CommitsFor(i) = {} /\ journal[i] = <<>> /\ worker[i] = NoTask /\ made[i] = {} /\ lost[i] = 0
        BY <1>2 DEF CommitsFor
    <2>2. AccountedBy(i, {}, 0)
        BY <1>2, <2>1, FS_EmptySet DEF AccountedBy
    <2>3. Accounted(i)
        BY <2>2, ServiceAssumption DEF Accounted
    <2>4. Journaled(i) /\ Owned(i) /\ Kept(i) /\ ReadsKept(i) /\ Excluded(i)
        BY <1>2, <2>1 DEF Journaled, Owned, Kept, Wrote, ReadsKept, Excluded, Underway
    <2> QED BY <2>3, <2>4
<1> QED BY <1>1, <1>3, <1>4 DEF OInv

LEMMA StepOInv == OInv /\ [ObjectNext]_objectVars => OInv'
<1> SUFFICES ASSUME OInv, [ObjectNext]_objectVars PROVE OInv'
    OBVIOUS
<1>1. CInv'
    BY ObjectStep, StepCInv DEF OInv
<1>2. ObjectTyped'
    BY ObjectTypedStep
<1>3. \A i \in Invocation : Journaled(i)' /\ Owned(i)' /\ Accounted(i)'
    BY JournaledStep, OwnedStep, AccountedStep
<1>4. \A i \in Invocation : Kept(i)' /\ ReadsKept(i)' /\ Excluded(i)'
    BY KeptStep, ReadsKeptStep, ExcludedStep
<1> QED BY <1>1, <1>2, <1>3, <1>4 DEF OInv

(* In every state each call belongs to one invocation, each commit of an   *)
(* invocation is that of its open closure, of its journaled one or of a    *)
(* lost attempt, and handlers of one key exclude each other                *)
(* (execute_command and read_state under ctx.run).                         *)
THEOREM ObjectInvariance == ObjectSpec => []OInv
BY InitOInv, StepOInv, PTL DEF ObjectSpec

(* Journals hold what the handlers' closures return, in their order, and a *)
(* closure is open only in an invocation that has not ended.               *)
THEOREM ObjectTypeCorrect == ObjectSpec => []ObjectTypeOK
<1>1. OInv => ObjectTypeOK
    <2> SUFFICES ASSUME OInv PROVE ObjectTypeOK
        OBVIOUS
    <2>1. TypeOK /\ ObjectTyped
        BY DEF OInv, CInv, IInv
    <2>2. ASSUME NEW i \in Invocation
          PROVE  /\ Len(journal[i]) <= Len(Runs(i))
                 /\ \A k \in DOMAIN journal[i] :
                       \/ Runs(i)[k] = "write" /\ journal[i][k].tag = "Ok"
                       \/ Runs(i)[k] = "write" /\ IsTerminal(journal[i][k]) /\ k = Len(journal[i])
                       \/ Runs(i)[k] = "read" /\ journal[i][k].tag = "Read"
                          /\ journal[i][k].seen \in Rendered
        <3> DEFINE Fits(entries) ==
                /\ Len(entries) <= Len(Runs(i))
                /\ \A k \in DOMAIN entries :
                      \/ Runs(i)[k] = "write" /\ entries[k].tag = "Ok"
                      \/ Runs(i)[k] = "write" /\ IsTerminal(entries[k]) /\ k = Len(entries)
                      \/ Runs(i)[k] = "read" /\ entries[k].tag = "Read" /\ entries[k].seen \in Rendered
        <3>1. Fits(<<>>)
            BY RunsIs
        <3>2. ASSUME NEW w \in WriteEntry, i.handler # "get"
              PROVE  Fits(<<w>>)
            <4>1. w.tag = "Ok" \/ IsTerminal(w)
                BY EntryIs DEF IsTerminal
            <4>2. Len(<<w>>) = 1 /\ DOMAIN <<w>> = {1} /\ <<w>>[1] = w
                OBVIOUS
            <4> QED BY <3>2, <4>1, <4>2, RunsIs
        <3>3. ASSUME NEW w \in WriteEntry, NEW r \in ReadEntry, i.handler = "apply", w.tag = "Ok"
              PROVE  Fits(<<w, r>>)
            <4>1. Len(<<w, r>>) = 2 /\ DOMAIN <<w, r>> = {1, 2} /\ <<w, r>>[1] = w /\ <<w, r>>[2] = r
                OBVIOUS
            <4> QED BY <3>3, <4>1, RunsIs, EntryIs
        <3>4. ASSUME NEW r \in ReadEntry, i.handler = "get"
              PROVE  Fits(<<r>>)
            <4>1. Len(<<r>>) = 1 /\ DOMAIN <<r>> = {1} /\ <<r>>[1] = r
                OBVIOUS
            <4> QED BY <3>4, <4>1, RunsIs, EntryIs
        <3> HIDE DEF Fits
        <3>5. Fits(journal[i])
            BY <3>1, <3>2, <3>3, <3>4 DEF OInv, Journaled
        <3> QED BY <3>5 DEF Fits
    <2>3. ASSUME NEW i \in Invocation, worker[i] # NoTask
          PROVE  ~Done(i) /\ call[worker[i]] \in made[i]
        BY <2>3, DoneIs DEF OInv, Owned
    <2>4. lost \in [Invocation -> 0..MaxFaults]
        BY <2>1, RestateObjectAssumption DEF ObjectTyped
    <2> QED BY <2>1, <2>2, <2>3, <2>4 DEF ObjectTypeOK, ObjectTyped
<1> QED BY <1>1, ObjectInvariance, PTL

(* The commits of an invocation are no more than their calls. *)
LEMMA CommitsCounted ==
    ASSUME OInv, NEW i \in Invocation, NEW calls, IsFiniteSet(calls),
           \A c \in CommitsFor(i) : c.call \in calls
    PROVE  /\ Cardinality(CommitsFor(i)) \in Nat
           /\ Cardinality(CommitsFor(i)) <= Cardinality(calls)
<1> DEFINE f == [c \in CommitsFor(i) |-> c.call]
<1>1. f \in [CommitsFor(i) -> calls]
    OBVIOUS
<1>2. \A c, d \in CommitsFor(i) : f[c] = f[d] => c = d
    BY DEF CommitsFor, OInv, CInv, Numbered
<1>3. f \in Injection(CommitsFor(i), calls)
    BY <1>1, <1>2 DEF Injection, IsInjective
<1> QED BY <1>3, FS_Injection, FS_CardinalityType

(* However often Restate runs an invocation again, and whatever fails, is  *)
(* dropped or conflicts meanwhile, its command is appended at most once    *)
(* more than attempts of it were lost.                                     *)
THEOREM AppendsAreBounded == ObjectSpec => []AppendsBounded
<1>1. OInv => AppendsBounded
    <2> SUFFICES ASSUME OInv, NEW i \in Invocation
                 PROVE  Cardinality(CommitsFor(i)) <= 1 + lost[i]
        BY DEF AppendsBounded
    <2>1. PICK gone \in SUBSET made[i], own \in 0..MaxCalls : AccountedBy(i, gone, own)
        BY DEF OInv, Accounted
    <2>2. PICK calls : calls = gone \cup {own}
        OBVIOUS
    <2>3. /\ IsFiniteSet(gone) /\ Cardinality(gone) <= lost[i]
          /\ Cardinality(gone) \in Nat /\ lost[i] \in Nat
        BY <2>1, FS_CardinalityType DEF AccountedBy, OInv, ObjectTyped
    <2>4. IsFiniteSet(calls) /\ Cardinality(calls) \in {Cardinality(gone), Cardinality(gone) + 1}
        BY <2>2, <2>3, FS_AddElement
    <2>5. \A c \in CommitsFor(i) : c.call \in calls
        BY <2>1, <2>2 DEF AccountedBy
    <2> QED BY <2>3, <2>4, <2>5, CommitsCounted
<1> QED BY <1>1, ObjectInvariance, PTL

(* The journal an invocation goes on from is right about the log: what it  *)
(* says was written is there, and where it says that nothing was, only     *)
(* lost attempts wrote.                                                    *)
THEOREM JournalTellsTruth == ObjectSpec => []JournalTells
<1>1. OInv => JournalTells
    <2> SUFFICES ASSUME OInv, NEW i \in Invocation, journal[i] # <<>>, Runs(i)[1] = "write"
                 PROVE  LET entry == journal[i][1]
                        IN IF entry.events # <<>>
                           THEN \E c \in CommitsFor(i) :
                                   /\ entry.events = NumberedFrom(c.stream, c.from, c.events)
                                   /\ c.command = i.command
                           ELSE Cardinality(CommitsFor(i)) <= lost[i]
        BY DEF JournalTells
    <2>1. i.handler # "get"
        BY RunsIs
    <2>2. CASE journal[i][1].events # <<>>
        BY <2>1, <2>2 DEF OInv, Kept, Wrote, Owned
    <2>3. CASE journal[i][1].events = <<>>
        <3>1. PICK gone \in SUBSET made[i], own \in 0..MaxCalls : AccountedBy(i, gone, own)
            BY DEF OInv, Accounted
        <3>2. own = 0
            <4>1. worker[i] = NoTask
                BY DEF OInv, Owned
            <4> QED BY <2>3, <3>1, <4>1 DEF AccountedBy, Wrote
        <3>3. \A c \in CommitsFor(i) : c.call \in gone
            <4>1. \A c \in commits : c.call # 0
                BY DEF OInv, CInv, Numbered
            <4> QED BY <3>1, <3>2, <4>1 DEF AccountedBy, CommitsFor
        <3>4. /\ IsFiniteSet(gone) /\ Cardinality(gone) <= lost[i]
              /\ Cardinality(gone) \in Nat /\ lost[i] \in Nat
            BY <3>1, FS_CardinalityType DEF AccountedBy, OInv, ObjectTyped
        <3>5. Cardinality(CommitsFor(i)) <= lost[i]
            BY <3>3, <3>4, CommitsCounted
        <3> QED BY <2>3, <3>5
    <2> QED BY <2>2, <2>3
<1> QED BY <1>1, ObjectInvariance, PTL

(* What a handler answers with is a state its stream went through, not     *)
(* before what the handler itself has written.                             *)
THEOREM ReadsReflectWrites == ObjectSpec => []ReadsSeeWrites
<1>1. OInv => ReadsSeeWrites
    <2> SUFFICES ASSUME OInv, NEW i \in Invocation, NEW k \in DOMAIN journal[i], Runs(i)[k] = "read"
                 PROVE  /\ RenderedAt(i.key, journal[i][k].seen)
                        /\ \A j \in 1..(k - 1) : \A n \in DOMAIN journal[i][j].events :
                              journal[i][j].events[n].version <= journal[i][k].seen.version
        BY DEF ReadsSeeWrites
    <2>1. Journaled(i) /\ ReadsKept(i)
        BY DEF OInv
    <2>2. journal[i][k].tag = "Read" /\ (i.handler = "get" => k = 1) /\ (i.handler # "get" => k = 2)
        BY <2>1, RunsIs, EntryIs DEF Journaled
    <2>3. \A j \in 1..(k - 1) : j = 1 /\ i.handler # "get"
        BY <2>2
    <2> QED BY <2>1, <2>2, <2>3 DEF ReadsKept
<1> QED BY <1>1, ObjectInvariance, PTL

(* Handlers of one object never cost each other a conflict: who won the    *)
(* race was an in-process caller or an attempt that had been lost.         *)
THEOREM ConflictsComeFromOutside == ObjectSpec => []ConflictsFromOutside
<1>1. OInv => ConflictsFromOutside
    <2> SUFFICES ASSUME OInv, NEW i \in Invocation, Returned(i), reply[worker[i]] = Conflict
                 PROVE  \E c \in RivalsOf(worker[i]) : Outside(c)
        BY DEF ConflictsFromOutside
    <2>1. PICK t \in Task : t = worker[i]
        BY DEF Returned, OInv, ObjectTyped
    <2>2. worker[i] # NoTask /\ call[t] \in made[i] /\ request[t] = RequestOf(i)
        BY <2>1 DEF Returned, OInv, Owned
    <2>3. RivalsOf(t) # {}
        <3>1. Cardinality(RivalsOf(t)) >= attempts[t] + 1 /\ attempts[t] \in Nat
            BY <2>1, ServiceAssumption DEF OInv, CInv, ConflictsHaveRivals, IInv, TypeOK
        <3> QED BY <3>1, FS_EmptySet
    <2>4. PICK c \in RivalsOf(t) : TRUE
        BY <2>3
    <2>5. c \in commits /\ c.stream = i.key /\ c.from >= since[t] /\ c.call # call[t]
        BY <2>2, <2>4 DEF RivalsOf, StreamOf, RequestOf
    <2>6. ASSUME NEW j \in Invocation, c.call \in made[j], ~LeftBehind(j, c) PROVE FALSE
        <3>1. c \in CommitsFor(j)
            BY <2>5, <2>6 DEF CommitsFor
        <3>2. CASE j = i
            <4>1. lost[i] = 0 \/ KnowsOf(i, c)
                BY <2>6, <3>2 DEF LeftBehind, OInv, ObjectTyped
            <4>2. ~KnowsOf(i, c)
                BY <2>1, <2>2, <2>5 DEF KnowsOf, OInv, Owned
            <4> QED BY <2>1, <2>2, <2>5, <3>1, <3>2, <4>1, <4>2, NothingLost
        <3>3. CASE j # i
            <4>1. c.from < since[t]
                BY <2>1, <2>2, <2>5, <2>6, <3>1, <3>3 DEF OInv, Excluded
            <4>2. c.from \in Nat /\ since[t] \in Nat
                BY <2>5, CommitsLie DEF OInv, CInv, IInv, TypeOK
            <4> QED BY <2>5, <4>1, <4>2
        <3> QED BY <3>2, <3>3
    <2> QED BY <2>1, <2>4, <2>6 DEF Outside
<1> QED BY <1>1, ObjectInvariance, PTL

-----------------------------------------------------------------------------
(* The aggregates of the examples. *)

(* Their handlers decide on one event, or reject. *)
DecidesOnOne ==
    \A command \in Command : \A history, events :
        Ok(events) \in Handle(command, history) => \E event : events = <<event>>

(* So each event in a stream was decided on exactly what is before it. *)
LEMMA DecidedWhereItStands ==
    ASSUME DecidesOnOne, IInv, NEW s \in Stream, NEW v \in 1..CurrentVersion(log, s)
    PROVE  \E command \in Command :
              Ok(<<History(log, s)[v]>>) \in Handle(command, PrefixAt(s, v - 1))
<1> DEFINE h == History(log, s)
<1>1. h \in Seq(Payload) /\ Len(h) = CurrentVersion(log, s) /\ CurrentVersion(log, s) \in Nat
    BY HistoryIs DEF IInv, Sound
<1>2. PICK c \in commits : Covers(c, s, v)
    BY DEF IInv, Serializable
<1>3. c.stream = s /\ c.command \in Command /\ c.from \in Nat /\ c.events \in Seq(Payload)
    BY <1>2 DEF IInv, TypeOK, Commit, Covers
<1>4. /\ Ok(c.events) \in Handle(c.command, SubSeq(h, 1, c.from))
      /\ c.events = SubSeq(h, c.from + 1, c.from + Len(c.events))
      /\ c.from < v /\ v <= c.from + Len(c.events)
    BY <1>2, <1>3 DEF IInv, Serializable, DecidedIn, Covers
<1>5. PICK event : c.events = <<event>>
    BY <1>3, <1>4 DEF DecidesOnOne
<1>6. Len(c.events) = 1 /\ c.events[1] = event
    BY <1>5
<1>7. v = c.from + 1 /\ c.from = v - 1
    BY <1>3, <1>4, <1>6
<1>8. SubSeq(h, v, v)[1] = h[v]
    <2>1. \A i \in v..v : h[i] \in Payload
        BY <1>1, ElementOfSeq
    <2> QED BY <1>1, <2>1, SubSeqProperties
<1>9. c.events = <<h[v]>>
    BY <1>4, <1>5, <1>6, <1>7, <1>8
<1> QED BY <1>3, <1>4, <1>7, <1>9 DEF PrefixAt

-----------------------------------------------------------------------------
(* The bank account of examples/bank-account. *)

(* Service is given the account's commands, its events and its handlers. *)
ServesAccounts ==
    /\ Payload = AccountEvent
    /\ Command = AccountCommand
    /\ \A command, history : Handle(command, history) = AccountHandle(command, history)

(* What the account is asked. *)
LEMMA AccountCommands ==
    ASSUME NEW command \in AccountCommand
    PROVE  /\ command.amount \in Nat
           /\ command.kind \in {"Open", "Deposit", "Withdraw", "Close"}
<1>1. \A m : m \in 0..(Modulus - 1) => m \in Nat
    OBVIOUS
<1>2. \A m \in Amount : m \in Nat
    BY <1>1, BankAccountAssumption
<1>3. CASE command \in [kind : {"Open", "Close"}, amount : {0}]
    BY <1>3
<1>4. CASE command \in [kind : {"Deposit", "Withdraw"}, amount : Amount]
    <2>1. command.amount \in Amount /\ command.kind \in {"Deposit", "Withdraw"}
        BY <1>4
    <2>2. command.amount \in Nat
        BY <1>2, <2>1
    <2> QED BY <2>1, <2>2
<1> QED BY <1>3, <1>4 DEF AccountCommand

(* A handler of the account that accepts records one event, and that event *)
(* is legal in the state it was decided on.                                *)
LEMMA AcceptedIsLegal ==
    ASSUME NEW command \in AccountCommand, NEW history, NEW events,
           Ok(events) \in AccountHandle(command, history)
    PROVE  \E event : events = <<event>> /\ Legal(Account(history), event)
<1>0. PICK account : account = Account(history)
    OBVIOUS
<1>1. Ok(events) # Rejected
    BY DEF Ok, Rejected, Err
<1>2. /\ Ok(events).events = events
      /\ \A kind, n : Event(kind, n).events = <<[kind |-> kind, amount |-> n]>>
    BY DEF Ok, Event
<1>3. PICK amount \in Nat : amount = command.amount
    BY AccountCommands
<1>4. command.kind \in {"Open", "Deposit", "Withdraw", "Close"}
    BY AccountCommands
<1>5. CASE command.kind = "Open"
    <2>1. Ok(events) = Open(account)
        BY <1>0, <1>5 DEF AccountHandle
    <2>2. ~account.open /\ Ok(events) = Event("Opened", 0)
        BY <1>1, <2>1 DEF Open, EventIf
    <2>3. PICK event : event = [kind |-> "Opened", amount |-> 0]
        OBVIOUS
    <2>4. events = <<event>>
        BY <1>2, <2>2, <2>3
    <2>5. event.kind = "Opened" /\ event.amount = 0
        BY <2>3
    <2>6. Legal(account, event)
        BY <2>2, <2>5 DEF Legal
    <2> QED BY <1>0, <2>4, <2>6
<1>6. CASE command.kind = "Deposit"
    <2>1. Ok(events) = Deposit(account, amount)
        BY <1>0, <1>3, <1>6 DEF AccountHandle
    <2>2. account.open /\ amount # 0 /\ Ok(events) = Event("Deposited", amount)
        BY <1>1, <2>1 DEF Deposit, EventIf
    <2>3. PICK event : event = [kind |-> "Deposited", amount |-> amount]
        OBVIOUS
    <2>4. events = <<event>>
        BY <1>2, <2>2, <2>3
    <2>5. event.kind = "Deposited" /\ event.amount = amount
        BY <2>3
    <2>6. Legal(account, event)
        BY <2>2, <2>5 DEF Legal
    <2> QED BY <1>0, <2>4, <2>6
<1>7. CASE command.kind = "Withdraw"
    <2>1. Ok(events) = Withdraw(account, amount)
        BY <1>0, <1>3, <1>7 DEF AccountHandle
    <2>2. /\ account.open /\ amount # 0 /\ amount <= account.balance
          /\ Ok(events) = Event("Withdrawn", amount)
        BY <1>1, <2>1 DEF Withdraw, EventIf
    <2>3. PICK event : event = [kind |-> "Withdrawn", amount |-> amount]
        OBVIOUS
    <2>4. events = <<event>>
        BY <1>2, <2>2, <2>3
    <2>5. event.kind = "Withdrawn" /\ event.amount = amount
        BY <2>3
    <2>6. Legal(account, event)
        BY <2>2, <2>5 DEF Legal
    <2> QED BY <1>0, <2>4, <2>6
<1>8. CASE command.kind = "Close"
    <2>1. Ok(events) = Close(account)
        BY <1>0, <1>8 DEF AccountHandle
    <2>2. account.open /\ account.balance = 0 /\ Ok(events) = Event("Closed", 0)
        BY <1>1, <2>1 DEF Close, EventIf
    <2>3. PICK event : event = [kind |-> "Closed", amount |-> 0]
        OBVIOUS
    <2>4. events = <<event>>
        BY <1>2, <2>2, <2>3
    <2>5. event.kind = "Closed" /\ event.amount = 0
        BY <2>3
    <2>6. Legal(account, event)
        BY <2>2, <2>5 DEF Legal
    <2> QED BY <1>0, <2>4, <2>6
<1> QED BY <1>4, <1>5, <1>6, <1>7, <1>8

(* An event in a stream is legal where it stands. *)
LEMMA SerializableIsLegal ==
    ASSUME ServesAccounts, IInv
    PROVE  RulesHold
<1> SUFFICES ASSUME NEW s \in Stream, NEW v \in 1..CurrentVersion(log, s)
             PROVE  Legal(Account(PrefixAt(s, v - 1)), History(log, s)[v])
    BY DEF RulesHold
<1>1. DecidesOnOne
    BY AcceptedIsLegal DEF ServesAccounts, DecidesOnOne
<1>2. PICK command \in Command :
          Ok(<<History(log, s)[v]>>) \in Handle(command, PrefixAt(s, v - 1))
    BY <1>1, DecidedWhereItStands
<1>3. PICK event : /\ <<History(log, s)[v]>> = <<event>>
                   /\ Legal(Account(PrefixAt(s, v - 1)), event)
    BY <1>2, AcceptedIsLegal DEF ServesAccounts
<1> QED BY <1>3

(* The rules of the business hold of what is recorded, for any number of   *)
(* accounts, callers, retries and amounts of any width: no account is      *)
(* overdrawn, opened twice, closed with money in it or used while it is    *)
(* not open.                                                               *)
THEOREM AccountsKeepRules ==
    ASSUME ServesAccounts
    PROVE  Spec => []RulesHold
<1>1. IInv => RulesHold
    BY SerializableIsLegal
<1> QED BY <1>1, Invariance, PTL

-----------------------------------------------------------------------------
(* The bank's ledger, which sums up the global log, and the accounts, each *)
(* of which sums up its own stream.                                        *)

Posting == INSTANCE FoldProofs WITH Op <- Apply
Summing == INSTANCE FoldProofs WITH Op <- LedgerApply

AccountState == [open : BOOLEAN, balance : 0..(Modulus - 1)]
LedgerState  == [accounts_opened : Nat, total_balance : Int]

(* What an event adds to the money there is. *)
Moved(event) ==
    CASE event.kind = "Deposited" -> event.amount
      [] event.kind = "Withdrawn" -> -event.amount
      [] event.kind \in {"Opened", "Closed"} -> 0

(* What an account was given and has not paid out: its balance, and what   *)
(* its overflows have lost of it.                                          *)
OverflowsOf(h) ==
    {v \in 1..Len(h) : /\ h[v].kind = "Deposited"
                       /\ Account(SubSeq(h, 1, v - 1)).balance + h[v].amount >= Modulus}

Held(h) == Account(h).balance + Modulus * Cardinality(OverflowsOf(h))

HeldIn(l)   == [s \in Stream |-> Held(History(l, s))]
OpenIn(l)   == {s \in Stream : Account(History(l, s)).open}
LedgerOf(l) == FoldLeft(LedgerApply, NoLedger, Payloads(l))

(* LedgerHoldsTotal, of a log. *)
Balanced(l) ==
    /\ LedgerOf(l).total_balance = Summing!Total(HeldIn(l))
    /\ LedgerOf(l).accounts_opened >= Cardinality(OpenIn(l))

(* What an account records. *)
LEMMA AccountEvents ==
    ASSUME NEW event \in AccountEvent
    PROVE  /\ event.amount \in Nat /\ event.amount < Modulus
           /\ event.kind \in {"Opened", "Deposited", "Withdrawn", "Closed"}
<1>1. Modulus \in Nat \ {0}
    BY BankAccountAssumption
<1>2. \A m \in Amount : m \in Nat /\ m < Modulus
    BY <1>1, BankAccountAssumption
<1>3. CASE event \in [kind : {"Opened", "Closed"}, amount : {0}]
    BY <1>1, <1>3
<1>4. CASE event \in [kind : {"Deposited", "Withdrawn"}, amount : Amount]
    <2>1. event.amount \in Amount /\ event.kind \in {"Deposited", "Withdrawn"}
        BY <1>4
    <2> QED BY <1>2, <2>1
<1> QED BY <1>3, <1>4 DEF AccountEvent

(* What apply makes of an account. *)
LEMMA AccountApply ==
    ASSUME NEW account \in AccountState, NEW event \in AccountEvent
    PROVE  /\ Apply(account, event) \in AccountState
           /\ event.kind = "Opened" => Apply(account, event) = [account EXCEPT !.open = TRUE]
           /\ event.kind = "Closed" => Apply(account, event) = [account EXCEPT !.open = FALSE]
           /\ event.kind \in {"Deposited", "Withdrawn"} => Apply(account, event).open = account.open
           /\ event.kind = "Deposited" =>
                Apply(account, event).balance =
                    IF account.balance + event.amount >= Modulus
                    THEN account.balance + event.amount - Modulus
                    ELSE account.balance + event.amount
           /\ event.kind = "Withdrawn" /\ event.amount <= account.balance =>
                Apply(account, event).balance = account.balance - event.amount
<1>1. PICK m \in Nat \ {0} : m = Modulus
    BY BankAccountAssumption
<1>2. PICK a \in 0..(m - 1) : a = event.amount
    BY <1>1, AccountEvents
<1>3. PICK b \in 0..(m - 1) : b = account.balance
    BY <1>1 DEF AccountState
<1>4. event.kind \in {"Opened", "Deposited", "Withdrawn", "Closed"}
    BY AccountEvents
<1>5. (b + a) % m \in 0..(m - 1) /\ (b - a) % m \in 0..(m - 1)
    OBVIOUS
<1>6. (b + a) % m = IF b + a >= m THEN b + a - m ELSE b + a
    OBVIOUS
<1>7. a <= b => (b - a) % m = b - a
    OBVIOUS
<1>8. CASE event.kind = "Opened"
    <2>1. Apply(account, event) = [account EXCEPT !.open = TRUE]
        BY <1>8 DEF Apply
    <2> QED BY <1>8, <2>1 DEF AccountState
<1>9. CASE event.kind = "Closed"
    <2>1. Apply(account, event) = [account EXCEPT !.open = FALSE]
        BY <1>9 DEF Apply
    <2> QED BY <1>9, <2>1 DEF AccountState
<1>10. CASE event.kind = "Deposited"
    <2>1. Apply(account, event) = [account EXCEPT !.balance = (b + a) % m]
        BY <1>1, <1>2, <1>3, <1>10 DEF Apply
    <2>2. Apply(account, event).balance = (b + a) % m /\ Apply(account, event).open = account.open
        BY <2>1 DEF AccountState
    <2>3. Apply(account, event) \in AccountState
        BY <1>1, <1>5, <2>1 DEF AccountState
    <2> QED BY <1>1, <1>2, <1>3, <1>6, <1>10, <2>2, <2>3
<1>11. CASE event.kind = "Withdrawn"
    <2>1. Apply(account, event) = [account EXCEPT !.balance = (b - a) % m]
        BY <1>1, <1>2, <1>3, <1>11 DEF Apply
    <2>2. Apply(account, event).balance = (b - a) % m /\ Apply(account, event).open = account.open
        BY <2>1 DEF AccountState
    <2>3. Apply(account, event) \in AccountState
        BY <1>1, <1>5, <2>1 DEF AccountState
    <2> QED BY <1>1, <1>2, <1>3, <1>7, <1>11, <2>2, <2>3
<1> QED BY <1>4, <1>8, <1>9, <1>10, <1>11

(* An account's state goes on by one event. *)
LEMMA AccountIs ==
    ASSUME NEW h \in Seq(AccountEvent)
    PROVE  /\ Account(h) \in AccountState
           /\ \A e \in AccountEvent : Account(h \o <<e>>) = Apply(Account(h), e)
<1> DEFINE zero == [open |-> FALSE, balance |-> 0]
<1>1. ASSUME NEW g PROVE Account(g) = Posting!Result(zero, g)
    BY DEF Account, FoldLeft, MapThenFoldSet, Max,
           Posting!Result, Posting!FoldLeft, Posting!MapThenFoldSet, Posting!Max
<1>2. \A x \in AccountState, e \in AccountEvent : Apply(x, e) \in AccountState
    BY AccountApply
<1>3. zero \in AccountState
    BY BankAccountAssumption DEF AccountState
<1> HIDE DEF zero
<1>4. Posting!Result(zero, h) \in AccountState
    BY <1>2, <1>3, Posting!FoldKeeps
<1>5. ASSUME NEW e \in AccountEvent
      PROVE  Posting!Result(zero, h \o <<e>>) = Apply(Posting!Result(zero, h), e)
    BY Posting!FoldAppend
<1> QED BY <1>1, <1>4, <1>5

(* Of no events, the account is the default. *)
LEMMA NoEvents == Account(<<>>) = [open |-> FALSE, balance |-> 0]
<1>1. Account(<<>>) = Posting!Result([open |-> FALSE, balance |-> 0], <<>>)
    BY DEF Account, FoldLeft, MapThenFoldSet, Max,
           Posting!Result, Posting!FoldLeft, Posting!MapThenFoldSet, Posting!Max
<1> QED BY <1>1, Posting!FoldEmpty

(* What is counted of a ledger. *)
LEMMA LedgerIs ==
    ASSUME NEW h \in Seq(AccountEvent)
    PROVE  /\ FoldLeft(LedgerApply, NoLedger, h) \in LedgerState
           /\ \A e \in AccountEvent :
                /\ FoldLeft(LedgerApply, NoLedger, h \o <<e>>).total_balance
                      = FoldLeft(LedgerApply, NoLedger, h).total_balance + Moved(e)
                /\ FoldLeft(LedgerApply, NoLedger, h \o <<e>>).accounts_opened
                      = FoldLeft(LedgerApply, NoLedger, h).accounts_opened
                            + (IF e.kind = "Opened" THEN 1 ELSE 0)
<1>1. ASSUME NEW g PROVE FoldLeft(LedgerApply, NoLedger, g) = Summing!Result(NoLedger, g)
    BY DEF FoldLeft, MapThenFoldSet, Max,
           Summing!Result, Summing!FoldLeft, Summing!MapThenFoldSet, Summing!Max
<1>2. ASSUME NEW x \in LedgerState, NEW e \in AccountEvent
      PROVE  /\ LedgerApply(x, e) \in LedgerState
             /\ LedgerApply(x, e).total_balance = x.total_balance + Moved(e)
             /\ LedgerApply(x, e).accounts_opened
                    = x.accounts_opened + (IF e.kind = "Opened" THEN 1 ELSE 0)
    <2>1. e.amount \in Nat /\ e.kind \in {"Opened", "Deposited", "Withdrawn", "Closed"}
        BY AccountEvents
    <2>2. x.total_balance \in Int /\ x.accounts_opened \in Nat
        BY DEF LedgerState
    <2>3. CASE e.kind = "Opened"
        BY <2>1, <2>2, <2>3 DEF LedgerApply, Moved, LedgerState
    <2>4. CASE e.kind = "Deposited"
        BY <2>1, <2>2, <2>4 DEF LedgerApply, Moved, LedgerState
    <2>5. CASE e.kind = "Withdrawn"
        BY <2>1, <2>2, <2>5 DEF LedgerApply, Moved, LedgerState
    <2>6. CASE e.kind = "Closed"
        BY <2>1, <2>2, <2>6 DEF LedgerApply, Moved, LedgerState
    <2> QED BY <2>1, <2>3, <2>4, <2>5, <2>6
<1>3. NoLedger \in LedgerState
    BY DEF NoLedger, LedgerState
<1>4. \A x \in LedgerState, e \in AccountEvent : LedgerApply(x, e) \in LedgerState
    BY <1>2
<1>5. Summing!Result(NoLedger, h) \in LedgerState
    BY <1>3, <1>4, Summing!FoldKeeps
<1>6. ASSUME NEW e \in AccountEvent
      PROVE  Summing!Result(NoLedger, h \o <<e>>) = LedgerApply(Summing!Result(NoLedger, h), e)
    BY Summing!FoldAppend
<1> HIDE DEF LedgerState
<1>7. ASSUME NEW e \in AccountEvent
      PROVE  /\ Summing!Result(NoLedger, h \o <<e>>).total_balance
                    = Summing!Result(NoLedger, h).total_balance + Moved(e)
             /\ Summing!Result(NoLedger, h \o <<e>>).accounts_opened
                    = Summing!Result(NoLedger, h).accounts_opened
                          + (IF e.kind = "Opened" THEN 1 ELSE 0)
    BY <1>2, <1>5, <1>6
<1> QED BY <1>1, <1>5, <1>7

(* One more event is one more overflow, or none. *)
LEMMA OverflowsGrow ==
    ASSUME NEW h \in Seq(AccountEvent), NEW e \in AccountEvent
    PROVE  /\ Cardinality(OverflowsOf(h)) \in Nat
           /\ Cardinality(OverflowsOf(h \o <<e>>)) = Cardinality(OverflowsOf(h))
                + (IF e.kind = "Deposited" /\ Account(h).balance + e.amount >= Modulus
                   THEN 1 ELSE 0)
<1> DEFINE g == h \o <<e>>
           n == Len(h)
           Over(k, v) == /\ k[v].kind = "Deposited"
                         /\ Account(SubSeq(k, 1, v - 1)).balance + k[v].amount >= Modulus
<1>1. n \in Nat
    BY LenProperties
<1>2. <<e>> \in Seq(AccountEvent) /\ Len(<<e>>) = 1 /\ <<e>>[1] = e
    OBVIOUS
<1>3. /\ Len(g) = n + 1
      /\ \A v \in 1..(n + 1) : g[v] = IF v <= n THEN h[v] ELSE <<e>>[v - n]
    BY <1>2, ConcatProperties
<1>4. g[n + 1] = e
    BY <1>1, <1>2, <1>3
<1>5. ASSUME NEW v \in 1..(n + 1) PROVE SubSeq(g, 1, v - 1) = SubSeq(h, 1, v - 1)
    <2>1. v - 1 \in 0..Len(h) /\ 1 \in Nat \ {0}
        BY <1>1
    <2> QED BY <1>2, <2>1, SubSeqBeforeConcat
<1>6. SubSeq(g, 1, (n + 1) - 1) = h
    <2>1. n + 1 \in 1..(n + 1) /\ (n + 1) - 1 = n
        BY <1>1
    <2> QED BY <1>5, <2>1, SubSeqFull
<1> HIDE DEF g, n
<1>7. ASSUME NEW v \in 1..n PROVE Over(g, v) <=> Over(h, v)
    <2>1. v \in 1..(n + 1) /\ v <= n
        BY <1>1
    <2> QED BY <1>3, <1>5, <2>1
<1>8. Over(g, n + 1) <=> e.kind = "Deposited" /\ Account(h).balance + e.amount >= Modulus
    BY <1>4, <1>6
<1> HIDE DEF Over
<1>9. OverflowsOf(h) = {v \in 1..n : Over(h, v)} /\ OverflowsOf(g) = {v \in 1..(n + 1) : Over(g, v)}
    BY <1>3 DEF OverflowsOf, Over, n
<1>10. IsFiniteSet(OverflowsOf(h)) /\ Cardinality(OverflowsOf(h)) \in Nat
    <2>1. IsFiniteSet(1..n)
        BY <1>1, FS_Interval
    <2> QED BY <1>9, <2>1, FS_Subset, FS_CardinalityType
<1>11. \A v : v \in 1..(n + 1) <=> v \in 1..n \/ v = n + 1
    BY <1>1
<1>12. n + 1 \notin 1..n
    BY <1>1
<1>13. CASE Over(g, n + 1)
    <2>1. OverflowsOf(g) = OverflowsOf(h) \cup {n + 1} /\ n + 1 \notin OverflowsOf(h)
        BY <1>7, <1>9, <1>11, <1>12, <1>13
    <2>2. Cardinality(OverflowsOf(g)) = Cardinality(OverflowsOf(h)) + 1
        BY <1>10, <2>1, FS_AddElement
    <2> QED BY <1>8, <1>10, <1>13, <2>2 DEF g
<1>14. CASE ~Over(g, n + 1)
    <2>1. OverflowsOf(g) = OverflowsOf(h)
        BY <1>7, <1>9, <1>11, <1>14
    <2> QED BY <1>8, <1>10, <1>14, <2>1 DEF g
<1> QED BY <1>13, <1>14

(* One more event that is legal moves the money it says. *)
LEMMA HeldChanges ==
    ASSUME NEW h \in Seq(AccountEvent), NEW e \in AccountEvent, Legal(Account(h), e)
    PROVE  /\ Held(h) \in Int /\ Moved(e) \in Int
           /\ Held(h \o <<e>>) = Held(h) + Moved(e)
           /\ Account(h).open \in BOOLEAN
           /\ e.kind = "Opened" => ~Account(h).open /\ Account(h \o <<e>>).open
           /\ e.kind # "Opened" => Account(h).open \/ ~Account(h \o <<e>>).open
<1> DEFINE g == h \o <<e>>
<1>1. Account(h) \in AccountState /\ Account(g) = Apply(Account(h), e)
    BY AccountIs
<1> HIDE DEF g
<1>2. PICK account \in AccountState : account = Account(h)
    BY <1>1
<1>3. PICK m \in Nat \ {0} : m = Modulus
    BY BankAccountAssumption
<1>4. PICK b \in Nat : b = account.balance
    BY <1>2, <1>3 DEF AccountState
<1>5. PICK c \in Nat : c = Cardinality(OverflowsOf(h))
    BY OverflowsGrow
<1>6. PICK a \in Nat : a = e.amount
    BY AccountEvents
<1>7. /\ Held(h) = b + m * c
      /\ Held(g) = Apply(account, e).balance
            + m * (c + (IF e.kind = "Deposited" /\ b + a >= m THEN 1 ELSE 0))
    BY <1>1, <1>2, <1>3, <1>4, <1>5, <1>6, OverflowsGrow DEF Held, g
<1>8. m * (c + 1) = m * c + m /\ m * c \in Nat /\ c + 0 = c
    OBVIOUS
<1>9. e.kind \in {"Opened", "Deposited", "Withdrawn", "Closed"}
    BY AccountEvents
<1>10. account.open \in BOOLEAN
    BY DEF AccountState
<1>11. CASE e.kind = "Opened"
    <2>1. Apply(account, e) = [account EXCEPT !.open = TRUE] /\ ~account.open
        BY <1>2, <1>11, AccountApply DEF Legal
    <2>2. Apply(account, e).balance = b /\ Apply(account, e).open
        BY <1>4, <2>1 DEF AccountState
    <2>3. Moved(e) = 0
        BY <1>11 DEF Moved
    <2>4. Held(g) = b + m * c
        BY <1>7, <1>8, <1>11, <2>2
    <2>5. Held(g) = Held(h) + Moved(e) /\ Held(h) \in Int
        BY <1>7, <1>8, <2>3, <2>4
    <2>6. ~Account(h).open /\ Account(g).open /\ Account(h).open \in BOOLEAN
        BY <1>1, <1>2, <1>10, <2>1, <2>2
    <2>7. Moved(e) \in Int
        BY <2>3
    <2> QED BY <1>11, <2>5, <2>6, <2>7 DEF g
<1>12. CASE e.kind = "Closed"
    <2>1. Apply(account, e) = [account EXCEPT !.open = FALSE]
        BY <1>12, AccountApply
    <2>2. Apply(account, e).balance = b /\ ~Apply(account, e).open
        BY <1>4, <2>1 DEF AccountState
    <2>3. Moved(e) = 0
        BY <1>12 DEF Moved
    <2>4. Held(g) = b + m * c
        BY <1>7, <1>8, <1>12, <2>2
    <2>5. Held(g) = Held(h) + Moved(e) /\ Held(h) \in Int
        BY <1>7, <1>8, <2>3, <2>4
    <2> QED BY <1>1, <1>2, <1>10, <1>12, <2>2, <2>3, <2>5 DEF g
<1>13. CASE e.kind = "Deposited"
    <2>1. /\ Apply(account, e).balance = IF b + a >= m THEN b + a - m ELSE b + a
          /\ account.open
        BY <1>2, <1>3, <1>4, <1>6, <1>13, AccountApply DEF Legal
    <2>2. Moved(e) = a
        BY <1>6, <1>13 DEF Moved
    <2>3. CASE b + a >= m
        <3>1. Held(g) = (b + a - m) + m * (c + 1)
            BY <1>7, <1>13, <2>1, <2>3
        <3>2. Held(g) = (b + m * c) + a
            BY <1>8, <3>1
        <3> QED BY <1>2, <1>7, <1>8, <1>10, <1>13, <2>1, <2>2, <3>2 DEF g
    <2>4. CASE ~(b + a >= m)
        <3>1. Held(g) = (b + a) + m * c
            BY <1>7, <1>8, <1>13, <2>1, <2>4
        <3> QED BY <1>2, <1>7, <1>8, <1>10, <1>13, <2>1, <2>2, <3>1 DEF g
    <2> QED BY <2>3, <2>4
<1>14. CASE e.kind = "Withdrawn"
    <2>1. Apply(account, e).balance = b - a /\ account.open
        BY <1>2, <1>4, <1>6, <1>14, AccountApply DEF Legal
    <2>2. Moved(e) = -a
        BY <1>6, <1>14 DEF Moved
    <2>3. Held(g) = (b - a) + m * c
        BY <1>7, <1>8, <1>14, <2>1
    <2> QED BY <1>2, <1>7, <1>8, <1>10, <1>14, <2>1, <2>2, <2>3 DEF g
<1> QED BY <1>9, <1>11, <1>12, <1>13, <1>14

(* What is held is an integer. *)
LEMMA HeldTyped ==
    ASSUME NEW h \in Seq(AccountEvent)
    PROVE  Held(h) \in Int
<1>1. PICK account \in AccountState : account = Account(h)
    BY AccountIs
<1>2. Modulus \in Nat /\ account.balance \in Nat
    BY BankAccountAssumption DEF AccountState
<1>3. PICK e \in AccountEvent : TRUE
    <2>1. [kind |-> "Opened", amount |-> 0] \in AccountEvent
        BY DEF AccountEvent
    <2> QED BY <2>1
<1>4. Cardinality(OverflowsOf(h)) \in Nat
    BY <1>3, OverflowsGrow
<1>5. Modulus * Cardinality(OverflowsOf(h)) \in Nat
    BY <1>2, <1>4
<1> QED BY <1>1, <1>2, <1>5 DEF Held

(* The payloads of a log to which an event is appended. *)
LEMMA PayloadsAppended ==
    ASSUME NEW l, Sound(l), NEW s \in Stream, NEW e, <<e>> \in Seq(Payload)
    PROVE  /\ Payloads(Appended(l, s, <<e>>)) = Payloads(l) \o <<e>>
           /\ Payloads(l) \in Seq(Payload)
<1>0. PICK evs \in Seq(Payload) : evs = <<e>>
    OBVIOUS
<1> DEFINE k == Appended(l, s, evs)
           n == Len(l)
<1>1. Len(<<e>>) = 1 /\ <<e>>[1] = e /\ 1 \in 1..Len(<<e>>)
    OBVIOUS
<1>2. l \in Seq(StoredEvent) /\ n \in Nat
    BY LenProperties DEF Sound
<1>3. /\ k \in Seq(StoredEvent) /\ Len(k) = n + 1
      /\ \A p \in 1..n : k[p] = l[p]
      /\ k[n + 1].payload = e
    <2>1. /\ k \in Seq(StoredEvent) /\ Len(k) = n + Len(evs)
          /\ \A p \in 1..n : k[p] = l[p]
          /\ \A i \in 1..Len(evs) : k[n + i].payload = evs[i]
        BY AppendedIs
    <2> QED BY <1>0, <1>1, <2>1
<1> HIDE DEF k, n
<1>4. /\ Payloads(k) \in Seq(Payload) /\ Len(Payloads(k)) = n + 1
      /\ \A p \in 1..(n + 1) : Payloads(k)[p] = k[p].payload
    BY <1>3, PayloadsAre
<1>5. /\ Payloads(l) \in Seq(Payload) /\ Len(Payloads(l)) = n
      /\ \A p \in 1..n : Payloads(l)[p] = l[p].payload
    BY <1>2, PayloadsAre DEF n
<1>6. /\ Payloads(l) \o <<e>> \in Seq(Payload) /\ Len(Payloads(l) \o <<e>>) = n + 1
      /\ \A p \in 1..(n + 1) :
            (Payloads(l) \o <<e>>)[p] = IF p <= n THEN Payloads(l)[p] ELSE <<e>>[p - n]
    BY <1>1, <1>2, <1>5, ConcatProperties
<1>7. ASSUME NEW p \in 1..(n + 1) PROVE (Payloads(l) \o <<e>>)[p] = Payloads(k)[p]
    <2>1. CASE p <= n
        <3>1. p \in 1..n
            BY <1>2, <2>1
        <3> QED BY <1>3, <1>4, <1>5, <1>6, <2>1, <3>1
    <2>2. CASE ~(p <= n)
        <3>1. p = n + 1 /\ p - n = 1
            BY <1>2, <2>2
        <3> QED BY <1>1, <1>3, <1>4, <1>6, <2>2, <3>1
    <2> QED BY <2>1, <2>2
<1>8. Payloads(l) \o <<e>> = Payloads(k)
    BY <1>4, <1>6, <1>7, SeqEqual
<1> QED BY <1>0, <1>5, <1>8 DEF k

(* FoldProofs means the same by a finite set. *)
LEMMA SameFiniteness == \A S : Summing!IsFiniteSet(S) <=> IsFiniteSet(S)
BY DEF Summing!IsFiniteSet, IsFiniteSet

(* An event more in one account's stream is an event more on the ledger. *)
LEMMA LedgerGoesOn ==
    ASSUME IsFiniteSet(Stream), Payload = AccountEvent,
           NEW l, Sound(l), Balanced(l), NEW s \in Stream, NEW e \in AccountEvent,
           Legal(Account(History(l, s)), e)
    PROVE  Balanced(Appended(l, s, <<e>>))
<1> DEFINE k == Appended(l, s, <<e>>)
           h == History(l, s)
<1>1. <<e>> \in Seq(Payload)
    OBVIOUS
<1>2. Sound(k) /\ History(k, s) = h \o <<e>> /\ h \in Seq(AccountEvent)
    BY <1>1, AppendKeepsSound, AppendExtendsHistory, HistoryIs
<1>3. \A u \in Stream : u # s => History(k, u) = History(l, u)
    BY <1>1, AppendKeepsOtherHistories
<1>4. Payloads(k) = Payloads(l) \o <<e>> /\ Payloads(l) \in Seq(AccountEvent)
    BY <1>1, PayloadsAppended
<1>5. /\ LedgerOf(l).total_balance \in Int /\ LedgerOf(l).accounts_opened \in Nat
      /\ LedgerOf(k).total_balance = LedgerOf(l).total_balance + Moved(e)
      /\ LedgerOf(k).accounts_opened
            = LedgerOf(l).accounts_opened + (IF e.kind = "Opened" THEN 1 ELSE 0)
    BY <1>4, LedgerIs DEF LedgerOf, LedgerState
<1>6. /\ Held(h) \in Int /\ Moved(e) \in Int
      /\ Held(h \o <<e>>) = Held(h) + Moved(e)
      /\ Account(h).open \in BOOLEAN
      /\ e.kind = "Opened" => ~Account(h).open /\ Account(h \o <<e>>).open
      /\ e.kind # "Opened" => Account(h).open \/ ~Account(h \o <<e>>).open
    BY <1>2, HeldChanges
<1> HIDE DEF k
<1>7. ASSUME NEW u \in Stream
      PROVE  Held(History(l, u)) \in Int /\ Held(History(k, u)) \in Int
    <2>1. History(l, u) \in Seq(AccountEvent) /\ History(k, u) \in Seq(AccountEvent)
        BY <1>2, HistoryIs
    <2> QED BY <2>1, HeldTyped
<1>8. HeldIn(l) \in [Stream -> Int] /\ HeldIn(k) \in [Stream -> Int]
    BY <1>7 DEF HeldIn
<1>9. /\ Summing!Total(HeldIn(k)) = Summing!Total(HeldIn(l)) + (HeldIn(k)[s] - HeldIn(l)[s])
      /\ Summing!Total(HeldIn(l)) \in Int
    <2>1. \A u \in Stream \ {s} : HeldIn(l)[u] = HeldIn(k)[u]
        BY <1>3 DEF HeldIn
    <2> QED BY <1>8, <2>1, SameFiniteness, Summing!TotalChanges
<1>10. HeldIn(k)[s] - HeldIn(l)[s] = Moved(e)
    <2>1. HeldIn(k)[s] = Held(h \o <<e>>) /\ HeldIn(l)[s] = Held(h)
        BY <1>2 DEF HeldIn
    <2> QED BY <1>6, <2>1
<1>11. LedgerOf(k).total_balance = Summing!Total(HeldIn(k))
    BY <1>5, <1>6, <1>9, <1>10 DEF Balanced
<1>12. IsFiniteSet(OpenIn(l)) /\ Cardinality(OpenIn(l)) \in Nat
       /\ IsFiniteSet(OpenIn(k)) /\ Cardinality(OpenIn(k)) \in Nat
    BY FS_Subset, FS_CardinalityType DEF OpenIn
<1>13. \A u \in Stream : u # s => (u \in OpenIn(k) <=> u \in OpenIn(l))
    BY <1>3 DEF OpenIn
<1>14. /\ s \in OpenIn(l) <=> Account(h).open
       /\ s \in OpenIn(k) <=> Account(h \o <<e>>).open
    BY <1>2 DEF OpenIn
<1>15. OpenIn(k) \subseteq Stream /\ OpenIn(l) \subseteq Stream
    BY DEF OpenIn
<1>16. LedgerOf(k).accounts_opened >= Cardinality(OpenIn(k))
    <2>1. CASE e.kind = "Opened"
        <3>1. OpenIn(k) = OpenIn(l) \cup {s} /\ s \notin OpenIn(l)
            BY <1>6, <1>13, <1>14, <1>15, <2>1
        <3>2. Cardinality(OpenIn(k)) = Cardinality(OpenIn(l)) + 1
            BY <1>12, <3>1, FS_AddElement
        <3> QED BY <1>5, <1>12, <2>1, <3>2 DEF Balanced
    <2>2. CASE e.kind # "Opened"
        <3>1. OpenIn(k) \subseteq OpenIn(l)
            BY <1>6, <1>13, <1>14, <1>15, <2>2
        <3>2. Cardinality(OpenIn(k)) <= Cardinality(OpenIn(l))
            BY <1>12, <3>1, FS_Subset
        <3> QED BY <1>5, <1>12, <2>2, <3>2 DEF Balanced
    <2> QED BY <2>1, <2>2
<1> QED BY <1>11, <1>16 DEF Balanced, k

(* The ledger of an empty log is balanced. *)
LEMMA EmptyLedger ==
    ASSUME IsFiniteSet(Stream)
    PROVE  Balanced(<<>>)
<1>1. Payloads(<<>>) = <<>>
    BY PayloadsOfNothing
<1>2. LedgerOf(<<>>) = NoLedger
    <2>1. LedgerOf(<<>>) = Summing!Result(NoLedger, <<>>)
        BY <1>1 DEF LedgerOf, FoldLeft, MapThenFoldSet, Max,
               Summing!Result, Summing!FoldLeft, Summing!MapThenFoldSet, Summing!Max
    <2> QED BY <2>1, Summing!FoldEmpty
<1>3. ASSUME NEW s \in Stream
      PROVE  Held(History(<<>>, s)) = 0 /\ ~Account(History(<<>>, s)).open
    <2>1. History(<<>>, s) = <<>>
        BY EmptyLog
    <2>2. OverflowsOf(<<>>) = {}
        BY DEF OverflowsOf
    <2>3. Cardinality(OverflowsOf(<<>>)) = 0
        BY <2>2, FS_EmptySet
    <2>4. Held(<<>>) = 0
        BY <2>3, NoEvents, BankAccountAssumption DEF Held
    <2> QED BY <2>1, <2>4, NoEvents
<1>4. HeldIn(<<>>) = [s \in Stream |-> 0]
    BY <1>3 DEF HeldIn
<1>5. Summing!Total(HeldIn(<<>>)) = 0
    BY <1>4, SameFiniteness, Summing!TotalOfZeros
<1>6. OpenIn(<<>>) = {}
    BY <1>3 DEF OpenIn
<1>7. Cardinality(OpenIn(<<>>)) = 0
    BY <1>6, FS_EmptySet
<1> QED BY <1>2, <1>5, <1>7 DEF Balanced, NoLedger

(* Every append of an account's event keeps the ledger balanced.           *)
LEMMA LedgerStep ==
    ASSUME ServesAccounts, IsFiniteSet(Stream), IInv, Balanced(log), [Next]_vars
    PROVE  Balanced(log')
<1>1. CASE log' = log
    BY <1>1
<1>2. ASSUME NEW t \in Task, AppendEvents(t)
      PROVE  Balanced(log')
    <2> DEFINE s == StreamOf(t)
               h == History(log, s)
    <2>1. /\ pc[t] = "append"
          /\ seen[t].version = CurrentVersion(log, s)
          /\ log' = Appended(log, s, newEvents[t])
        BY <1>2, ExpectedIsCurrent DEF AppendEvents
    <2>2. /\ Sound(log) /\ s \in Stream /\ request[t].command \in Command
          /\ newEvents[t] \in Seq(Payload)
        <3>1. request[t] \in Request /\ newEvents[t] \in Seq(Payload)
            BY DEF IInv, TypeOK
        <3>2. request[t].stream \in Stream /\ request[t].command \in Command
            BY <3>1 DEF Request
        <3> QED BY <3>1, <3>2 DEF IInv, StreamOf
    <2>3. seen[t].state = h
        <3>1. seen[t].state = PrefixAt(s, seen[t].version)
            BY DEF IInv, LoadsAgree, RenderedAt
        <3>2. h \in Seq(Payload) /\ Len(h) = CurrentVersion(log, s)
            BY <2>2, HistoryIs
        <3> QED BY <2>1, <3>1, <3>2, SubSeqFull DEF PrefixAt
    <2>4. Ok(newEvents[t]) \in AccountHandle(request[t].command, h)
        BY <2>1, <2>3 DEF IInv, Pending, ServesAccounts
    <2>5. PICK e : newEvents[t] = <<e>> /\ Legal(Account(h), e)
        BY <2>2, <2>4, AcceptedIsLegal DEF ServesAccounts
    <2>6. e \in AccountEvent
        <3>1. <<e>> \in Seq(AccountEvent) /\ Len(<<e>>) = 1 /\ <<e>>[1] = e
            BY <2>2, <2>5 DEF ServesAccounts
        <3> QED BY <3>1, ElementOfSeq
    <2> HIDE DEF s, h
    <2>7. Balanced(Appended(log, s, <<e>>))
        BY <2>2, <2>5, <2>6, LedgerGoesOn DEF ServesAccounts, h
    <2> QED BY <2>1, <2>5, <2>7
<1> QED BY <1>1, <1>2, LogSteps

(* What is balanced is what the ledger is said to hold. *)
LEMMA BalancedHolds ==
    ASSUME Sound(log), Balanced(log)
    PROVE  LedgerHoldsTotal
<1>1. ASSUME NEW s \in Stream
      PROVE  /\ CurrentVersion(log, s) = Len(History(log, s))
             /\ Overflows(s) = OverflowsOf(History(log, s))
    <2>1. CurrentVersion(log, s) = Len(History(log, s))
        BY HistoryIs
    <2> QED BY <2>1 DEF Overflows, OverflowsOf, PrefixAt
<1> DEFINE f == [s \in Stream |-> Account(History(log, s)).balance
                                  + Modulus * Cardinality(Overflows(s))]
<1>2. f = HeldIn(log)
    BY <1>1 DEF HeldIn, Held
<1> HIDE DEF f
<1>3. FoldFunction(+, 0, f) = Summing!Total(f)
    BY DEF FoldFunction, FoldFunctionOnSet, MapThenFoldSet,
           Summing!Total, Summing!FoldFunction, Summing!FoldFunctionOnSet, Summing!MapThenFoldSet
<1>4. Ledger.total_balance = FoldFunction(+, 0, f)
    BY <1>2, <1>3 DEF Balanced, Ledger, LedgerOf
<1>5. Ledger.accounts_opened >= Cardinality({s \in Stream : Account(History(log, s)).open})
    BY DEF Balanced, Ledger, LedgerOf, OpenIn
<1> QED BY <1>4, <1>5 DEF LedgerHoldsTotal, f

(* The ledger, folded over the global log, holds what the accounts' own    *)
(* streams add up to, however calls interleave, for any finite number of   *)
(* accounts and amounts of any width; and it has seen every open account   *)
(* opened.                                                                 *)
THEOREM LedgerStaysTrue ==
    ASSUME ServesAccounts, IsFiniteSet(Stream)
    PROVE  Spec => []LedgerHoldsTotal
<1>1. Init => Balanced(log)
    BY EmptyLedger DEF Init
<1>2. IInv /\ Balanced(log) /\ [Next]_vars => Balanced(log)'
    <2> SUFFICES ASSUME IInv, Balanced(log), [Next]_vars PROVE Balanced(log')
        BY DEF Balanced, LedgerOf, HeldIn, OpenIn, Held, OverflowsOf
    <2> QED BY LedgerStep
<1>3. IInv /\ Balanced(log) => LedgerHoldsTotal
    BY BalancedHolds DEF IInv
<1> QED BY <1>1, <1>2, <1>3, Invariance, PTL DEF Spec

-----------------------------------------------------------------------------
(* The durable account of examples/durable-account. *)

(* The object is given its commands, the account's events and its handlers. *)
ServesDurableAccounts ==
    /\ Payload = AccountEvent
    /\ Command = DurableCommand
    /\ \A command, history : Handle(command, history) = DurableHandle(command, history)

(* What its handlers leave of Legal: they do not look for an amount of 0,  *)
(* and nothing closes an account.                                          *)
Covered(account, event) ==
    \/ event.kind = "Opened" /\ ~account.open
    \/ event.kind = "Deposited" /\ account.open
    \/ event.kind = "Withdrawn" /\ account.open /\ event.amount <= account.balance

DurableRulesHold ==
    \A s \in Stream : \A v \in 1..CurrentVersion(log, s) :
        Covered(Account(PrefixAt(s, v - 1)), History(log, s)[v])

(* A handler that accepts records one event, which the account covers.     *)
LEMMA AcceptedIsCovered ==
    ASSUME NEW command \in DurableCommand, NEW history, NEW events,
           Ok(events) \in DurableHandle(command, history)
    PROVE  \E event : events = <<event>> /\ Covered(Account(history), event)
<1>0. PICK account : account = Account(history)
    OBVIOUS
<1>1. Ok(events) # Rejected
    BY DEF Ok, Rejected, Err
<1>2. /\ Ok(events).events = events
      /\ \A kind, n : Event(kind, n).events = <<[kind |-> kind, amount |-> n]>>
    BY DEF Ok, Event
<1>3. PICK amount \in Nat : amount = command.amount
    BY AccountCommands DEF DurableCommand
<1>4. command.kind \in {"Open", "Deposit", "Withdraw"}
    BY AccountCommands DEF DurableCommand
<1>5. CASE command.kind = "Open"
    <2>1. Ok(events) = Open(account)
        BY <1>0, <1>5 DEF DurableHandle
    <2>2. ~account.open /\ Ok(events) = Event("Opened", 0)
        BY <1>1, <2>1 DEF Open, EventIf
    <2>3. PICK event : event = [kind |-> "Opened", amount |-> 0]
        OBVIOUS
    <2>4. events = <<event>>
        BY <1>2, <2>2, <2>3
    <2>5. event.kind = "Opened"
        BY <2>3
    <2> QED BY <1>0, <2>2, <2>4, <2>5 DEF Covered
<1>6. CASE command.kind = "Deposit"
    <2>1. Ok(events) = DepositAny(account, amount)
        BY <1>0, <1>3, <1>6 DEF DurableHandle
    <2>2. account.open /\ Ok(events) = Event("Deposited", amount)
        BY <1>1, <2>1 DEF DepositAny, EventIf
    <2>3. PICK event : event = [kind |-> "Deposited", amount |-> amount]
        OBVIOUS
    <2>4. events = <<event>>
        BY <1>2, <2>2, <2>3
    <2>5. event.kind = "Deposited"
        BY <2>3
    <2> QED BY <1>0, <2>2, <2>4, <2>5 DEF Covered
<1>7. CASE command.kind = "Withdraw"
    <2>1. Ok(events) = WithdrawAny(account, amount)
        BY <1>0, <1>3, <1>7 DEF DurableHandle
    <2>2. /\ account.open /\ amount <= account.balance
          /\ Ok(events) = Event("Withdrawn", amount)
        BY <1>1, <2>1 DEF WithdrawAny, EventIf
    <2>3. PICK event : event = [kind |-> "Withdrawn", amount |-> amount]
        OBVIOUS
    <2>4. events = <<event>>
        BY <1>2, <2>2, <2>3
    <2>5. event.kind = "Withdrawn" /\ event.amount = amount
        BY <2>3
    <2> QED BY <1>0, <2>2, <2>4, <2>5 DEF Covered
<1> QED BY <1>4, <1>5, <1>6, <1>7

(* However often Restate loses an attempt and runs a withdrawal again, the *)
(* account covers each one recorded; and it is opened only once, and       *)
(* nothing is recorded of it before (Account in durable-account).          *)
THEOREM DurableAccountsAreCovered ==
    ASSUME ServesDurableAccounts
    PROVE  ObjectSpec => []DurableRulesHold
<1>1. IInv => DurableRulesHold
    <2> SUFFICES ASSUME IInv, NEW s \in Stream, NEW v \in 1..CurrentVersion(log, s)
                 PROVE  Covered(Account(PrefixAt(s, v - 1)), History(log, s)[v])
        BY DEF DurableRulesHold
    <2>1. DecidesOnOne
        BY AcceptedIsCovered DEF ServesDurableAccounts, DecidesOnOne
    <2>2. PICK command \in Command :
              Ok(<<History(log, s)[v]>>) \in Handle(command, PrefixAt(s, v - 1))
        BY <2>1, DecidedWhereItStands
    <2>3. PICK event : /\ <<History(log, s)[v]>> = <<event>>
                       /\ Covered(Account(PrefixAt(s, v - 1)), event)
        BY <2>2, AcceptedIsCovered DEF ServesDurableAccounts
    <2> QED BY <2>3
<1> QED BY <1>1, Invariance, ObjectImplementsService, PTL

-----------------------------------------------------------------------------
(* The counter of examples/counter and examples/restate-counter. *)

Counting == INSTANCE FoldProofs WITH Op <- ApplyEvent

(* Service is given the counter's commands, its events and its handlers. *)
ServesCounters ==
    /\ Payload = CounterEvent
    /\ Command = CounterCommand
    /\ \A command, history : Handle(command, history) = CounterHandle(command, history)

(* Integers wrap into their range, and stay what they are within it. *)
LEMMA WrappedIs ==
    ASSUME NEW n \in Int
    PROVE  /\ Wrapped(n) \in Int
           /\ 0 <= n /\ n < Half => Wrapped(n) = n
<1>1. Half \in Nat \ {0}
    BY CounterAssumption
<1>2. PICK m \in Nat \ {0} : m = Half
    BY <1>1
<1>3. (n + m) % (2 * m) \in Int
    OBVIOUS
<1>4. 0 <= n /\ n < m => (n + m) % (2 * m) = n + m
    OBVIOUS
<1> QED BY <1>2, <1>3, <1>4 DEF Wrapped

(* What the counter records. *)
LEMMA CounterEvents ==
    ASSUME NEW event \in CounterEvent
    PROVE  event.by \in Int /\ event.kind \in {"Incremented", "Decremented", "Reset"}
<1>1. Half \in Nat
    BY CounterAssumption
<1>2. \A n \in By : n \in Int
    BY <1>1, CounterAssumption
<1>3. CASE event \in [kind : {"Incremented", "Decremented"}, by : By]
    <2>1. event.by \in By /\ event.kind \in {"Incremented", "Decremented"}
        BY <1>3
    <2> QED BY <1>2, <2>1
<1>4. CASE event \in [kind : {"Reset"}, by : {0}]
    BY <1>4
<1> QED BY <1>3, <1>4 DEF CounterEvent

(* What apply makes of it. *)
LEMMA ApplyIs ==
    ASSUME NEW value \in Int, NEW event \in CounterEvent
    PROVE  /\ ApplyEvent(value, event) \in Int
           /\ event.kind = "Incremented" => ApplyEvent(value, event) = Wrapped(value + event.by)
           /\ event.kind = "Decremented" => ApplyEvent(value, event) = Wrapped(value - event.by)
           /\ event.kind = "Reset" => ApplyEvent(value, event) = 0
<1>1. event.by \in Int /\ event.kind \in {"Incremented", "Decremented", "Reset"}
    BY CounterEvents
<1>2. value + event.by \in Int /\ value - event.by \in Int
    BY <1>1
<1>3. Wrapped(value + event.by) \in Int /\ Wrapped(value - event.by) \in Int
    BY <1>2, WrappedIs
<1> QED BY <1>1, <1>3 DEF ApplyEvent

(* The value of a counter is an integer, and one event more is applied to  *)
(* what those before it give.                                              *)
LEMMA ValueIs ==
    ASSUME NEW h \in Seq(CounterEvent)
    PROVE  /\ Value(h) \in Int
           /\ \A k \in 1..Len(h) :
                Value(SubSeq(h, 1, k)) = ApplyEvent(Value(SubSeq(h, 1, k - 1)), h[k])
<1>1. ASSUME NEW g PROVE Value(g) = Counting!Result(0, g)
    BY DEF Value, FoldLeft, MapThenFoldSet, Max,
           Counting!Result, Counting!FoldLeft, Counting!MapThenFoldSet, Counting!Max
<1>2. \A x \in Int, e \in CounterEvent : ApplyEvent(x, e) \in Int
    BY ApplyIs
<1>3. 0 \in Int
    OBVIOUS
<1>4. Counting!Result(0, h) \in Int
    BY <1>2, <1>3, Counting!FoldKeeps
<1>5. ASSUME NEW k \in 1..Len(h)
      PROVE  Counting!Result(0, SubSeq(h, 1, k))
                = ApplyEvent(Counting!Result(0, SubSeq(h, 1, k - 1)), h[k])
    BY Counting!FoldPrefix
<1> QED BY <1>1, <1>4, <1>5

(* What a handler of the counter accepts: one event, and a decrement only  *)
(* if it leaves the value it was decided on at 0 or above.                 *)
LEMMA AcceptedCounts ==
    ASSUME NEW command \in CounterCommand, NEW history, NEW events,
           Ok(events) \in CounterHandle(command, history)
    PROVE  \E event :
              /\ events = <<event>>
              /\ event.kind = "Decremented" => ~(Wrapped(Value(history) - event.by) < 0)
<1>1. Ok(events) # Rejected /\ Ok(events).events = events
    BY DEF Ok, Rejected, Err
<1>2. PICK checked \in ChecksOverflow :
          Ok(events) = CounterDecides(command, Value(history), checked)
    BY DEF CounterHandle
<1>3. PICK value, amount : value = Value(history) /\ amount = command.by
    OBVIOUS
<1>4. command.kind \in {"Increment", "Decrement", "Reset"}
    BY DEF CounterCommand
<1>5. CASE command.kind = "Increment"
    <2>1. PICK event : event = [kind |-> "Incremented", by |-> amount]
        OBVIOUS
    <2>2. events = <<event>>
        BY <1>1, <1>2, <1>3, <1>5, <2>1 DEF CounterDecides, Ok
    <2> QED BY <2>1, <2>2
<1>6. CASE command.kind = "Decrement"
    <2>1. PICK event : event = [kind |-> "Decremented", by |-> amount]
        OBVIOUS
    <2>2. ~(Wrapped(value - amount) < 0) /\ events = <<event>>
        BY <1>1, <1>2, <1>3, <1>6, <2>1 DEF CounterDecides, Ok
    <2> QED BY <1>3, <2>1, <2>2
<1>7. CASE command.kind = "Reset"
    <2>1. PICK event : event = [kind |-> "Reset", by |-> 0]
        OBVIOUS
    <2>2. events = <<event>>
        BY <1>1, <1>2, <1>7, <2>1 DEF CounterDecides, Ok
    <2> QED BY <2>1, <2>2
<1> QED BY <1>4, <1>5, <1>6, <1>7

(* A value below zero goes back to an increment decided where it stands. *)
LEMMA SerializableCounts ==
    ASSUME ServesCounters, IInv
    PROVE  NegativeOnlyByIncrement
<1> SUFFICES ASSUME NEW s \in Stream, NEW v \in 1..CurrentVersion(log, s),
                    Value(PrefixAt(s, v - 1)) >= 0, Value(PrefixAt(s, v)) < 0
             PROVE  /\ History(log, s)[v].kind = "Incremented"
                    /\ \/ History(log, s)[v].by < 0
                       \/ Value(PrefixAt(s, v - 1)) + History(log, s)[v].by >= Half
    BY DEF NegativeOnlyByIncrement
<1> DEFINE h == History(log, s)
<1>1. h \in Seq(CounterEvent) /\ Len(h) = CurrentVersion(log, s) /\ CurrentVersion(log, s) \in Nat
    BY HistoryIs DEF IInv, Sound, ServesCounters
<1>2. PICK event \in CounterEvent : event = h[v]
    BY <1>1, ElementOfSeq
<1>3. PICK before \in Int : before = Value(PrefixAt(s, v - 1))
    <2>1. PrefixAt(s, v - 1) \in Seq(CounterEvent)
        <3>1. \A i \in 1..(v - 1) : h[i] \in CounterEvent
            BY <1>1, ElementOfSeq
        <3> QED BY <1>1, <3>1, SubSeqProperties DEF PrefixAt
    <2> QED BY <2>1, ValueIs
<1>4. Value(PrefixAt(s, v)) = ApplyEvent(before, event)
    BY <1>1, <1>2, <1>3, ValueIs DEF PrefixAt
<1>5. DecidesOnOne
    BY AcceptedCounts DEF ServesCounters, DecidesOnOne
<1>6. PICK command \in Command : Ok(<<h[v]>>) \in Handle(command, PrefixAt(s, v - 1))
    BY <1>5, DecidedWhereItStands
<1>7. PICK e : /\ <<h[v]>> = <<e>>
               /\ e.kind = "Decremented" => ~(Wrapped(Value(PrefixAt(s, v - 1)) - e.by) < 0)
    BY <1>6, AcceptedCounts DEF ServesCounters
<1>8. event.kind = "Decremented" => ~(Wrapped(before - event.by) < 0)
    <2>1. e = h[v]
        BY <1>7
    <2> QED BY <1>2, <1>3, <1>7, <2>1
<1>9. /\ event.by \in Int /\ event.kind \in {"Incremented", "Decremented", "Reset"}
      /\ before >= 0 /\ ApplyEvent(before, event) < 0
    BY <1>3, <1>4, CounterEvents
<1>10. event.kind = "Incremented"
    BY <1>8, <1>9, ApplyIs
<1>11. Wrapped(before + event.by) < 0
    BY <1>9, <1>10, ApplyIs
<1>12. event.by < 0 \/ before + event.by >= Half
    <2>1. before + event.by \in Int /\ Half \in Nat
        BY <1>9, CounterAssumption
    <2> QED BY <1>9, <1>11, <2>1, WrappedIs
<1> QED BY <1>2, <1>3, <1>10, <1>12

(* However durable and in-process commands race and are run again, only an *)
(* increment takes a counter below zero, by a negative amount or past the  *)
(* end of its integers, of any width.                                      *)
THEOREM CounterStaysAboveZero ==
    ASSUME ServesCounters
    PROVE  ObjectSpec => []NegativeOnlyByIncrement
<1>1. IInv => NegativeOnlyByIncrement
    BY SerializableCounts
<1> QED BY <1>1, Invariance, ObjectImplementsService, PTL
=============================================================================
