------------------------------- MODULE Service -------------------------------
(***************************************************************************)
(* Service<A, S>: concurrent command calls against one event store.        *)
(*                                                                         *)
(* A call is a future that suspends at every call it makes to the store,   *)
(* so other calls run between any two of its steps; a store call itself is *)
(* atomic (MemoryStore and SqliteStore each hold a mutex throughout).      *)
(*                                                                         *)
(* The aggregate is any fold over its events, so its state is the sequence *)
(* of payloads applied to A::default(); what Aggregate::handle, Handles or *)
(* HandlesIn may decide on it is the constant operator Handle.             *)
(***************************************************************************)
EXTENDS EventLog

CONSTANTS
    Task,           \* the futures that call the service
    Command,
    Handle(_, _),   \* Handle(command, state): the decisions handle may return
    Mode,           \* the entry points in use, of the three below
    SnapshotEvery,  \* the n of the callers' SnapshotPolicy::EveryNEvents; 0: Never
    MaxRetries,     \* the max_retries the callers pass
    MaxCalls        \* bound: how many calls are ever begun

(* Result<Vec<_>, ServiceError>: what a handler, and what a call, returns. *)
Ok(events) == [tag |-> "Ok", events |-> events]
Err(tag)   == [tag |-> tag, events |-> <<>>]
Rejected   == Err("Rejected")   \* ServiceError::Rejected
Conflict   == Err("Conflict")   \* ServiceError::Store(StoreError::Conflict)
StoreError == Err("StoreError") \* ServiceError::Store of any other StoreError
None       == Err("None")       \* the call has not returned

Decision == [tag : {"Ok"}, events : Seq(Payload)] \cup {Rejected}

(* A rendered state and the version it was rendered at. *)
Rendered == [version : Nat, state : Seq(Payload)]
Default  == [version |-> 0, state |-> <<>>]

Request == [stream : Stream, command : Command, mode : Mode]

ASSUME ServiceAssumption ==
    /\ Mode \subseteq {"execute", "execute_with_retry", "execute_snapshotting"}
    /\ SnapshotEvery \in Nat
    /\ MaxRetries \in Nat
    /\ MaxCalls \in Nat
    /\ Request # {}

VARIABLES
    log,        \* the event store
    snapshots,  \* the __snapshot collection; Default where there is none
    pc,         \* where each task's call is suspended
    request,    \* the call's arguments
    seen,       \* the state it rendered and the version it expects
    newEvents,  \* what the handler decided
    attempts,   \* execute_with_retry's counter
    reply,      \* what the last call of the task returned
    begun,      \* history: how many calls were begun; numbers them
    call,       \* history: the number of the task's last call
    since,      \* history: the stream's version when that call began
    commits     \* history: every append a call has made

store == <<log, snapshots>>
local == <<request, seen, newEvents, attempts>>
ghost == <<begun, call, since>>
vars  == <<log, snapshots, pc, request, seen, newEvents, attempts, reply,
           begun, call, since, commits>>

Commit == [call : Nat, stream : Stream, command : Command,
           from : Nat, events : Seq(Payload)]

TypeOK ==
    /\ log \in Seq(StoredEvent)
    /\ snapshots \in [Stream -> Rendered]
    /\ pc \in [Task -> {"idle", "load", "fetch", "tail", "decide", "append", "save"}]
    /\ request \in [Task -> Request]
    /\ seen \in [Task -> Rendered]
    /\ newEvents \in [Task -> Seq(Payload)]
    /\ attempts \in [Task -> 0..MaxRetries]
    /\ reply \in [Task -> [tag : {"Ok"}, events : Seq(StoredEvent)]
                          \cup {Rejected, Conflict, StoreError, None}]
    /\ begun \in 0..MaxCalls
    /\ call \in [Task -> 0..MaxCalls]
    /\ since \in [Task -> Nat]
    /\ commits \subseteq Commit

Init ==
    /\ log = <<>>
    /\ snapshots = [s \in Stream |-> Default]
    /\ pc = [t \in Task |-> "idle"]
    /\ request = [t \in Task |-> CHOOSE r \in Request : TRUE]
    /\ seen = [t \in Task |-> Default]
    /\ newEvents = [t \in Task |-> <<>>]
    /\ attempts = [t \in Task |-> 0]
    /\ reply = [t \in Task |-> None]
    /\ begun = 0
    /\ call = [t \in Task |-> 0]
    /\ since = [t \in Task |-> 0]
    /\ commits = {}

Goto(t, label) == pc' = [pc EXCEPT ![t] = label]

Return(t, result) ==
    /\ Goto(t, "idle")
    /\ reply' = [reply EXCEPT ![t] = result]

StreamOf(t) == request[t].stream

-----------------------------------------------------------------------------
(* A caller begins a call: execute, execute_with, submit and dispatch all  *)
(* take the path called "execute" here.                                    *)
BeginWith(t, r) ==
    /\ pc[t] = "idle"
    /\ begun < MaxCalls
    /\ request' = [request EXCEPT ![t] = r]
    /\ since' = [since EXCEPT ![t] = CurrentVersion(log, r.stream)]
    /\ Goto(t, IF r.mode = "execute_snapshotting" THEN "fetch" ELSE "load")
    /\ seen' = [seen EXCEPT ![t] = Default]
    /\ newEvents' = [newEvents EXCEPT ![t] = <<>>]
    /\ attempts' = [attempts EXCEPT ![t] = 0]
    /\ reply' = [reply EXCEPT ![t] = None]
    /\ begun' = begun + 1
    /\ call' = [call EXCEPT ![t] = begun + 1]
    /\ UNCHANGED <<log, snapshots, commits>>

Begin(t) == \E r \in Request : BeginWith(t, r)

(* Fold stored events onto a state: apply each, the version is the last's. *)
Fold(base, stored) ==
    [version |-> IF stored = <<>> THEN base.version ELSE stored[Len(stored)].version,
     state |-> base.state \o Payloads(stored)]

(* load: the whole stream, folded onto A::default(). *)
Rebuilt(s) == Fold(Default, Load(log, s))

LoadStream(t) ==
    /\ pc[t] = "load"
    /\ seen' = [seen EXCEPT ![t] = Rebuilt(StreamOf(t))]
    /\ Goto(t, "decide")
    /\ UNCHANGED <<store, request, newEvents, attempts, reply, ghost, commits>>

(* load_snapshotted, first await: the snapshot. *)
FetchSnapshot(t) ==
    /\ pc[t] = "fetch"
    /\ seen' = [seen EXCEPT ![t] = snapshots[StreamOf(t)]]
    /\ Goto(t, "tail")
    /\ UNCHANGED <<store, request, newEvents, attempts, reply, ghost, commits>>

(* Mutant: the version stays the snapshot's although events follow it. *)
CaughtupAtSnapshot(base, s) ==
    [Fold(base, LoadFrom(log, s, base.version)) EXCEPT !.version = base.version]

(* load_snapshotted, second await: the events after it. *)
Caughtup(base, s) == Fold(base, LoadFrom(log, s, base.version))

LoadTail(t) ==
    /\ pc[t] = "tail"
    /\ seen' = [seen EXCEPT ![t] = Caughtup(seen[t], StreamOf(t))]
    /\ Goto(t, "decide")
    /\ UNCHANGED <<store, request, newEvents, attempts, reply, ghost, commits>>

-----------------------------------------------------------------------------
(* The decision, on the rendered state (dispatch awaits its handler). *)
Decisions(t) ==
    {d \in Handle(request[t].command, seen[t].state) : d \in Decision}

Reject(t) ==
    /\ pc[t] = "decide"
    /\ Rejected \in Decisions(t)
    /\ Return(t, Rejected)
    /\ UNCHANGED <<store, local, ghost, commits>>

DecideNothing(t) ==
    /\ pc[t] = "decide"
    /\ Ok(<<>>) \in Decisions(t)
    /\ Return(t, Ok(<<>>))
    /\ UNCHANGED <<store, local, ghost, commits>>

Decide(t) ==
    /\ pc[t] = "decide"
    /\ \E d \in Decisions(t) :
        /\ d.tag = "Ok" /\ d.events # <<>>
        /\ newEvents' = [newEvents EXCEPT ![t] = d.events]
    /\ Goto(t, "append")
    /\ UNCHANGED <<store, request, seen, attempts, reply, ghost, commits>>

-----------------------------------------------------------------------------
(* Mutant: appends are not guarded. *)
ExpectedAny(t) == AnyRevision

(* The ExpectedRevision load hands back with the state. *)
Expected(t) ==
    IF seen[t].version = 0 THEN NoStream ELSE Exact(seen[t].version)

(* Mutant: only a version that lands on a multiple of n is snapshotted. *)
ShouldSnapshotAt(n, old, new) == n # 0 /\ old < new /\ new % n = 0

(* SnapshotPolicy::should_snapshot *)
ShouldSnapshot(n, old, new) == n # 0 /\ old \div n # new \div n

(* The policy is asked with the version load_snapshotted expected and the  *)
(* version of the last event recorded.                                     *)
SnapshotDue(t, recorded) ==
    /\ request[t].mode = "execute_snapshotting"
    /\ ShouldSnapshot(SnapshotEvery, seen[t].version,
                      recorded[Len(recorded)].version)

(* The store accepts the batch: it and its place are the call's answer,    *)
(* returned now or, in execute_snapshotting, after the snapshot is saved.  *)
AppendEvents(t) ==
    /\ pc[t] = "append"
    /\ Passes(Expected(t), CurrentVersion(log, StreamOf(t)))
    /\ LET recorded == Recorded(log, StreamOf(t), newEvents[t])
       IN /\ log' = Appended(log, StreamOf(t), newEvents[t])
          /\ reply' = [reply EXCEPT ![t] = Ok(recorded)]
          /\ Goto(t, IF SnapshotDue(t, recorded) THEN "save" ELSE "idle")
    /\ commits' = commits \cup
          {[call |-> call[t], stream |-> StreamOf(t), command |-> request[t].command,
            from |-> CurrentVersion(log, StreamOf(t)), events |-> newEvents[t]]}
    /\ UNCHANGED <<snapshots, local, ghost>>

(* Mutant: any failure of the append counts as a lost race. *)
LostRaceAnyway(t) == pc[t] = "append"

LostRace(t) ==
    /\ pc[t] = "append"
    /\ ~Passes(Expected(t), CurrentVersion(log, StreamOf(t)))

(* Mutant: max_retries is not looked at. *)
MayRetryForever(t) == request[t].mode = "execute_with_retry"

MayRetry(t) ==
    /\ request[t].mode = "execute_with_retry"
    /\ attempts[t] < MaxRetries

(* Mutant: the same append is tried again, on the state already seen. *)
RetrySameAppend(t) == LostRace(t) /\ MayRetry(t) /\ UNCHANGED vars

(* StoreError::Conflict: the only error execute_with_retry tries again on. *)
Retry(t) ==
    /\ LostRace(t)
    /\ MayRetry(t)
    /\ attempts' = [attempts EXCEPT ![t] = @ + 1]
    /\ Goto(t, "load")
    /\ UNCHANGED <<store, request, seen, newEvents, reply, ghost, commits>>

(* Mutant: the last conflict is swallowed. *)
GiveUpQuietly(t) ==
    /\ LostRace(t)
    /\ ~MayRetry(t)
    /\ Return(t, Ok(NumberedFrom(StreamOf(t), seen[t].version, newEvents[t])))
    /\ UNCHANGED <<store, local, ghost, commits>>

GiveUp(t) ==
    /\ LostRace(t)
    /\ ~MayRetry(t)
    /\ Return(t, Conflict)
    /\ UNCHANGED <<store, local, ghost, commits>>

(* Mutant: the new version with the state the command was decided on. *)
SnapshotOfOldState(t) == [Fold(seen[t], reply[t].events) EXCEPT !.state = seen[t].state]

(* The state the handler decided on, with the recorded events applied. *)
SnapshotOf(t) == Fold(seen[t], reply[t].events)

SaveSnapshot(t) ==
    /\ pc[t] = "save"
    /\ snapshots' = [snapshots EXCEPT ![StreamOf(t)] = SnapshotOf(t)]
    /\ Goto(t, "idle")
    /\ UNCHANGED <<log, local, reply, ghost, commits>>

-----------------------------------------------------------------------------
(* The store call the task is at fails and has no effect; `?` returns the  *)
(* error at once, whatever the call did before.                            *)
StoreFails(t) ==
    /\ pc[t] \in {"load", "fetch", "tail", "append", "save"}
    /\ Return(t, StoreError)
    /\ UNCHANGED <<store, local, ghost, commits>>

(* The caller drops the future at an await, or its process dies. *)
Cancel(t) ==
    /\ pc[t] # "idle"
    /\ Return(t, None)
    /\ UNCHANGED <<store, local, ghost, commits>>

(* documents.delete on a snapshot: "deleting them only makes loads slower" *)
DeleteSnapshot(s) ==
    /\ snapshots[s] # Default
    /\ snapshots' = [snapshots EXCEPT ![s] = Default]
    /\ UNCHANGED <<log, pc, local, reply, ghost, commits>>

(* The next step of a call that nobody cancels and no store call fails. *)
Step(t) ==
    \/ LoadStream(t) \/ FetchSnapshot(t) \/ LoadTail(t)
    \/ Reject(t) \/ DecideNothing(t) \/ Decide(t)
    \/ AppendEvents(t) \/ Retry(t) \/ GiveUp(t) \/ SaveSnapshot(t)

(* All calls the bound allows were made and have returned. *)
Finished ==
    /\ begun = MaxCalls
    /\ \A t \in Task : pc[t] = "idle"
    /\ UNCHANGED vars

Next ==
    \/ \E t \in Task : Begin(t) \/ Step(t) \/ StoreFails(t) \/ Cancel(t)
    \/ \E s \in Stream : DeleteSnapshot(s)
    \/ Finished

Spec == Init /\ [][Next]_vars

-----------------------------------------------------------------------------
(* Properties. *)

(* The stream of an event store stays contiguous however calls interleave. *)
StreamsContiguous == Contiguous(log)

PrefixAt(s, v) == SubSeq(History(log, s), 1, v)

(* A state in hand is the state at its version: whichever mix of snapshot  *)
(* and tail it came from, and whatever was appended, snapshotted or        *)
(* deleted between the two awaits, it is what load gives at that version.  *)
RenderedAt(s, r) ==
    /\ r.version <= CurrentVersion(log, s)
    /\ r.state = PrefixAt(s, r.version)

(* load_snapshotted "is always identical to load"; between its two awaits  *)
(* the call holds a snapshot, which must be such a state as well.          *)
LoadsAgree ==
    /\ \A t \in Task : RenderedAt(StreamOf(t), seen[t])
    /\ \A s \in Stream : RenderedAt(s, snapshots[s])

(* "Snapshot whenever the stream version crosses a multiple of n": when    *)
(* execute_snapshotting returns Ok, the snapshot is at the last version it *)
(* recorded if one of those it recorded is a multiple of n, and otherwise  *)
(* not, whoever else wrote the stream or its snapshot during the call.     *)
Crosses(recorded) ==
    /\ SnapshotEvery # 0
    /\ \E k \in DOMAIN recorded : recorded[k].version % SnapshotEvery = 0

ReturnsWritten(t) ==
    /\ request[t].mode = "execute_snapshotting"
    /\ pc[t] # "idle" /\ pc'[t] = "idle"
    /\ reply'[t].tag = "Ok" /\ reply'[t].events # <<>>

SnapshotFollows(t) ==
    LET recorded == reply'[t].events
    IN Crosses(recorded) <=>
          snapshots'[StreamOf(t)].version = recorded[Len(recorded)].version

(* Every return of execute_snapshotting with events leaves the snapshot    *)
(* the policy asks for, and no other at that version.                      *)
SnapshotsWhenDue == [][\A t \in Task : ReturnsWritten(t) => SnapshotFollows(t)]_vars

(* Optimistic concurrency: every batch was decided by the handler on       *)
(* exactly the events that precede it in its stream, as if calls had run   *)
(* one after the other, and a stream holds nothing but such batches.       *)
DecidedIn(history, c) ==
    /\ c.from + Len(c.events) <= Len(history)
    /\ Ok(c.events) \in Handle(c.command, SubSeq(history, 1, c.from))
    /\ c.events = SubSeq(history, c.from + 1, c.from + Len(c.events))

Covers(c, s, v) == c.stream = s /\ c.from < v /\ v <= c.from + Len(c.events)

Serializable ==
    /\ \A c \in commits : DecidedIn(History(log, c.stream), c)
    /\ \A s \in Stream : \A v \in 1..CurrentVersion(log, s) :
          \E c \in commits : \A d \in commits : Covers(d, s, v) <=> d = c

CommitsOf(t) == {c \in commits : c.call = call[t]}

(* The answer of a call tells what it wrote: Ok, exactly the events it     *)
(* returns, at the versions it returns; Rejected or Conflict, nothing.     *)
AnswerTellsCommit ==
    \A t \in Task : pc[t] = "idle" =>
        /\ reply[t].tag \in {"Rejected", "Conflict"} => CommitsOf(t) = {}
        /\ reply[t].tag = "Ok" =>
              \/ reply[t].events = <<>> /\ CommitsOf(t) = {}
              \/ \E c \in commits :
                    /\ CommitsOf(t) = {c}
                    /\ reply[t].events = NumberedFrom(c.stream, c.from, c.events)

(* A call loses an append only to others that wrote its stream meanwhile:  *)
(* each retry, and a final Conflict, has a commit of its own to blame.     *)
RivalsOf(t) ==
    {c \in commits : c.stream = StreamOf(t) /\ c.from >= since[t] /\ c.call # call[t]}

ConflictsHaveRivals ==
    \A t \in Task :
        Cardinality(RivalsOf(t)) >=
            attempts[t] + (IF reply[t] = Conflict THEN 1 ELSE 0)

(* Service implements Commands: a call appears to take effect at the       *)
(* instant its append is accepted, or to have looked at some instant of    *)
(* its own and written nothing.                                            *)
Promise == INSTANCE Commands WITH
    history <- [s \in Stream |-> History(log, s)],
    open    <- [t \in Task |-> pc[t] # "idle"],
    asked   <- [t \in Task |-> [stream |-> StreamOf(t), command |-> request[t].command]],
    answer  <- [t \in Task |-> [reply[t] EXCEPT !.events = Payloads(@)]]

ImplementsCommands == Promise!Spec

(* Err(Store) is for a caller to retry: "plumbing failed; maybe retry".    *)
(* That is safe only if the call it answers wrote nothing.                 *)
StoreErrorsWriteNothing ==
    \A t \in Task : pc[t] = "idle" /\ reply[t] = StoreError => CommitsOf(t) = {}

(* Liveness, where calls are polled: no task stays in a call for ever,     *)
(* whoever else writes and however often its append conflicts.             *)
CallsReturn == \A t \in Task : []<>(pc[t] = "idle")
=============================================================================
