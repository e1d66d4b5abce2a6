# A verification model of streamlet

TLA+ models of the event-sourcing toolkit in `src/`, checked with TLC on small
instances and proved with TLAPS for every value of the constants: all but the
liveness properties.  Paths below are relative to `src/`; `crates/streamlet/src/` is
written `S/`.  `PROJECT.json` maps every
definition to the lines it models.

## The system

| Component | Source | State | Operations |
|---|---|---|---|
| Event log contract | `S/store/mod.rs`, `event.rs`, `error.rs` | one globally ordered log; a stream's versions count from 1 | `append` under an `ExpectedRevision`, `load`, `load_from`, `read_all`, `load_raw` |
| `MemoryStore` | `S/store/memory.rs` | a `Vec` of events and a map of documents behind a mutex | the same, plus `fetch`, `save`, `delete`, `list` |
| `SqliteStore` | `S/store/libsql.rs` | two tables in a file that other stores may have open | the same; `append` is one transaction of several awaited statements |
| Command path | `S/service.rs`, `handler.rs`, `aggregate.rs`, `macros.rs` | none between calls; a call holds a rendered state and the revision it expects | `load`, `execute`, `execute_with`, `submit`, `dispatch`, `execute_with_retry`; `Entity`, `Executor`, `TypedExecutor`, `declare_service!` forward to them |
| Snapshots | `S/snapshot.rs`, `service.rs` | one document for each stream: a state and its version | `load_snapshotted`, `save_snapshot`, `execute_snapshotting` |
| Subscriptions | `S/subscription.rs` | a checkpoint document for each name; idempotency markers | `pump`, `run_publisher`, `run_reactor`, `already_processed`, `mark_processed` |
| Projections | `S/store/projection.rs` | a document: a folded view and its position | `replay_view`, `catch_up_view` |
| Bank account | `examples/bank-account` | an aggregate, a ledger view | open, deposit, withdraw, close |
| Restate adapter | `crates/streamlet-restate` | Restate's journal | `execute_command`, `submit_command`, `read_state` as closures of `ctx.run`; `durable_object!`, `service!` |
| Restate examples | `examples/restate-counter`, `durable-account`; `examples/counter` | a counter, an account | handlers that append, read back, only read |
| Upcasting | `S/upcast.rs` | a registry | `register`, `apply`, `decode`, `render` |
| Everything else | derive macros, ids, metadata, `testing.rs`, benches | none | |

The parts share nothing but the store.  A service loads a stream, lets the
aggregate decide and appends under the revision it loaded; subscriptions and
projections page through the global log from a position they keep as a document
in the same kind of store.  Everything is `async`: a future can be interleaved
with others, fail, or be dropped, at every await.

What is hard about it, and what makes each part correct:

* **Stores.**  An append is checked and written at one instant or not at all;
  versions stay contiguous although events of other streams lie between; for
  SQLite this has to come out of transactions that interleave, roll back and may
  be lost with the power.
* **Command path.**  Between the load and the append anything may be appended;
  each batch must still be decided on exactly the events before it.  A lost race
  is retried on a new state; an answer must tell what was written.
* **Snapshots.**  Snapshot and tail are fetched in two awaits and saved in a
  third; whatever happens between them, the state must be what `load` gives.
* **Subscriptions.**  Effect and checkpoint are separate awaits, runs may overlap
  and overwrite each other's checkpoint: nothing may be skipped, nothing handled
  out of order, repetitions only where they were announced.
* **Projections.**  Overlapping calls save over each other: the view and its
  position must always belong together.
* **Restate objects.**  An attempt may die between the append and its journaling;
  what is in the log, what the journal says and what the client is told must differ
  by no more than that.  In-process callers share the store.
* **Evolution.**  Releases with other types read each other's events and snapshots:
  what cannot be read right must fail.

`PROJECT.json` lists these hazards one by one, each at its line.

## The modules

| Module | Models | Extends or implements |
|---|---|---|
| `EventLog` | the log, `ExpectedRevision::check`, numbering, `load`, `load_from`, as operators | |
| `EventStore` | abstract: what the trait promises of `append` | extends `EventLog` |
| `MemoryStore` | `MemoryStore::append` and its scans | implements `EventStore` |
| `SqliteStore` | `SqliteStore::append` and `save` as interleaved transactions | implements `EventStore` |
| `Commands` | abstract: what a service promises its callers | |
| `Service` | every command call, snapshots included | extends `EventLog`, implements `Commands` |
| `BankAccount` | the example's handlers, `apply` and ledger, on `Service` | extends `Service` |
| `GlobalRead` | `read_all` and the order of a page, as operators | |
| `Subscriptions` | the loop of `pump`, `run_publisher`, `run_reactor`, and the markers | extends `GlobalRead` |
| `Projections` | `catch_up_view`, `replay_view` | extends `GlobalRead` |
| `RestateObject` | the invocations of a Virtual Object, their journals and attempts | extends `Service` |
| `Counter` | the aggregate of `counter` and `restate-counter` | extends `RestateObject` |
| `DurableAccount` | the account of `durable-account` | extends `RestateObject`, `BankAccount` |
| `Evolution` | upcasters, stored shapes and snapshots under several releases | |
| `EventLogProofs` | theorems about the log and about positions in it | extends `EventLog`, `GlobalRead` |
| `ServiceProofs` | theorems about commands, about objects and about the aggregates of the examples | extends `DurableAccount`, `Counter`, `EventLogProofs` |
| `MemoryStoreProofs`, `SqliteStoreProofs`, `SubscriptionsProofs`, `ProjectionsProofs` | theorems about the component | extend it and `EventLogProofs` |
| `EvolutionProofs` | theorems about releases | extends `Evolution` |
| `FoldProofs` | induction over a sequence that is folded, for any operator; sums over finite sets | instantiated by `ServiceProofs` and `EvolutionProofs` |
| `MCService`, `MCMemoryStore`, `MCSqliteStore`, `MCBankAccount`, `MCCounter`, `MCDurableAccount`, `MCEvolution` | instances for TLC | |

### How state and actions correspond to the code

*EventLog.*  A log is a sequence; `global_position` is the index.  A stream is an
(`aggregate_type`, `stream_id`) pair.  Event ids, timestamps and metadata are
stored and returned but never read by the code, so an event is its stream, version
and payload.

*Service.*  One task is one caller's future; `pc` is the await it is suspended at.
Store calls are atomic steps, which is what `EventStore` says of them and what the
two store modules show.  A command takes
`load → decide → append` or, in `execute_snapshotting`,
`fetch → tail → decide → append → save`.  An aggregate is a fold, so its state *is*
the sequence of payloads applied to the default, and its handler is the constant
operator `Handle(command, state)`, which returns a set because `HandlesIn` may ask
an environment.  `execute`, `execute_with`, `submit` and `dispatch` differ in types
and metadata only and are one path.  `StoreFails` is any error of the store call
the task is at, without effect; `Cancel` drops the future there.  `commits`,
`begun`, `call` and `since` are history variables: no guard but the bound on calls
reads them.

*MemoryStore.*  `append` holds the mutex from beginning to end, so it is one step,
but its loop pushes each event before it encodes the next: `Pushed` is the part of
a batch that is in the log when `encode` fails.  `load_from` filters the whole log and
sorts what it finds by version: `Matches` is the filter, `Place` where the stable sort puts
an event, `Sorted` the result.

*SqliteStore.*  A store is one connection with its async mutex.  `append` is
`BeginAppend` (the deferred transaction), `Check` or `CheckConflicts` (the SELECT,
which takes the read snapshot), one `Insert` for each event, `CommitAppend`.  An empty
batch returns before it asks for the connection (`AppendNothing`).
What SQLite does is external: a snapshot that is not the newest cannot start to
write, one connection writes at a time, the first write of a transaction that has
read is refused rather than delayed, an uncommitted transaction that is dropped is
rolled back, and a loss of power under `synchronous = NORMAL` goes back to an earlier
commit, the events and documents together.

*Subscriptions, Projections.*  A runner (caller) is one call of the loop; it reads a
page, walks it, saves, reads the next.  Only the name of an event decides whether
it is wanted and whether it decodes, so the log is a sequence of names, and a view
the sequence of positions folded into it.  The consumer's effect is recorded in
`delivered`; a failure during the effect leaves it done or not done.

*BankAccount.*  Amounts are `Width` bits wide and `apply` wraps, as a release build
does; a debug build panics at that point instead.  `Counter` does the same with signed
amounts of `Bits` bits.

*RestateObject.*  An invocation is a sequence of `ctx.run` closures (`Runs`), each of
them one call of the service.  `Attempt` starts the call in a free task of `Service`,
whose steps it then takes; `JournalRun` puts its result into the journal, `Redo` leaves
the invocation to be tried again (a conflict, a store error, a dropped future);
`AttemptLost` lets go of the call at any time, before, at or after its append, and the
call runs on without anybody to wait for it.  `read_state` is one store call without an
effect, so reading and journaling are one step.  `MayRun` is Restate's lock on the
object key: an invocation holds it from its first call to the end, also between
attempts, and `#[shared]` handlers do not.  `LocalCall` is a caller of the in-process
service `service!` emits next to the object.  What Restate does is external.

*Evolution.*  A payload is its type, its shape (how many fields it has) and how many of
these were recorded rather than filled in.  serde ignores fields it does not know and
fails on missing ones; an event type a release has not got fails.  Each release has
its own shapes and registers the upcasters up to them: `ByType` is the registry's map
from an event type to its chain.  Calls are single steps here.

## What is checked

Every run finishes; `violation` runs are the divergences listed below.

| Run | Instance | Shows |
|---|---|---|
| `service_calls` | 2 tasks, 2 streams, 3 calls, 1 retry, a snapshot every 2 versions, batches of 1 and 2 | `Serializable`, `AnswerTellsCommit`, `ConflictsHaveRivals`, `LoadsAgree`, `SnapshotsWhenDue`; `Service` implements `Commands` |
| `service_returns` | a restate-counter object with 3 invocations, 2 tasks, 1 in-process call, a decrement or an increment by -1, 1 fault, values of 2 bits, fair | every call returns and every invocation completes; `AppendsBounded`, `JournalTells`, `ReadsSeeWrites`, `ConflictsFromOutside`, `NegativeOnlyByIncrement` |
| `memory_appends` | 2 streams, batches of 0 to 2, some of which do not encode, 3 events | the scan is the contiguous stream; answers tell places; all other appends keep the `EventStore` contract |
| `sqlite_refines` | 2 stores, 2 streams, 2 events, batches of 0 to 2, some of which fail half-way, under `NoStream` or `Exact(1)`, 1 loss of power | `WritersAreCurrent`, `CheckpointWithinLog`; the stores together implement `EventStore` |
| `subscription_runs` | 2 runners, 3 events, pages of 2, 2 failures, with and without markers, fair | nothing skipped, nothing out of order; repetitions as announced while runs do not overlap; every event is handled unless a page around it does not decode |
| `projection_calls` | 2 callers, 3 events, pages of 2, 1 failure, fair | `ViewFaithful`, `ReturnsUpToDate`; every event gets into the document and stays, unless one does not decode |
| `bank_rules` | 2 accounts, 2 tasks, 4 calls, 1 retry, balances of 2 bits | the business rules hold of the recorded history; the ledger is the sum of the accounts but for what each overflow takes off a balance |
| `evolution` | 3 releases, 3 event types, 4 events | `LoadsTellTruth`, `RenderReadsEverything`, `RollbackLoads`, `MigrationSticks` |

Definitions marked `Mutant:` in the modules are forms a mapped definition would have
with a plausible bug in the code (a dropped check, an off-by-one, a checkpoint saved
too early); each property is violated by the one `PROJECT.json` pairs it with.

### Divergences between code and documentation

* `service_error_after_commit`: `execute_snapshotting` answers `Err(Store)` when only
  the snapshot could not be saved; "maybe retry" then runs the command twice.
* `memory_partial_batch`: a batch with an event that does not serialize leaves its
  first events in a `MemoryStore`, and none in a `SqliteStore`.
* `sqlite_contention`: two appends on one file: the second fails at once with
  `StoreError::Backend`, although a busy timeout is set, because its deferred
  transaction has already read.  Nothing is lost; `execute_with_retry` does not
  retry it.
* `restate_appends_twice`: an attempt lost between its append and its journaling is
  run again and appends again.  `AppendsBounded` says that nothing else does.

Further observations, which the properties take into account:

* `execute_snapshotting` may put an older snapshot over a newer one; loads stay
  correct (`LoadsAgree`) and only fold more.
* Two overlapping runs of a subscription overwrite each other's checkpoint and handle
  events again after later ones, without a crash; so `RedeliversOnlyInFlight`,
  `RepeatsNeedFailures` and `MarkedStaysDone` speak of runs that do not overlap, and
  `NothingSkipped` and `InOrder` of all.
* A deposit that overflows a balance is accepted, and the ledger ("total money held
  across every account", `examples/bank-account/src/main.rs:177`) and the accounts part
  by 2^64; `LedgerHoldsTotal` counts these.  A reopened account is counted as opened twice.
* After a lost attempt a command may be answered as rejected although it took effect:
  its second run is decided on a state that has its first (`JournalTells`).
* `examples/counter/src/main.rs:15-16` says the counter "refuses to go negative or to
  overflow".  An `Increment` of a negative amount takes it below zero, and
  `restate-counter`, "identical business logic" (`examples/restate-counter/src/main.rs:27`),
  does not look for an overflow; `NegativeOnlyByIncrement` names both.
* `load_snapshotted` is "always identical to `load`" (`S/service.rs:273-274`) and
  deleting snapshots "only makes loads slower" (`S/snapshot.rs:9`) as long as every
  stored event decodes.  Where a snapshot covers events of an old shape, it loads and
  `load` fails; with the snapshot gone both do.  Nothing in `Service` runs upcasters:
  rendering through them and `save_snapshot` (`Migrate`) is the only way.
* Upcasters get the payload as stored, which for a derived event enum is
  `{"Deposited": {...}}`.  The example at `S/upcast.rs:13-28` takes the fields to be at
  the top.

### The bounds, and why they are enough

Every bound is a constant named `Max...` in its module.  Two contenders give every
race here, as a step touches one stream, one checkpoint or one document, and a task
that has returned calls again.  Three calls are a snapshot, an event after it, and a
call that finds both while the second task writes or saves between its awaits; a
fourth, in the bank account, opens and fills an account that two withdrawals race
for.  Two streams show that a step does not disturb another one's stream; the
object of `service_returns` has one key, as keys have nothing to do with each other.
One fault, two writing handlers and one call from outside give each of them somebody
to race: the other one's orphan, the caller, or its own first attempt.  Three
releases have one in the middle, that reads older and newer events.  A page of two
events (`BatchSize`, 256 in the code) has a first and a last event, and three events
give a full page, a short page and an event that arrives after a page was read.
With `Width` 2 two deposits of 2, or two increments, overflow.
Symmetry is used only over interchangeable tasks, stores and accounts and never with
a liveness property.

### Fairness

`RestateObject!FairSpec`: weak fairness of "some call takes its next step, or Restate
carries some invocation on".  An executor that has a future ready polls one, and Restate
retries for ever; which one goes first is left open, as all work is finite.  Nothing
makes an in-process caller begin a call.  Strong fairness is not needed: a lost race
uses up an attempt, and a conflict somebody else's append.  `Subscriptions!FairSpec` adds
weak fairness of starting the next run, which is how the docs say a consumer is kept
live ("Call it on a timer (or in a loop)").  `Projections!FairSpec` adds strong
fairness of starting `catch_up_view`, as its tasks may also call `replay_view` in
between: that a read model is kept up to date by calling again is the documented use,
and says nothing of the code.  Failures are bounded in number: nothing is
delivered while everything fails for ever.  `EventuallyMaterialised` promises that an
event stays in the document from some point on: while calls overlap the document may
move back.

## What is proved

Of the forty properties the passing runs check, the theorems state all but the four
liveness properties, `CallsReturn`, `InvocationsComplete`, `EventuallyDelivered` and
`EventuallyMaterialised`: liveness is out of the prover's reach.  They hold for every
set of streams, payloads, tasks, stores, runners, callers, invocations and releases,
every handler and snapshot policy, every batch size, and every value of the bounds, so
none of them depends on how small the instances are.

| Theorem | States | For any number of |
|---|---|---|
| `ServiceProofs`: `TypeCorrect`, `SnapshotsAreTransparent`, `SnapshotsFollowPolicy`, `CommandsSerializable` | `TypeOK`, `LoadsAgree`, `SnapshotsWhenDue`, `Serializable` | tasks, streams, calls, retries |
| `LogContiguous` | `StreamsContiguous`: versions count from 1 without a gap, which no run checks | the same |
| `AnswersTellCommits`, `ConflictsAreReal` | `AnswerTellsCommit`, `ConflictsHaveRivals` | the same |
| `ServiceImplementsCommands` | `ImplementsCommands` | the same |
| `ObjectImplementsService`, `ObjectSerializable`, `ObjectImplementsCommands` | `ObjectSpec => Spec`, `Serializable`, `ImplementsCommands` | invocations, faults, callers |
| `ObjectTypeCorrect`, `AppendsAreBounded`, `JournalTellsTruth`, `ReadsReflectWrites`, `ConflictsComeFromOutside` | `ObjectTypeOK`, `AppendsBounded`, `JournalTells`, `ReadsSeeWrites`, `ConflictsFromOutside` | the same |
| `AccountsKeepRules`, `CounterStaysAboveZero` | `RulesHold`, `NegativeOnlyByIncrement` | accounts, counters, bits |
| `LedgerStaysTrue` | `LedgerHoldsTotal` | accounts, if finite; bits |
| `DurableAccountsAreCovered` | `DurableRulesHold`, a rule for `durable-account` that no run checks | accounts, invocations, faults, bits |
| `MemoryStoreProofs`: `TypeCorrect`, `ScansStayContiguous`, `AnswersStayTrue`, `MemoryImplementsEventStore` | `TypeOK`, `TailsContiguous`, `AnswersTellPlaces`, `ImplementsEventStore` | streams, batches, lengths of the log |
| `SqliteStoreProofs`: `TypeCorrect`, `WritersStayCurrent`, `CheckpointsStayWithinLog`, `SqliteImplementsEventStore` | `TypeOK`, `WritersAreCurrent`, `CheckpointWithinLog`, `ImplementsEventStore` | stores on a file, losses of power |
| `SubscriptionsProofs`: `TypeCorrect`, `NoEventIsSkipped`, `EventsAreInOrder`, `OnlyInFlightIsRedelivered`, `RepetitionsCostFailures`, `MarkedEventsStayDone` | `TypeOK`, `NothingSkipped`, `InOrder`, `RedeliversOnlyInFlight`, `RepeatsNeedFailures`, `MarkedStaysDone` | runners, events, failures |
| `ProjectionsProofs`: `TypeCorrect`, `ViewsAreFaithful`, `ReturnsAreUpToDate` | `TypeOK`, `ViewFaithful`, `ReturnsUpToDate` | callers, events, failures |
| `EvolutionProofs`: `LoadsTellTheTruth`, `RendersReadEverything`, `RollbacksLoad`, `MigrationsStick` | `LoadsTellTruth`, `RenderReadsEverything`, `RollbackLoads`, `MigrationSticks` | releases, shapes, events |

The assumptions are those named in the modules, of which TLC evaluates each on its
instance.  `ServiceAssumption`: the numbers are natural, the modes are the three entry
points, and there is something to ask.  `RestateObjectAssumption`: invocations are of known
keys, commands and handlers.  `EvolutionAssumption`: newer releases know no fewer fields;
two releases with the same state shape have the same event shapes, as a state holds what
its release reads of the events; and a type's upcasters lead from shape 1 on, one step each.  `MemoryStoreAssumption`: there
is a stream, a batch and an expectation, of which `Init` makes up an answer.
`BankAccountAssumption` says that `Modulus`, which is 2^`Width`, is a positive number, as
the provers know nothing of powers.  The theorems about aggregates have a hypothesis
besides, `ServesAccounts`, `ServesDurableAccounts` and `ServesCounters`: `Service`, whose
payloads, commands and handler are constants, is given those of the example, which is what
`BankAccountRules.cfg`, `RestateAppendsTwice.cfg` and `ServiceReturns.cfg` do.
`LedgerStaysTrue` also supposes finitely many streams, as it is about their sum.

### The arguments

`EventLogProofs` has the facts about the log.  `Sound(log)` is contiguity, typed.
`AppendKeepsSound`: an append keeps it.  `AppendExtendsHistory`, `AppendKeepsOtherHistories`:
what it does to the history of its stream and of others.  `PrefixStays`: a prefix that
a stream has, it keeps.  Each component then has one inductive invariant, two lemmas
`Init...` and `Step...` for the induction, and its theorems follow from `Invariance`.

*The command path, `IInv`.*  None of `StreamsContiguous`, `LoadsAgree` and `Serializable`
is inductive.  `IInv` adds what connects them: a call at its append carries what the
handler decided on the state it has in hand (`Pending`), a call at its save has a state
its stream went through (`Saving`).  Then, for an append: the expectation passes only if
the stream's version is that of the state in hand, `LoadsAgree` says this state is the
stream's prefix at that version, which is now the whole history, and `Pending` says the
batch was decided on it.  So the new commit is serialized.  The old ones stay so because
`PrefixStays`.  `LoadsAgree` itself is kept by a load because the log is contiguous:
folding the versions after `v` onto the prefix of length `v` gives the history; and by a
save because of `Saving`.

*When a snapshot is due.*  The code compares two quotients, of the version before the
append and of the one after it, by `every`; `SnapshotsWhenDue` says instead that a call
which returns the events it recorded leaves a snapshot at the last of them exactly if one
of their versions is a multiple of `every`.  `DueIsCrossing` shows the two to be the
same when the events are those after the version in hand, which is what the append was
accepted on; `Due` keeps this from the append to the save.  In the other direction no
snapshot is ahead of its stream, so nobody else's can have the version that was
appended just now.

*Answers, `CInv`.*  On top of it: calls are told apart by their numbers and commits name
theirs (`Numbered`); at every label a call has the one commit, or none, that its answer
will tell (`Answered`); and the state a call decides on was current at some instant since
it began, with as many rivals before that version as it has used attempts
(`Witnessed`).  A conflict is the next rival: the append was refused because the stream
has grown past the version of the state in hand, every event in it is a commit's, and no
commit lies across that version (`Boundary`), so some commit lies after it and is not
among the ones counted before.  `ServiceImplementsCommands` maps a call to the point at
which it appends or is answered, and `Witnessed` is what `Commands` asks of a rejection:
that the state it was decided on was the stream's at some instant of the call.

*Objects, `OInv`.*  An attempt and an in-process caller begin a call of `Service`, every
other step of Restate leaves its variables alone, so `CInv` holds behind an object.  Every
call of an invocation is the one its open closure waits for, the one it has journaled, or one
made by an attempt that was lost, of which there are no more than `lost` counts
(`Accounted`); that is `AppendsBounded`, and with `Answered` it is `JournalTells`.
`Excluded` is what `MayRun` keeps: while a closure is open nobody else who holds the same
key is under way, and what they know they wrote, by the call they wait for or by their journal,
lies before the closure's call began.  A lost attempt's append may come at any time, but it is
a commit of its own that nobody's journal has (`JournaledBefore`, `KnewBefore`).  So the
rival that `ConflictsAreReal` gives a closure is an outsider: an in-process call, or the
append an attempt left behind (`LeftBehind`).

*Aggregates.*  `CommandsSerializable` says that every event of a stream was decided on
exactly the events before it.  The state decided on is a fold, and a fold goes on by one
element (`FoldPrefix`): so an event is legal where it stands because the handler that
decided on it checked just that.  The provers cannot instantiate an induction theorem
that takes a predicate; `FoldProofs` states induction for a set of numbers instead, and
unfolds `FoldLeft` once for any operator.  `ServiceProofs` and `EvolutionProofs` instantiate
the module.

*The durable account* has no close and accepts an amount of 0, so `RulesHold` is not about
it; `DurableRulesHold` is what its handlers check.  An attempt that is lost after its
append is run again, but its second run is decided on the history that has its first: a
withdrawal may be recorded twice, and each time there was money for it.

*The ledger, `Balanced(log)`.*  The ledger goes through the global log, an account through its
own stream, and a balance wraps: what an append changes must be said of all three at
once.  An account's `Held` is its balance and `Modulus` for each of its overflows.  An
event legal where it stands changes `Held` of its own account by what it moves
(`HeldChanges`: a deposit that wraps loses `Modulus` from the balance and adds an overflow; a
withdrawal never wraps, because it is covered) and the ledger by the same (`LedgerIs`);
the other accounts stay.  `TotalChanges` carries that to the sum.  It needs `IInv`, as
only serializability makes the event legal in the state the account is in at the append.
A sum over a set is a recursion along an order that `CHOOSE` picks; `FoldProofs` shows that
any element may be taken first (`AnyFirst`), by induction over the finite set.

*The memory store, `MInv`.*  The log is contiguous, also after a batch was left half-way:
its first events are numbered as an append of only those would have numbered them.  So
the versions of a stream after `v` are each at one position, and the place `Sorted` gives
an event, one more than how many are below it, is its version less `v` (`PlaceIs`,
counting by `VersionsBetween`).  It does not matter to the argument where in the log the
events are.

*SQLite, `SInv`.*  At most one connection writes.  A transaction that has read or
inserted is `Current`: what it saw and inserted is what an append to the log as it
is now would see and insert, unless its snapshot is `stale`, and then it never writes.
It has at least one event to insert, so it commits only as the writer.
A commit makes every other open transaction stale, so the one append that commits is the
`EventStore`'s append in one step.  What power can take the file back to is a prefix of
the log with a checkpoint within it (`Restorable`); `EventStore` lets the log fall back to
such a prefix.

*Subscriptions, `RunInv`.*  With any number of calls at once: a runner's batch has no gap
from its position on (`Batched`), a checkpoint is saved only where everything up to it was
handled.  While calls do not overlap, `Follows`: the one runner's position is the
checkpoint or the event after it, and `Repeatable` keeps a failure in store for the one
event that may come again.  Overlaps are known by a history variable, as the guarantee ends
with the first one.

*Read models, `PInv`.*  Every projection, stored or in hand, is exactly the fold of the log up
to its position; so it matters to nobody whose save comes last.  A call that finds
nothing due has all events up to the log's length when it began.

*Releases, `EInv`.*  Each event was written by some release that ran, the snapshot is what
one of them makes of the events it covers (`SnapshotOf`).  What decodes is never wrong
because decoding for a release after decoding for one with no fewer fields is decoding
once (`DecodedTwice`), and a snapshot decodes only for releases with no more
(`StateCoversEvents`).  `UpcastedIs` is the induction along the chain of a type: after
k upcasters a payload of any shape has shape k + 1 at least, and no fact has changed.

## What is not modelled, and why

* A store call that fails after it took effect (a connection lost during a commit):
  the stores here are in-process, and `StoreFails` has no effect.
* `u64` versions and positions that overflow, and the conversion to SQLite's `i64`:
  out of reach of any log.
* A poisoned mutex: no code that runs under the lock panics.
* The counter example's `ActivityView`: a view like any other, and `Projections` is about
  all of them.  The `main` functions of the examples.
* Releases whose types lose, rename or reinterpret fields, and a release that folds the
  same events into the same state differently: the snapshots of the other are then
  wrong and nothing notices (`EvolutionAssumption` excludes it).
* `testing::Scenario`, ids, metadata, derive and declarative macros: pure or
  generated code without state.
* The document operations of the stores as such: they are single reads and writes of
  a cell, modelled where they are used; `list` is used by none of the modelled parts.

## Where to go on

Every safety property that the runs check is proved.  What would extend the project:

1. A store whose append can fail after it took effect (a networked backend), and what
   `execute_with_retry` and the reactors then promise.
2. Documents under the concurrent `fetch` and `save` of several subscriptions and
   projections with names of their own, when one process shares them.
3. Liveness, when the prover can handle `ENABLED`.
