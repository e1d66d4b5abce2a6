---------------------------- MODULE RestateObject ----------------------------
(***************************************************************************)
(* A Restate Virtual Object over a Service: what durable_object! generates *)
(* and what restate-counter writes by hand.                                *)
(*                                                                         *)
(* A handler is a sequence of ctx.run closures, each of which calls the    *)
(* service once.  Restate journals a closure's result and, when it retries *)
(* an invocation, replays what is journaled and runs the next closure.  A  *)
(* closure is an ordinary call of Service, so it goes on by the steps of   *)
(* Service in a task of its own, next to the calls of whoever else uses    *)
(* the same store: service! emits an in-process service as well.           *)
(***************************************************************************)
EXTENDS Service

CONSTANTS
    Invocation,     \* records [id, key, handler, command]: what clients invoke
    NoTask,         \* no attempt is running
    LocalRequest,   \* what in-process callers of the service ask of it
    MaxLocalCalls,  \* bound: how many calls in-process callers make
    MaxFaults       \* bound: how many attempts die, store calls fail or calls are dropped

ASSUME RestateObjectAssumption ==
    /\ NoTask \notin Task
    /\ \A i \in Invocation :
          /\ i.key \in Stream /\ i.command \in Command
          /\ i.handler \in {"submit", "apply", "get"}
    /\ "execute" \in Mode
    /\ LocalRequest \subseteq Request
    /\ MaxLocalCalls \in Nat /\ MaxFaults \in Nat

VARIABLES
    journal,   \* the results of the closures that were run, in order
    worker,    \* the task of the call the open closure made
    lost,      \* history: how many attempts died before their result was journaled
    made,      \* history: the calls the invocation has made
    faults     \* history: how many of these there were

journals   == <<journal, worker, lost, made>>
objectVars == <<vars, journals, faults>>

(* What the handler does: a method of durable_object! submits its command, *)
(* the writing handlers of restate-counter append and read the value back, *)
(* its get only reads.                                                     *)
Runs(i) ==
    CASE i.handler = "submit" -> <<"write">>
      [] i.handler = "apply"  -> <<"write", "read">>
      [] i.handler = "get"    -> <<"read">>

(* Restate runs one handler of an object key at a time, the #[shared] ones *)
(* apart.                                                                  *)
Exclusive(i) == i.handler # "get"

(* A journal entry is a Result of Service, or the state read_state saw. *)
ReadOf(rendered) == [tag |-> "Read", seen |-> rendered]

(* map_service_error: a rejection is terminal, it is journaled and ends    *)
(* the invocation; an error of the store is retryable.                     *)
IsTerminal(result) == result = Rejected

(* The handler returns, with the last result or a terminal error. *)
Done(i) ==
    \/ Len(journal[i]) = Len(Runs(i))
    \/ \E k \in DOMAIN journal[i] : IsTerminal(journal[i][k])

ObjectTypeOK ==
    /\ TypeOK
    /\ \A i \in Invocation :
          /\ Len(journal[i]) <= Len(Runs(i))
          /\ \A k \in DOMAIN journal[i] :
                \/ Runs(i)[k] = "write" /\ journal[i][k].tag = "Ok"
                \/ Runs(i)[k] = "write" /\ IsTerminal(journal[i][k]) /\ k = Len(journal[i])
                \/ Runs(i)[k] = "read" /\ journal[i][k].tag = "Read"
                   /\ journal[i][k].seen \in Rendered
          /\ worker[i] # NoTask => ~Done(i) /\ call[worker[i]] \in made[i]
    /\ worker \in [Invocation -> Task \cup {NoTask}]
    /\ lost \in [Invocation -> 0..MaxFaults]
    /\ made \in [Invocation -> SUBSET (1..begun)]
    /\ faults \in 0..MaxFaults

ObjectInit ==
    /\ Init
    /\ journal = [i \in Invocation |-> <<>>]
    /\ worker = [i \in Invocation |-> NoTask]
    /\ lost = [i \in Invocation |-> 0]
    /\ made = [i \in Invocation |-> {}]
    /\ faults = 0

IsWorker(t) == \E i \in Invocation : worker[i] = t

-----------------------------------------------------------------------------
(* Restate. *)

(* Mutant: the handlers of one object are not kept apart. *)
MayRunBeside(i) == TRUE

(* The handler has its key to itself; before its first closure and after   *)
(* its last it does nothing that would need it.                            *)
MayRun(i) ==
    \A j \in Invocation \ {i} :
        Exclusive(i) /\ Exclusive(j) /\ j.key = i.key => made[j] = {} \/ Done(j)

(* Mutant: an attempt after a lost one does not find its journal. *)
ComesToFirst(i, run) ==
    /\ ~Done(i) /\ worker[i] = NoTask
    /\ run = Runs(i)[IF lost[i] > 0 THEN 1 ELSE Len(journal[i]) + 1]

(* The handler has replayed its journal and comes to a closure that has no *)
(* result there.                                                           *)
ComesTo(i, run) ==
    /\ ~Done(i) /\ worker[i] = NoTask
    /\ run = Runs(i)[Len(journal[i]) + 1]

(* execute_command, submit_command: the closure calls the service. *)
Attempt(i) ==
    /\ ComesTo(i, "write") /\ MayRun(i)
    /\ \E t \in Task :
        /\ ~IsWorker(t)
        /\ BeginWith(t, [stream |-> i.key, command |-> i.command, mode |-> "execute"])
        /\ worker' = [worker EXCEPT ![i] = t]
        /\ made' = [made EXCEPT ![i] = @ \cup {call'[t]}]
    /\ UNCHANGED <<journal, lost, faults>>

Returned(i) == worker[i] # NoTask /\ pc[worker[i]] = "idle"

(* The closure's call has returned what is kept: Restate journals it. *)
JournalRun(i) ==
    /\ Returned(i)
    /\ LET result == reply[worker[i]]
       IN /\ result.tag = "Ok" \/ IsTerminal(result)
          /\ journal' = [journal EXCEPT ![i] = Append(@, result)]
    /\ worker' = [worker EXCEPT ![i] = NoTask]
    /\ UNCHANGED <<vars, lost, made, faults>>

(* Mutant: the next attempt is given the answer of the old one's call. *)
RedoSameCall(i) ==
    /\ Returned(i)
    /\ reply[worker[i]].tag # "Ok" /\ ~IsTerminal(reply[worker[i]])
    /\ UNCHANGED objectVars

(* It has failed, or was dropped: Restate tries the invocation again. *)
Redo(i) ==
    /\ Returned(i)
    /\ reply[worker[i]].tag # "Ok" /\ ~IsTerminal(reply[worker[i]])
    /\ worker' = [worker EXCEPT ![i] = NoTask]
    /\ UNCHANGED <<vars, journal, lost, made, faults>>

(* The attempt dies before its result is journaled, or Restate takes it    *)
(* for dead: its call goes on, but nobody waits for it.                    *)
AttemptLost(i) ==
    /\ worker[i] # NoTask
    /\ faults < MaxFaults
    /\ lost' = [lost EXCEPT ![i] = @ + 1]
    /\ worker' = [worker EXCEPT ![i] = NoTask]
    /\ faults' = faults + 1
    /\ UNCHANGED <<vars, journal, made>>

(* Mutant: the state is read from the last snapshot. *)
ReadSnapshot(s) == snapshots[s]

(* What load gives read_state. *)
ReadNow(s) == Rebuilt(s)

(* read_state, a single call of the store, and its result journaled; that  *)
(* it fails, or that the attempt dies first, leaves no trace.              *)
ReadState(i) ==
    /\ ComesTo(i, "read") /\ MayRun(i)
    /\ journal' = [journal EXCEPT ![i] = Append(@, ReadOf(ReadNow(i.key)))]
    /\ UNCHANGED <<vars, worker, lost, made, faults>>

(* What Restate does about invocation i as long as nothing is lost. *)
Durable(i) ==
    \/ Attempt(i) \/ JournalRun(i) \/ Redo(i) \/ ReadState(i)

-----------------------------------------------------------------------------
(* The service behind the object, and its in-process callers. *)

LocalCalls == 1..begun \ UNION {made[i] : i \in Invocation}

LocalCall(t) ==
    /\ ~IsWorker(t)
    /\ Cardinality(LocalCalls) < MaxLocalCalls
    /\ \E r \in LocalRequest : BeginWith(t, r)
    /\ UNCHANGED <<journals, faults>>

ServiceStep(t) == Step(t) /\ UNCHANGED <<journals, faults>>

Fails(t) ==
    /\ faults < MaxFaults
    /\ StoreFails(t) \/ Cancel(t)
    /\ faults' = faults + 1
    /\ UNCHANGED journals

SnapshotDeleted(s) == DeleteSnapshot(s) /\ UNCHANGED <<journals, faults>>

(* Every call has returned and every invocation completed, or the bound on *)
(* calls is reached.                                                       *)
ObjectFinished ==
    /\ begun = MaxCalls \/ \A i \in Invocation : Done(i)
    /\ \A t \in Task : pc[t] = "idle"
    /\ UNCHANGED objectVars

ObjectNext ==
    \/ \E i \in Invocation : Durable(i) \/ AttemptLost(i)
    \/ \E t \in Task : LocalCall(t) \/ ServiceStep(t) \/ Fails(t)
    \/ \E s \in Stream : SnapshotDeleted(s)
    \/ ObjectFinished

ObjectSpec == ObjectInit /\ [][ObjectNext]_objectVars

(* Neither the executor nor Restate, which retries without end, rests while *)
(* there is a call to poll or an invocation to carry on with.              *)
FairSpec ==
    /\ ObjectSpec
    /\ WF_objectVars(\/ \E t \in Task : ServiceStep(t)
                     \/ \E i \in Invocation : Durable(i))

-----------------------------------------------------------------------------
(* Properties. *)

CommitsFor(i) == {c \in commits : c.call \in made[i]}

(* "Restate replays the recorded events on retries rather than             *)
(* re-appending": an invocation appends once.                              *)
NeverAppendsTwice == \A i \in Invocation : Cardinality(CommitsFor(i)) <= 1

(* What the code keeps of that: it appends once more for each attempt that *)
(* died with its result unjournaled, and for nothing else; a conflict, a   *)
(* failed store call or a dropped call never doubles a command.            *)
AppendsBounded ==
    \A i \in Invocation : Cardinality(CommitsFor(i)) <= 1 + lost[i]

(* The journal tells what was written: journaled events are in the log at  *)
(* the versions the journal gives, written by the invocation; and one      *)
(* journaled as rejected, or as having recorded nothing, has written only  *)
(* in attempts that were lost.                                             *)
JournalTells ==
    \A i \in Invocation : journal[i] # <<>> /\ Runs(i)[1] = "write" =>
        LET entry == journal[i][1]
        IN IF entry.events # <<>>
           THEN \E c \in CommitsFor(i) :
                   /\ entry.events = NumberedFrom(c.stream, c.from, c.events)
                   /\ c.command = i.command
           ELSE Cardinality(CommitsFor(i)) <= lost[i]

(* What a handler returns reflects its own append: it is the state at a    *)
(* version not before the events it has journaled, whatever was appended,  *)
(* lost or run again between the two closures.                             *)
ReadsSeeWrites ==
    \A i \in Invocation : \A k \in DOMAIN journal[i] : Runs(i)[k] = "read" =>
        LET read == journal[i][k].seen
        IN /\ RenderedAt(i.key, read)
           /\ \A j \in 1..(k - 1) : \A n \in DOMAIN journal[i][j].events :
                 journal[i][j].events[n].version <= read.version

(* An invocation knows of a commit that its open closure's call made, or   *)
(* whose events are in its journal; the others its lost attempts left.     *)
KnowsOf(j, c) ==
    \/ worker[j] # NoTask /\ call[worker[j]] = c.call
    \/ /\ journal[j] # <<>> /\ Runs(j)[1] = "write"
       /\ journal[j][1].events = NumberedFrom(c.stream, c.from, c.events)

LeftBehind(j, c) == lost[j] > 0 /\ ~KnowsOf(j, c)

(* The handlers of one object do not race: a closure loses its append only *)
(* to somebody outside, an in-process caller or an attempt that was lost.  *)
Outside(c) == \A j \in Invocation : c.call \in made[j] => LeftBehind(j, c)

ConflictsFromOutside ==
    \A i \in Invocation : Returned(i) /\ reply[worker[i]] = Conflict =>
        \E c \in RivalsOf(worker[i]) : Outside(c)

(* Liveness: the invocations all get to an end and stay there, through     *)
(* conflicts, failed store calls and lost attempts, once these stop.       *)
InvocationsComplete == []<>(\A i \in Invocation : Done(i))
=============================================================================
