---------------------------- MODULE Subscriptions ----------------------------
(***************************************************************************)
(* One named subscription: pump, run_publisher and run_reactor run the     *)
(* same loop over the log from a checkpoint in the document store.  Calls  *)
(* of it (runners) may fail or be dropped at every await, and come again.  *)
(* The consumer optionally guards its effect with already_processed and    *)
(* mark_processed.                                                         *)
(***************************************************************************)
EXTENDS GlobalRead

CONSTANTS
    Runner,       \* concurrent calls with this subscription's name
    Name,         \* the names of recorded events
    Wanted,       \* E::event_types()
    Undecodable,  \* names whose stored payload no longer decodes as E
    BatchSize,    \* DEFAULT_BATCH
    MaxLog,       \* bound: how many events are ever recorded
    MaxFailures   \* bound: how many calls fail or are dropped

ASSUME SubscriptionsAssumption ==
    /\ Wanted \subseteq Name
    /\ Undecodable \subseteq Name
    /\ BatchSize \in Nat \ {0}
    /\ MaxLog \in Nat
    /\ MaxFailures \in Nat

VARIABLES
    log,         \* the name of the event at each global position
    checkpoint,  \* the __checkpoint document; 0 where there is none
    processed,   \* the __processed markers
    pc,          \* where each runner is
    position,    \* its position
    batch,       \* the events it has read and not finished with
    idempotent,  \* does the consumer use the idempotency markers?
    delivered,   \* history: every effect of the consumer, in order
    failures,    \* history: how many calls failed or were dropped
    overlapped   \* history: was a call begun while another one was under way?

vars == <<log, checkpoint, processed, pc, position, batch, idempotent,
          delivered, failures, overlapped>>
flags == <<idempotent, overlapped>>

TypeOK ==
    /\ log \in Seq(Name) /\ Len(log) <= MaxLog
    /\ checkpoint \in 0..MaxLog
    /\ processed \subseteq 1..MaxLog
    /\ pc \in [Runner -> {"idle", "read", "check", "handle", "mark", "save"}]
    /\ position \in [Runner -> 0..MaxLog]
    /\ batch \in [Runner -> SUBSET (1..MaxLog)]
    /\ delivered \in Seq(1..MaxLog)
    /\ failures \in 0..MaxFailures
    /\ idempotent \in BOOLEAN /\ overlapped \in BOOLEAN

Init ==
    /\ log = <<>>
    /\ checkpoint = 0
    /\ processed = {}
    /\ pc = [r \in Runner |-> "idle"]
    /\ position = [r \in Runner |-> 0]
    /\ batch = [r \in Runner |-> {}]
    /\ delivered = <<>>
    /\ failures = 0
    /\ idempotent \in BOOLEAN
    /\ overlapped = FALSE

Goto(r, label) == pc' = [pc EXCEPT ![r] = label]

(* A command is executed somewhere: the log grows. *)
Record ==
    /\ Len(log) < MaxLog
    /\ \E name \in Name : log' = Append(log, name)
    /\ UNCHANGED <<checkpoint, processed, pc, position, batch, delivered, failures, flags>>

-----------------------------------------------------------------------------
(* load_checkpoint *)
Start(r) ==
    /\ pc[r] = "idle"
    /\ position' = [position EXCEPT ![r] = checkpoint]
    /\ Goto(r, "read")
    /\ overlapped' = (overlapped \/ \E other \in Runner : pc[other] # "idle")
    /\ UNCHANGED <<log, checkpoint, processed, batch, delivered, failures, idempotent>>

Page(r) == ReadAll(log, Wanted, position[r], BatchSize)

(* One event that does not decode fails the whole page. *)
Decodes(page) == \A p \in page : log[p] \notin Undecodable

ToHandle == IF idempotent THEN "check" ELSE "handle"

Read(r) ==
    /\ pc[r] = "read"
    /\ Decodes(Page(r))
    /\ batch' = [batch EXCEPT ![r] = Page(r)]
    /\ Goto(r, IF Page(r) = {} THEN "idle" ELSE ToHandle)
    /\ UNCHANGED <<log, checkpoint, processed, position, delivered, failures, flags>>

Event(r) == First(batch[r])

(* Mutant: the marker is not looked at. *)
CheckNothing(r) ==
    /\ pc[r] = "check"
    /\ Goto(r, "handle")
    /\ UNCHANGED <<log, checkpoint, processed, position, batch, delivered, failures, flags>>

(* already_processed, as the first thing the consumer does *)
Check(r) ==
    /\ pc[r] = "check"
    /\ Goto(r, IF Event(r) \in processed THEN "save" ELSE "handle")
    /\ position' = IF Event(r) \in processed
                   THEN [position EXCEPT ![r] = Event(r)] ELSE position
    /\ UNCHANGED <<log, checkpoint, processed, batch, delivered, failures, flags>>

(* The consumer's effect: handle, publish or react. *)
Deliver(r) == delivered' = Append(delivered, Event(r))

HandleEvent(r) ==
    /\ pc[r] = "handle"
    /\ Deliver(r)
    /\ Goto(r, IF idempotent THEN "mark" ELSE "save")
    /\ position' = [position EXCEPT ![r] = Event(r)]
    /\ UNCHANGED <<log, checkpoint, processed, batch, failures, flags>>

(* mark_processed, as the last thing the consumer does *)
Mark(r) ==
    /\ pc[r] = "mark"
    /\ processed' = processed \cup {Event(r)}
    /\ Goto(r, "save")
    /\ UNCHANGED <<log, checkpoint, position, batch, delivered, failures, flags>>

(* save_checkpoint, and on to the next event of the batch or the next batch *)
SaveAs(r, saved) ==
    /\ pc[r] = "save"
    /\ checkpoint' = saved
    /\ batch' = [batch EXCEPT ![r] = @ \ {position[r]}]
    /\ Goto(r, IF batch[r] = {position[r]} THEN "read" ELSE ToHandle)
    /\ UNCHANGED <<log, processed, position, delivered, failures, flags>>

(* Mutants: the checkpoint is one event ahead, is saved for the whole      *)
(* batch before the rest of it is handled, or only once it is done with.   *)
SaveNext(r)       == SaveAs(r, position[r] + 1)
SaveWholeBatch(r) == SaveAs(r, FirstDescending(batch[r]))
SaveAtBatchEnd(r) ==
    SaveAs(r, IF batch[r] = {position[r]} THEN position[r] ELSE checkpoint)

Save(r) == SaveAs(r, position[r])

-----------------------------------------------------------------------------
Stop(r) ==
    /\ Goto(r, "idle")
    /\ batch' = [batch EXCEPT ![r] = {}]

(* An await fails or the future is dropped there; an effect under way may  *)
(* have happened, or not.  The checkpoint stays.                           *)
Fail(r) ==
    /\ pc[r] # "idle"
    /\ failures < MaxFailures
    /\ failures' = failures + 1
    /\ Stop(r)
    /\ \/ UNCHANGED delivered
       \/ pc[r] = "handle" /\ Deliver(r)
    /\ UNCHANGED <<log, checkpoint, processed, position, flags>>

(* read_all returns StoreError::Serialization: so does the run. *)
ReadFails(r) ==
    /\ pc[r] = "read"
    /\ ~Decodes(Page(r))
    /\ Stop(r)
    /\ UNCHANGED <<log, checkpoint, processed, position, delivered, failures, flags>>

Step(r) ==
    Read(r) \/ ReadFails(r) \/ Check(r) \/ HandleEvent(r) \/ Mark(r) \/ Save(r)

Next == Record \/ \E r \in Runner : Start(r) \/ Step(r) \/ Fail(r)

Spec == Init /\ [][Next]_vars

(* "Call it on a timer (or in a loop) to keep a consumer live." *)
FairSpec == Spec /\ \A r \in Runner : WF_vars(Start(r)) /\ WF_vars(Step(r))

-----------------------------------------------------------------------------
(* Properties. *)

Delivered == {delivered[i] : i \in DOMAIN delivered}

UpTo(p) == {q \in Matching(log, Wanted, 0) : q <= p}

(* At least once: neither the stored checkpoint nor a runner's position    *)
(* ever passes an event of the subscription that was not handled.          *)
NothingSkipped ==
    /\ UpTo(checkpoint) \subseteq Delivered
    /\ \A r \in Runner : UpTo(position[r]) \subseteq Delivered

(* In order: an event is not handled before those recorded earlier. *)
InOrder ==
    \A i \in DOMAIN delivered :
        UpTo(delivered[i]) \subseteq {delivered[j] : j \in 1..i}

(* "A crash re-delivers at most the in-flight event": as long as calls do  *)
(* not overlap, nothing older than the last event handled is handled again. *)
RedeliversOnlyInFlight ==
    ~overlapped => \A i \in 2..Len(delivered) : delivered[i] >= delivered[i - 1]

(* As long as calls do not overlap, each event is handled once, and each   *)
(* failure costs at most one repetition.                                   *)
RepeatsNeedFailures ==
    ~overlapped => Len(delivered) <= Cardinality(Delivered) + failures

(* As long as calls do not overlap, what a consumer has marked as processed *)
(* it does not handle again.                                               *)
Times(p, events) == Cardinality({i \in DOMAIN events : events[i] = p})

MarkedStaysDone ==
    [][~overlapped' => \A p \in processed : Times(p, delivered') = Times(p, delivered)]_vars

(* Liveness: an event is handled in the end unless a page that holds it    *)
(* fails to decode, which only an undecodable event before it, or among    *)
(* the BatchSize - 1 that follow it, can bring about.                      *)
PageMates(p) ==
    LET matching == Matching(log, Wanted, 0)
    IN {q \in matching : Cardinality({x \in matching : p < x /\ x <= q}) < BatchSize}

Reachable(p) == p \in Matching(log, Wanted, 0) /\ Decodes(PageMates(p))

EventuallyDelivered ==
    \A p \in 1..MaxLog : Reachable(p) ~> (p \in Delivered \/ ~Reachable(p))
=============================================================================
