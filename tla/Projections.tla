----------------------------- MODULE Projections -----------------------------
(***************************************************************************)
(* One persisted read model: concurrent calls of catch_up_view on the same *)
(* document, and of replay_view, over the log they fold.                   *)
(*                                                                         *)
(* A View is any fold over the events it wants, so a view is the sequence  *)
(* of the positions of the events applied to V::default().                 *)
(***************************************************************************)
EXTENDS GlobalRead

CONSTANTS
    Caller,       \* tasks that call catch_up_view or replay_view
    Name,         \* the names of recorded events
    Wanted,       \* V::Event::event_types()
    Undecodable,  \* names whose stored payload no longer decodes as V::Event
    BatchSize,    \* DEFAULT_BATCH
    Mode,         \* the calls in use, of catch_up_view and replay_view
    MaxLog,       \* bound: how many events are ever recorded
    MaxFailures   \* bound: how many calls fail or are dropped

ASSUME ProjectionsAssumption ==
    /\ Wanted \subseteq Name
    /\ Undecodable \subseteq Name
    /\ BatchSize \in Nat \ {0}
    /\ MaxLog \in Nat
    /\ MaxFailures \in Nat
    /\ Mode \subseteq {"catch_up_view", "replay_view"}

(* Projection<V> *)
Projection == [view : Seq(1..MaxLog), position : 0..MaxLog]

(* Projection::default() *)
Empty == [view |-> <<>>, position |-> 0]

VARIABLES
    log,         \* the name of the event at each global position
    stored,      \* the document; Empty where there is none
    pc,          \* where each call is
    mode,        \* which of the two it is
    projection,  \* the one it has in hand, and returns
    changed,     \* did it fold any event?
    answer,      \* "Ok", or "None" while it runs and when it failed or was dropped
    failures,    \* history: how many calls failed or were dropped
    since        \* history: the length of the log when each call began

vars == <<log, stored, pc, mode, projection, changed, answer, failures, since>>

TypeOK ==
    /\ log \in Seq(Name) /\ Len(log) <= MaxLog
    /\ stored \in Projection
    /\ pc \in [Caller -> {"idle", "read", "save"}]
    /\ mode \in [Caller -> {"catch_up_view", "replay_view"}]
    /\ projection \in [Caller -> Projection]
    /\ changed \in [Caller -> BOOLEAN]
    /\ answer \in [Caller -> {"Ok", "None"}]
    /\ failures \in 0..MaxFailures
    /\ since \in [Caller -> 0..MaxLog]

Init ==
    /\ log = <<>>
    /\ stored = Empty
    /\ pc = [c \in Caller |-> "idle"]
    /\ mode = [c \in Caller |-> "replay_view"]
    /\ projection = [c \in Caller |-> Empty]
    /\ changed = [c \in Caller |-> FALSE]
    /\ answer = [c \in Caller |-> "None"]
    /\ failures = 0
    /\ since = [c \in Caller |-> 0]

Goto(c, label) == pc' = [pc EXCEPT ![c] = label]

(* The call is over; of its locals only the projection may be returned. *)
End(c) ==
    /\ Goto(c, "idle")
    /\ mode' = [mode EXCEPT ![c] = "replay_view"]
    /\ changed' = [changed EXCEPT ![c] = FALSE]

Return(c) ==
    /\ End(c)
    /\ answer' = [answer EXCEPT ![c] = "Ok"]
    /\ UNCHANGED <<projection, since>>

Abandon(c) ==
    /\ End(c)
    /\ projection' = [projection EXCEPT ![c] = Empty]
    /\ since' = [since EXCEPT ![c] = 0]
    /\ UNCHANGED answer

(* A command is executed somewhere: the log grows. *)
Record ==
    /\ Len(log) < MaxLog
    /\ \E name \in Name : log' = Append(log, name)
    /\ UNCHANGED <<stored, pc, mode, projection, changed, answer, failures, since>>

-----------------------------------------------------------------------------
BeginWith(c, m, start) ==
    /\ pc[c] = "idle"
    /\ m \in Mode
    /\ since' = [since EXCEPT ![c] = Len(log)]
    /\ mode' = [mode EXCEPT ![c] = m]
    /\ projection' = [projection EXCEPT ![c] = start]
    /\ answer' = [answer EXCEPT ![c] = "None"]
    /\ Goto(c, "read")
    /\ UNCHANGED <<log, stored, changed, failures>>

BeginReplay(c) == BeginWith(c, "replay_view", Empty)

(* catch_up_view, first await: the document, or the default. *)
BeginCatchUp(c) == BeginWith(c, "catch_up_view", stored)

Page(c) == ReadAll(log, Wanted, projection[c].position, BatchSize)

(* One event that does not decode fails the whole page. *)
Decodes(page) == \A p \in page : log[p] \notin Undecodable

(* Mutant: the position is that of the next event to read. *)
FoldedToNext(base, page) ==
    [view     |-> base.view \o Ascending(page),
     position |-> (CHOOSE p \in page : \A q \in page : q <= p) + 1]

(* Apply a page's events, in order; the position is that of the last. *)
Folded(base, page) ==
    [view     |-> base.view \o Ascending(page),
     position |-> CHOOSE p \in page : \A q \in page : q <= p]

FoldPage(c) ==
    /\ pc[c] = "read"
    /\ Page(c) # {}
    /\ Decodes(Page(c))
    /\ projection' = [projection EXCEPT ![c] = Folded(@, Page(c))]
    /\ changed' = [changed EXCEPT ![c] = TRUE]
    /\ UNCHANGED <<log, stored, pc, mode, answer, failures, since>>

(* Mutant: the document is saved when it did not change. *)
SaveDueUnchanged(c) == mode[c] = "catch_up_view" /\ ~changed[c]

(* catch_up_view saves the document if it changed. *)
SaveDue(c) == mode[c] = "catch_up_view" /\ changed[c]

SaveOrReturn(c) ==
    /\ \/ /\ SaveDue(c)
          /\ Goto(c, "save")
          /\ UNCHANGED <<mode, projection, changed, answer, since>>
       \/ ~SaveDue(c) /\ Return(c)
    /\ UNCHANGED <<log, stored, failures>>

(* Mutant: one page is taken to be all there is. *)
CaughtUpAfterOnePage(c) ==
    /\ pc[c] = "read"
    /\ Page(c) = {} \/ changed[c]
    /\ SaveOrReturn(c)

(* The page is empty. *)
CaughtUp(c) ==
    /\ pc[c] = "read"
    /\ Page(c) = {}
    /\ SaveOrReturn(c)

Save(c) ==
    /\ pc[c] = "save"
    /\ stored' = projection[c]
    /\ Return(c)
    /\ UNCHANGED <<log, failures>>

(* read_all returns StoreError::Serialization: so does the call. *)
ReadFails(c) ==
    /\ pc[c] = "read"
    /\ ~Decodes(Page(c))
    /\ Abandon(c)
    /\ UNCHANGED <<log, stored, failures>>

(* An await fails, or the future is dropped there. *)
Fail(c) ==
    /\ pc[c] # "idle"
    /\ failures < MaxFailures
    /\ failures' = failures + 1
    /\ Abandon(c)
    /\ UNCHANGED <<log, stored>>

Step(c) == FoldPage(c) \/ CaughtUp(c) \/ Save(c) \/ ReadFails(c)

Next ==
    \/ Record
    \/ \E c \in Caller : BeginReplay(c) \/ BeginCatchUp(c) \/ Step(c) \/ Fail(c)

Spec == Init /\ [][Next]_vars

(* "On each call we load it, fold in any events that have arrived since":  *)
(* a read model is kept by calling again, whatever else the task does in   *)
(* between, and every call is polled.                                      *)
FairSpec ==
    Spec /\ \A c \in Caller : SF_vars(BeginCatchUp(c)) /\ WF_vars(Step(c))

-----------------------------------------------------------------------------
(* Properties. *)

Exactly(p) ==
    p.view = Ascending({q \in Matching(log, Wanted, 0) : q <= p.position})

(* "Pick up exactly where you left off": whatever calls overlap, fail or   *)
(* overwrite each other's document, a projection, stored or in hand, has   *)
(* every wanted event up to its position applied once, in global order.    *)
ViewFaithful ==
    /\ Exactly(stored)
    /\ \A c \in Caller : Exactly(projection[c])

(* "Returns the up-to-date projection": it misses no event recorded before *)
(* the call began, even when another call moves the document back.         *)
ReturnsUpToDate ==
    \A c \in Caller :
        answer[c] = "Ok" =>
            \A p \in Matching(log, Wanted, 0) :
                p <= since[c] => \E i \in DOMAIN projection[c].view : projection[c].view[i] = p

(* Liveness: a wanted event gets into the document and, although a call    *)
(* that overlaps may still save an older one, in the end stays there.  One *)
(* event anywhere in the log that does not decode ends this: a call saves  *)
(* nothing of the pages it has folded before.                              *)
EventuallyMaterialised ==
    \A p \in 1..MaxLog :
        p \in Matching(log, Wanted, 0) ~>
            (~Decodes(Matching(log, Wanted, 0)) \/ [](p <= stored.position))
=============================================================================
