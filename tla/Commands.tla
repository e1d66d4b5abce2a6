------------------------------ MODULE Commands ------------------------------
(***************************************************************************)
(* What Service promises its callers, without versions, loads, snapshots   *)
(* or retries: a call takes effect at one instant, by adding to its        *)
(* stream's history what the handler decides on all of that history, and   *)
(* the answer tells whether it did.                                        *)
(***************************************************************************)
EXTENDS Integers, Sequences

CONSTANTS Stream, Payload, Task, Command, Handle(_, _)

VARIABLES
    history,    \* stream -> the events recorded in it
    open,       \* task -> whether a call of it is under way
    asked,      \* task -> the stream and command of its last call
    since,      \* task -> the length of that history when the call began
    answer      \* task -> what the call returned, or is bound to return

vars == <<history, open, asked, since, answer>>

Ok(events) == [tag |-> "Ok", events |-> events]
Err(tag)   == [tag |-> tag, events |-> <<>>]

Init ==
    /\ history = [s \in Stream |-> <<>>]
    /\ open = [t \in Task |-> FALSE]
    /\ asked \in [Task -> [stream : Stream, command : Command]]
    /\ since = [t \in Task |-> 0]
    /\ answer = [t \in Task |-> Err("None")]

HistoryOf(t) == history[asked[t].stream]

(* The call is under way and has had no effect yet. *)
Undecided(t) == open[t] /\ answer[t] = Err("None")

Close(t, result) ==
    /\ open' = [open EXCEPT ![t] = FALSE]
    /\ answer' = [answer EXCEPT ![t] = result]
    /\ UNCHANGED <<history, asked, since>>

Begin(t) ==
    /\ ~open[t]
    /\ \E s \in Stream, c \in Command :
        /\ asked' = [asked EXCEPT ![t] = [stream |-> s, command |-> c]]
        /\ since' = [since EXCEPT ![t] = Len(history[s])]
    /\ open' = [open EXCEPT ![t] = TRUE]
    /\ answer' = [answer EXCEPT ![t] = Err("None")]
    /\ UNCHANGED history

(* The call takes effect, on the whole history; it is over, or still has   *)
(* bookkeeping to do.                                                      *)
Commit(t) ==
    /\ Undecided(t)
    /\ \E d \in Handle(asked[t].command, HistoryOf(t)) :
        /\ d.tag = "Ok" /\ d.events # <<>>
        /\ history' = [history EXCEPT ![asked[t].stream] = @ \o d.events]
        /\ answer' = [answer EXCEPT ![t] = d]
    /\ open' \in {open, [open EXCEPT ![t] = FALSE]}
    /\ UNCHANGED <<asked, since>>

Return(t) ==
    /\ open[t] /\ answer[t] # Err("None")
    /\ Close(t, answer[t])

(* A call that writes nothing answers for the history as it was at some    *)
(* instant of the call.                                                    *)
Decline(t) ==
    /\ Undecided(t)
    /\ \E v \in since[t]..Len(HistoryOf(t)) :
       \E d \in Handle(asked[t].command, SubSeq(HistoryOf(t), 1, v)) :
          /\ d \in {Err("Rejected"), Ok(<<>>)}
          /\ Close(t, d)

(* Only when others wrote the stream during the call. *)
Conflict(t) ==
    /\ Undecided(t)
    /\ Len(HistoryOf(t)) > since[t]
    /\ Close(t, Err("Conflict"))

(* The store failed, or the future was dropped: the caller learns nothing, *)
(* and the call may have taken effect.                                     *)
Abort(t) ==
    /\ open[t]
    /\ \E tag \in {"StoreError", "None"} : Close(t, Err(tag))

Next == \E t \in Task :
    Begin(t) \/ Commit(t) \/ Return(t) \/ Decline(t) \/ Conflict(t) \/ Abort(t)

Spec == Init /\ [][Next]_vars
=============================================================================
