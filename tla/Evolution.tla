------------------------------ MODULE Evolution ------------------------------
(***************************************************************************)
(* One event stream and its snapshot while the code that reads and writes  *)
(* them changes: a rolling deployment, in which versions of the program    *)
(* with other event and state types run next to each other, and Upcasters, *)
(* which rewrite old payloads as they are read.                            *)
(*                                                                         *)
(* Types change by gaining fields: shape n of a type has the fields 1 to   *)
(* n.  serde ignores a field the reader does not know and fails on one it  *)
(* misses.  A call of Service is a single step here; that concurrent calls *)
(* amount to that is what Service is about.                                *)
(***************************************************************************)
EXTENDS Integers, Sequences, SequencesExt, FiniteSetsExt

CONSTANTS
    Version,           \* the releases of the program, numbered in their order
    EventType,
    EventShape(_, _),  \* EventShape(v, t): the shape in which v writes and reads t;
                       \* 0 if v has no event t
    StateShape(_),     \* the shape of the aggregate's Serialize form in v
    ByType,            \* the upcasters of the last release for each event type, in the
                       \* order of their registration, each given by the shape it is
                       \* for; a release registers those up to its own shapes
    MaxEvents          \* bound: the length of the stream

ASSUME EvolutionAssumption ==
    /\ Version \subseteq Nat \ {0}
    /\ \A v \in Version : StateShape(v) \in Nat
    /\ \A v \in Version, t \in EventType : EventShape(v, t) \in Nat
    /\ \A v, w \in Version : v < w =>
          /\ \A t \in EventType : EventShape(v, t) <= EventShape(w, t)
          /\ StateShape(v) <= StateShape(w)
          \* a state holds what its release reads of the events
          /\ StateShape(v) = StateShape(w) =>
                \A t \in EventType : EventShape(v, t) = EventShape(w, t)
    \* "chain migrations (v1->v2->v3)": of each type, from shape 1 on
    /\ \A t \in EventType :
          /\ ByType[t] \in Seq(Nat)
          /\ \A k \in DOMAIN ByType[t] : ByType[t][k] = k
          /\ \A v \in Version : EventShape(v, t) <= Len(ByType[t]) + 1

VARIABLES
    log,       \* the payloads of the stream, as they are stored
    snapshot,  \* the document of the stream, or NoSnapshot
    running,   \* the releases that are deployed
    deployed,  \* history: those that ever were
    migrated   \* history: the release a snapshot was migrated to and which no older
               \* one has run beside since; 0 for none

vars == <<log, snapshot, running, deployed, migrated>>

(* A payload: its type, its shape, and how many of its fields have the     *)
(* value that was recorded; the others have an upcaster's default.         *)
Written(v, t) == [type |-> t, shape |-> EventShape(v, t), given |-> EventShape(v, t)]

(* A document: the version it covers, the shape of its state, and the      *)
(* state, which is what is known of each event folded into it.             *)
NoSnapshot == [version |-> 0, shape |-> 0, state |-> <<>>]

-----------------------------------------------------------------------------
(* Upcasters. *)

(* Mutant: an upcaster sets its field without looking. *)
UpcastBlindly(u, p) ==
    [p EXCEPT !.shape = Max({p.shape, u + 1}), !.given = Min({p.given, u})]

(* Upcaster::upcast, as its documentation writes one: what has the field   *)
(* already, or has not the shape the upcaster is for, is left alone.       *)
Upcast(u, p) == IF p.shape = u THEN [p EXCEPT !.shape = u + 1] ELSE p

(* with, register: the upcasters of one type, in order of registration. *)
Registered(v, t) == SubSeq(ByType[t], 1, EventShape(v, t) - 1)

(* Mutant: the last one registered goes first. *)
UpcastedBackwards(v, p) ==
    FoldLeft(LAMBDA q, u : Upcast(u, q), p, Reverse(Registered(v, p.type)))

(* Upcasters::apply *)
Upcasted(v, p) == FoldLeft(LAMBDA q, u : Upcast(u, q), p, Registered(v, p.type))

-----------------------------------------------------------------------------
(* Reading. *)

Knows(v, t) == EventShape(v, t) > 0

(* Mutant: #[serde(deny_unknown_fields)] *)
DecodesExactly(v, p) == Knows(v, p.type) /\ p.shape = EventShape(v, p.type)

(* serde_json::from_value of a payload into the event type of v *)
Decodes(v, p) == Knows(v, p.type) /\ p.shape >= EventShape(v, p.type)

Decoded(v, p) == [type |-> p.type, given |-> Min({p.given, EventShape(v, p.type)})]

AllDecoded(v, payloads) == [k \in DOMAIN payloads |-> Decoded(v, payloads[k])]

Failure == [ok |-> FALSE, version |-> 0, state |-> <<>>]

(* The payloads decoded and applied one after the other. *)
Folded(v, base, payloads) ==
    IF \A k \in DOMAIN payloads : Decodes(v, payloads[k])
    THEN [ok |-> TRUE, version |-> base.version + Len(payloads),
          state |-> base.state \o AllDecoded(v, payloads)]
    ELSE Failure

(* Service::load, which runs no upcasters *)
Load(v) == Folded(v, NoSnapshot, log)

(* load_raw and Upcasters::render *)
Render(v) == Folded(v, NoSnapshot, [k \in DOMAIN log |-> Upcasted(v, log[k])])

(* Mutant: the tail starts a version too early. *)
TailFromSnapshot(version) == SubSeq(log, Max({version, 1}), Len(log))

TailAfter(version) == SubSeq(log, version + 1, Len(log))

(* The envelope decoded by v; a state it has fields for that are missing   *)
(* is an error, and load_snapshotted returns it.                           *)
SnapshotDecodes(v) == snapshot = NoSnapshot \/ snapshot.shape >= StateShape(v)

LoadSnapshotted(v) ==
    IF SnapshotDecodes(v)
    THEN Folded(v, [snapshot EXCEPT !.state = AllDecoded(v, @)], TailAfter(snapshot.version))
    ELSE Failure

-----------------------------------------------------------------------------
(* The operations of a release that is deployed. *)

Init ==
    /\ log = <<>>
    /\ snapshot = NoSnapshot
    /\ \E v \in Version : running = {v} /\ deployed = {v}
    /\ migrated = 0

(* execute: the handler decides on one event of a type the release has. *)
Execute(v) ==
    /\ Load(v).ok
    /\ Len(log) < MaxEvents
    /\ \E t \in EventType : Knows(v, t) /\ log' = Append(log, Written(v, t))
    /\ UNCHANGED <<snapshot, running, deployed, migrated>>

(* save_snapshot of a state and the version it was rendered at *)
SnapshotBy(v, rendered) ==
    [version |-> rendered.version, shape |-> StateShape(v), state |-> rendered.state]

(* execute_snapshotting, under a policy that finds a snapshot due or not. *)
ExecuteSnapshotting(v) ==
    /\ LoadSnapshotted(v).ok
    /\ Len(log) < MaxEvents
    /\ \E t \in EventType :
        /\ Knows(v, t)
        /\ log' = Append(log, Written(v, t))
        /\ snapshot' \in {snapshot,
                          SnapshotBy(v, Folded(v, LoadSnapshotted(v), <<Written(v, t)>>))}
    /\ UNCHANGED <<running, deployed, migrated>>

(* Upcasters::render of the whole stream, and save_snapshot of that: the   *)
(* one way in which Service gets to read old events at all.                *)
Migrate(v) ==
    /\ log # <<>>
    /\ Render(v).ok
    /\ snapshot' = SnapshotBy(v, Render(v))
    /\ migrated' = IF \A w \in running : v <= w THEN v ELSE migrated
    /\ UNCHANGED <<log, running, deployed>>

DeleteSnapshot ==
    /\ snapshot # NoSnapshot
    /\ snapshot' = NoSnapshot
    /\ migrated' = 0
    /\ UNCHANGED <<log, running, deployed>>

Deploy(v) ==
    /\ v \notin running
    /\ running' = running \cup {v}
    /\ deployed' = deployed \cup {v}
    /\ migrated' = IF v < migrated THEN 0 ELSE migrated
    /\ UNCHANGED <<log, snapshot>>

Retire(v) ==
    /\ running' = running \ {v}
    /\ UNCHANGED <<log, snapshot, deployed, migrated>>

Next ==
    \/ \E v \in running : Execute(v) \/ ExecuteSnapshotting(v) \/ Migrate(v) \/ Retire(v)
    \/ \E v \in Version : Deploy(v)
    \/ DeleteSnapshot

Spec == Init /\ [][Next]_vars

-----------------------------------------------------------------------------
(* Properties. *)

(* What the stream tells release v: of every event the fields v knows, as  *)
(* they were recorded.                                                     *)
Truth(v) == AllDecoded(v, log)

(* Whatever a release reads it reads right: a load, snapshotted or not,    *)
(* and a render through its upcasters either fail or tell the truth, with  *)
(* events and snapshots of older and newer releases in any mixture.        *)
LoadsTellTruth ==
    \A v \in Version : \A loaded \in {Load(v), LoadSnapshotted(v), Render(v)} :
        loaded.ok => loaded.version = Len(log) /\ loaded.state = Truth(v)

HasUnknown(v) == \E k \in DOMAIN log : ~Knows(v, log[k].type)

(* "Migrate every old payload forward": upcasters get every payload of any *)
(* release into a shape that decodes, those new already included, as long  *)
(* as the release has all the event types.                                 *)
RenderReadsEverything == \A v \in Version : Render(v).ok \/ HasUnknown(v)

(* A deployment can be rolled back: the oldest release that ever ran loads *)
(* what newer ones left, unless they recorded an event it does not have.   *)
RollbackLoads ==
    \A v \in Version : (\A w \in deployed : v <= w) =>
        HasUnknown(v) \/ (Load(v).ok /\ LoadSnapshotted(v).ok)

(* A migration stays good: the release it was made for loads the stream    *)
(* from then on, although Service::load cannot, until the snapshot is      *)
(* deleted, an older release runs again, or a newer one records an event   *)
(* it does not have.                                                       *)
MigrationSticks ==
    migrated # 0 => LoadSnapshotted(migrated).ok \/ HasUnknown(migrated)
=============================================================================
