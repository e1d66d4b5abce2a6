---------------------------- MODULE MCMemoryStore ----------------------------
(***************************************************************************)
(* Instances of MemoryStore for TLC: two streams, batches of none to two   *)
(* events, some of which do not encode, and every expectation that can     *)
(* meet the streams they make.                                             *)
(***************************************************************************)
EXTENDS MemoryStore

MCBatch ==
    {<<>>, <<"plain">>, <<"badMap">>, <<"plain", "other">>, <<"other", "badMap">>}

MCExpectation == {AnyRevision, NoStream} \cup {Exact(v) : v \in 0..MaxEvents}
=============================================================================
