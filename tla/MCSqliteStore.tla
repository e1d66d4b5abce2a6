---------------------------- MODULE MCSqliteStore ----------------------------
(***************************************************************************)
(* Instances of SqliteStore for TLC.                                       *)
(***************************************************************************)
EXTENDS SqliteStore, TLC

MCBatch == {<<>>, <<"plain">>, <<"plain", "plain">>, <<"plain", "badMap">>}

MCOneOrTwo == {<<"plain">>, <<"plain", "plain">>}

MCGuarded == {NoStream, Exact(1)}

StoreSymmetry == Permutations(Store)
=============================================================================
