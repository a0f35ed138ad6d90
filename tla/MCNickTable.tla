---------------------------- MODULE MCNickTable ----------------------------
(***************************************************************************)
(* NickTable on three records, four nicknames and three buckets: the       *)
(* nicknames n1 and n2 fall into the same bucket.                          *)
(***************************************************************************)
EXTENDS NickTable, TLC

CONSTANTS n1, n2, n3, n4

MCNick == {n1, n2, n3, n4}
MCHash == n1 :> 1 @@ n2 :> 1 @@ n3 :> 2 @@ n4 :> 3
=============================================================================
