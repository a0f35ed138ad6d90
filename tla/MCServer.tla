------------------------------ MODULE MCServer ------------------------------
(***************************************************************************)
(* Server with four nicknames and three channel names, of which n1 and n2  *)
(* share a bucket, and x1 and x2.                                          *)
(***************************************************************************)
EXTENDS Server, TLC

CONSTANTS n1, n2, n3, n4, x1, x2, x3

MCNick == {n1, n2, n3, n4}
MCNickHash == n1 :> 1 @@ n2 :> 1 @@ n3 :> 2 @@ n4 :> 3
MCName == {x1, x2, x3}
MCNameHash == x1 :> 1 @@ x2 :> 1 @@ x3 :> 2

\* Once two names have shared a bucket: the states that are gone on from
FewOnceCrowded ==
    Crowded => Cardinality(clients) <= 2 /\ Cardinality(channels) <= 1

Symmetry == Permutations(Client) \cup Permutations(Channel)
=============================================================================
