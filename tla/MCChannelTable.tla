--------------------------- MODULE MCChannelTable ---------------------------
(***************************************************************************)
(* ChannelTable with four channel names, of which n1 and n2 fall into the *)
(* same bucket.                                                            *)
(***************************************************************************)
EXTENDS ChannelTable, TLC

CONSTANTS n1, n2, n3, n4

MCName == {n1, n2, n3, n4}
MCHash == n1 :> 1 @@ n2 :> 1 @@ n3 :> 2 @@ n4 :> 3

Symmetry == Permutations(Client) \cup Permutations(Channel)
=============================================================================
