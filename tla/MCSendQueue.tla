---------------------------- MODULE MCSendQueue ----------------------------
(***************************************************************************)
(* SendQueue with two messages, of one byte and of two.                    *)
(***************************************************************************)
EXTENDS SendQueue

CONSTANTS m1, m2

MCMessage == {m1, m2}
MCLength == m1 :> 1 @@ m2 :> 2

Symmetry == Permutations(Client) \cup Permutations(Buffer)
=============================================================================
