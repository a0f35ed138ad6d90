------------------------------ MODULE MCMessage ------------------------------
(***************************************************************************)
(* Message over space, colon and a letter in both cases.  The commands a   *)
(* and aaa share a bucket, aa has another.                                 *)
(***************************************************************************)
EXTENDS Message

CONSTANTS f, g

MCChar == {" ", ":", "a", "A"}
MCCode == " " :> 32 @@ ":" :> 58 @@ "a" :> 97 @@ "A" :> 65
MCLower == [c \in MCChar |-> IF c = "A" THEN "a" ELSE c]
MCCommand == {<<"a">>, <<"a", "a">>, <<"a", "a", "a">>}
=============================================================================
