---------------------------- MODULE MCLineBuffer ----------------------------
(***************************************************************************)
(* LineBuffer over line ends and one other character.  The sizes are equal *)
(* as in the code, and small.                                              *)
(***************************************************************************)
EXTENDS LineBuffer

CONSTANTS x

MCByte == {x, CR, LF}
=============================================================================
