---------------------------- MODULE MCEpollLoop ----------------------------
(***************************************************************************)
(* EpollLoop with two client sockets beside the listening one: a batch may *)
(* hold events of two clients, or leave a ready socket to the next, and a  *)
(* connection takes over the number, and the record the address, that one  *)
(* before it had.                                                          *)
(***************************************************************************)
EXTENDS EpollLoop
=============================================================================
