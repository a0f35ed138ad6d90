---------------------------- MODULE BucketChain ----------------------------
(***************************************************************************)
(* The walk along one bucket of a hash table, as both hash tables of the   *)
(* server make it (client_nickname_hashtable_find in client.c and          *)
(* channel_hashtable_find in channel.c): start at the head of the bucket   *)
(* and follow the next pointers while the record at hand is not the one    *)
(* looked for.                                                             *)
(*                                                                         *)
(* The pointers are what the program left in memory: they need not form a  *)
(* list.  A walk may run into the record it looks for, into NULL, into a   *)
(* record that was freed, or go round for ever.                            *)
(***************************************************************************)

(***************************************************************************)
(* Every address the loop holds at some point when it starts at `start'    *)
(* and steps on from the records in Past: the least set that contains      *)
(* start and is closed under next on Past.                                 *)
(***************************************************************************)
Walked(start, next, Past) ==
    LET U == {start} \cup {next[q] : q \in Past}
    IN  {p \in U : \A S \in SUBSET U :
                      (start \in S /\ \A q \in S \cap Past : next[q] \in S)
                         => p \in S}

(***************************************************************************)
(* The address at which the loop stops: a set of one address, or the empty *)
(* set when the loop does not stop.                                        *)
(***************************************************************************)
WalkEnds(start, next, Past) == Walked(start, next, Past) \ Past

=============================================================================
