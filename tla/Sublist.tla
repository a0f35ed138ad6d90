------------------------------ MODULE Sublist ------------------------------
(***************************************************************************)
(* What a walk along a list picks out of it: the handlers for a command    *)
(* (message_dispatch_command), and the sockets the kernel reports.         *)
(***************************************************************************)
EXTENDS Naturals, Sequences

\* The elements of the list s that are in S, in the same order
Among(s, S) ==
    LET among[i \in 0..Len(s)] ==
          IF i = 0 THEN <<>>
          ELSE IF s[i] \in S THEN Append(among[i - 1], s[i])
                             ELSE among[i - 1]
    IN  among[Len(s)]
=============================================================================
