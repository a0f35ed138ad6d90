--------------------------- MODULE MessageStream ---------------------------
(***************************************************************************)
(* What the send queues promise: every connected client has one stream of  *)
(* bytes, messages are appended to it whole, and the socket is given its   *)
(* bytes in order, each exactly once, until the connection is closed.      *)
(***************************************************************************)
EXTENDS Naturals, SequencesExt

CONSTANTS
    Client,     \* the clients
    Message,    \* the messages
    Length,     \* the length of each message in bytes
    MaxCopies   \* bound: copies of one message posted to a client at once

VARIABLES
    connected,  \* the clients that have a connection
    toSend,     \* the bytes each client has yet to be sent
    wire        \* what the last step gave to a socket

vars == <<connected, toSend, wire>>

\* The k-th byte of message m is <<m, k>>.
Bytes(m) == [k \in 1..Length[m] |-> <<m, k>>]

\* s repeated n times
Repeated(s, n) == FlattenSeq([i \in 1..n |-> s])

Silence == [to |-> Client, bytes |-> <<>>]

Init ==
    /\ connected = {}
    /\ toSend = [c \in Client |-> <<>>]
    /\ wire = Silence

Connect(c) ==
    /\ c \notin connected
    /\ connected' = connected \cup {c}
    /\ wire' = Silence
    /\ UNCHANGED toSend

\* Message m is posted to some of the clients, to some more than once.
Post(m, copies) ==
    /\ toSend' = [c \in Client |->
                    toSend[c] \o Repeated(Bytes(m), copies[c])]
    /\ wire' = Silence
    /\ UNCHANGED connected

\* The socket of c takes the next k bytes.
Write(c, k) ==
    /\ c \in connected
    /\ toSend' = [toSend EXCEPT ![c] = SubSeq(@, k + 1, Len(@))]
    /\ wire' = [to |-> c, bytes |-> SubSeq(toSend[c], 1, k)]
    /\ UNCHANGED connected

Close(c) ==
    /\ c \in connected
    /\ connected' = connected \ {c}
    /\ toSend' = [toSend EXCEPT ![c] = <<>>]
    /\ wire' = Silence

Next ==
    \/ \E c \in Client : Connect(c) \/ Close(c)
    \/ \E m \in Message, copies \in [Client -> 0..MaxCopies] :
          /\ \A c \in Client : copies[c] > 0 => c \in connected
          /\ Post(m, copies)
    \/ \E c \in Client : \E k \in 0..Len(toSend[c]) : Write(c, k)

Spec == Init /\ [][Next]_vars
=============================================================================
