----------------------------- MODULE SendQueue -----------------------------
(***************************************************************************)
(* The outgoing side of the server (send.c): messages are put in counted   *)
(* buffers that the send queues of several clients share, and a callback   *)
(* moves the queue of one client to its socket, which may take any part of *)
(* the bytes offered.                                                      *)
(*                                                                         *)
(* A buffer is an address: when it is freed, malloc may hand it out for    *)
(* another message.  A client is a client_data record from                 *)
(* client_allocate_new to client_delete.                                   *)
(***************************************************************************)
EXTENDS Integers, SequencesExt

CONSTANTS
    Client,     \* client records
    Buffer,     \* addresses a send_message_buffer can have
    Message,    \* the contents of messages
    Length,     \* contents_length of each message
    MaxCopies,  \* bound: copies of one notice in a queue
    MaxQueue    \* bound: elements of a queue

ASSUME SendQueueAssumption ==
    /\ IsFiniteSet(Client)
    /\ Length \in [Message -> Nat \ {0}]
    /\ MaxCopies \in Nat \ {0}
    /\ MaxQueue \in Nat

VARIABLES
    connected,       \* the client records in use
    allocated,       \* the buffers allocated and not yet freed
    contents,        \* buffer->contents
    gc_count,        \* buffer->gc_count
    queue,           \* the elements from client->send_queue_start on
    send_queue_end,  \* client->send_queue_end # NULL
    wire             \* what the last step gave to a socket

vars ==
    <<connected, allocated, contents, gc_count, queue, send_queue_end, wire>>

Silence == [to |-> Client, bytes |-> <<>>]

Init ==
    /\ connected = {}
    /\ allocated = {}
    /\ contents \in {[b \in Buffer |-> m] : m \in Message}
    /\ gc_count = [b \in Buffer |-> 0]
    /\ queue = [c \in Client |-> <<>>]
    /\ send_queue_end = [c \in Client |-> FALSE]
    /\ wire = Silence

-----------------------------------------------------------------------------
(***************************************************************************)
(* Variants with a fault.  Nothing uses them: each one put in the place of *)
(* the definition it varies violates a property of this module.            *)
(***************************************************************************)
LastReferenceEarly(count) == count < 2

LastReferenceLate(count) == count < 0

AppendedUnset(c, b, n) ==
    queue[c] \o [i \in 1..n |-> [buffer |-> b, buffer_position |-> -1]]

TotalQueues(copies) == Cardinality({c \in Client : copies[c] > 0})

EndAfterStale(c, full) == send_queue_end[c]

-----------------------------------------------------------------------------
\* The positions of q that hold buffer b
Holding(q, b) == {i \in DOMAIN q : q[i].buffer = b}

LastReference(count) == count < 1

(***************************************************************************)
(* send_release_buffer, once for every element of q: a buffer is freed     *)
(* when its count falls below one.                                         *)
(***************************************************************************)
Release(q) ==
    /\ gc_count' = [b \in Buffer |->
                      gc_count[b] - Cardinality(Holding(q, b))]
    /\ allocated' = {b \in allocated :
                        Holding(q, b) # {} => ~LastReference(gc_count'[b])}

(***************************************************************************)
(* send_enqueue_client, n times in a row with buffer b: it appends through *)
(* send_queue_end, and starts the queue anew when that is NULL.  A         *)
(* send_queue_end that is not NULL while the queue is empty points to a    *)
(* freed element, and what is appended there is lost.                      *)
(***************************************************************************)
Appended(c, b, n) ==
    LET elements == [i \in 1..n |-> [buffer |-> b, buffer_position |-> 0]]
    IN  IF ~send_queue_end[c] THEN elements
        ELSE IF queue[c] = <<>> THEN <<>>
        ELSE queue[c] \o elements

\* How many times send_enqueue_client is called, which counts each time
Total(copies) ==
    Cardinality({r \in Client \X (1..MaxCopies) : r[2] <= copies[r[1]]})

(***************************************************************************)
(* send_create_buffer_format, then send_enqueue_client copies[c] times for *)
(* every client c.  For a channel without clients send_enqueue_channel     *)
(* would release the buffer; there is no such channel (ChannelTable,       *)
(* NoEmptyChannel).                                                        *)
(***************************************************************************)
Enqueue(b, m, copies) ==
    /\ b \in Buffer \ allocated
    /\ \A c \in Client : copies[c] > 0 =>
          c \in connected /\ Len(queue[c]) + copies[c] <= MaxQueue
    /\ allocated' = allocated \cup {b}
    /\ contents' = [contents EXCEPT ![b] = m]
    /\ gc_count' = [gc_count EXCEPT ![b] = Total(copies)]
    /\ queue' = [c \in Client |->
                   IF copies[c] = 0 THEN queue[c]
                                    ELSE Appended(c, b, copies[c])]
    /\ send_queue_end' = [c \in Client |-> send_queue_end[c] \/ copies[c] > 0]
    /\ wire' = Silence
    /\ UNCHANGED connected

-----------------------------------------------------------------------------
\* client_allocate_new
Connect(c) ==
    /\ c \notin connected
    /\ connected' = connected \cup {c}
    /\ queue' = [queue EXCEPT ![c] = <<>>]
    /\ send_queue_end' = [send_queue_end EXCEPT ![c] = FALSE]
    /\ wire' = Silence
    /\ UNCHANGED <<allocated, contents, gc_count>>

\* command_user_reply: one element for the client that sent the command
Reply(b, m, c) == Enqueue(b, m, [d \in Client |-> IF d = c THEN 1 ELSE 0])

(***************************************************************************)
(* JOIN, PART, NICK and QUIT notices: send_enqueue_channel for one or more *)
(* channels with one buffer.  NICK and QUIT go to every channel of the     *)
(* client, so that a queue gets one element for each channel it shares.    *)
(***************************************************************************)
Notice(b, m, copies) ==
    /\ \E c \in Client : copies[c] > 0
    /\ Enqueue(b, m, copies)

(***************************************************************************)
(* command_privmsg: the buffer is created first.  It has no recipient when *)
(* the channel or the nickname does not exist, or when the sender is alone *)
(* on the channel.                                                         *)
(***************************************************************************)
Privmsg(b, m, recipients) ==
    Enqueue(b, m, [c \in Client |-> IF c \in recipients THEN 1 ELSE 0])

Remaining(element) ==
    Length[contents[element.buffer]] - element.buffer_position

\* The bytes an element has yet to give, the k-th byte of m being <<m, k>>
Rest(element) ==
    [k \in 1..Remaining(element) |->
        <<contents[element.buffer], element.buffer_position + k>>]

\* send_queue_end is reset when the last element of the queue is released.
EndAfter(c, full) ==
    IF full > 0 /\ full = Len(queue[c]) THEN FALSE ELSE send_queue_end[c]

(***************************************************************************)
(* send_callback_data_out: the socket takes the first `full' elements      *)
(* whole, which are released, and `more' bytes of the one after, which is  *)
(* less than what remains of it.  Then the queue is empty, or send fails   *)
(* with EAGAIN, or with an error that makes the event loop disconnect the  *)
(* client (Delete, later).                                                 *)
(***************************************************************************)
DataOut(c, full, more) ==
    LET q == queue[c]
    IN  /\ c \in connected
        /\ full \in 0..Len(q)
        /\ more > 0 => full < Len(q) /\ more < Remaining(q[full + 1])
        /\ Release(SubSeq(q, 1, full))
        /\ queue' = [queue EXCEPT ![c] =
                       [i \in 1..(Len(q) - full) |->
                          [q[full + i] EXCEPT !.buffer_position =
                             IF i = 1 THEN @ + more ELSE @]]]
        /\ send_queue_end' = [send_queue_end EXCEPT ![c] = EndAfter(c, full)]
        /\ wire' = [to |-> c,
                    bytes |-> FlattenSeq([i \in 1..full |-> Rest(q[i])])
                                \o IF more = 0 THEN <<>>
                                   ELSE SubSeq(Rest(q[full + 1]), 1, more)]
        /\ UNCHANGED <<connected, contents>>

\* client_delete: send_delete_queue releases every element of the queue.
Delete(c) ==
    /\ c \in connected
    /\ connected' = connected \ {c}
    /\ Release(queue[c])
    /\ queue' = [queue EXCEPT ![c] = <<>>]
    /\ send_queue_end' = [send_queue_end EXCEPT ![c] = FALSE]
    /\ wire' = Silence
    /\ UNCHANGED contents

Next ==
    \/ \E c \in Client : Connect(c)
    \/ \E b \in Buffer, m \in Message, c \in Client : Reply(b, m, c)
    \/ \E b \in Buffer, m \in Message, copies \in [Client -> 0..MaxCopies] :
          Notice(b, m, copies)
    \/ \E b \in Buffer, m \in Message, recipients \in SUBSET Client :
          Privmsg(b, m, recipients)
    \/ \E c \in Client : \E full \in 0..Len(queue[c]) :
          \E more \in 0..(IF full = Len(queue[c]) THEN 0
                          ELSE Remaining(queue[c][full + 1]) - 1) :
             DataOut(c, full, more)
    \/ \E c \in Client : Delete(c)

Spec == Init /\ [][Next]_vars

-----------------------------------------------------------------------------
TypeOK ==
    /\ connected \subseteq Client
    /\ allocated \subseteq Buffer
    /\ contents \in [Buffer -> Message]
    /\ gc_count \in [Buffer -> Int]
    /\ queue \in [Client -> Seq([buffer : Buffer, buffer_position : Nat])]
    /\ send_queue_end \in [Client -> BOOLEAN]

(***************************************************************************)
(* gc_count is the number of send queue elements a buffer is in (send.h:12 *)
(* "Number of send queues this buffer is in"), elements of one client      *)
(* counted apart, and a buffer in a queue has not been freed.              *)
(***************************************************************************)
Referring(b) ==
    {r \in Client \X (1..MaxQueue) :
       r[2] <= Len(queue[r[1]]) /\ queue[r[1]][r[2]].buffer = b}

CountExact ==
    \A b \in Buffer :
       IF b \in allocated THEN gc_count[b] = Cardinality(Referring(b))
                          ELSE Referring(b) = {}

(***************************************************************************)
(* A buffer that leaves the last queue it is in is freed in that step: the *)
(* only buffers that leak are those of a PRIVMSG without a recipient,      *)
(* which never were in a queue (messaging.c:26).                           *)
(***************************************************************************)
FreedWithLast ==
    [][\A b \in allocated \cap allocated' :
          Referring(b) # {} => Referring(b)' # {}]_vars

(***************************************************************************)
(* send_queue_end is NULL exactly when the queue is empty, and an element  *)
(* in a queue still has bytes to send.                                     *)
(***************************************************************************)
QueueWellFormed ==
    \A c \in Client :
       /\ send_queue_end[c] <=> queue[c] # <<>>
       /\ \A i \in DOMAIN queue[c] : Remaining(queue[c][i]) > 0

(***************************************************************************)
(* Sharing the buffers does not show: the sockets are given what separate  *)
(* streams would give them.                                                *)
(***************************************************************************)
ToSend ==
    [c \in Client |->
        FlattenSeq([i \in DOMAIN queue[c] |-> Rest(queue[c][i])])]

Stream == INSTANCE MessageStream WITH toSend <- ToSend

StreamSpec == Stream!Spec
=============================================================================
