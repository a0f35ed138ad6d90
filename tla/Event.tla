------------------------------- MODULE Event -------------------------------
(***************************************************************************)
(* What the two event loops have in common: the client records with their  *)
(* sockets, reading, writing and disconnecting a client (event.c), SIGINT  *)
(* (signal.c), the kernel below and the peers on the other side.           *)
(*                                                                         *)
(* The actions of this module are completed by those of SelectLoop and     *)
(* EpollLoop, which say when they are taken, where the loop goes on (next) *)
(* and what else changes.  They work for the client c.                     *)
(*                                                                         *)
(* What the command handlers do is reduced to what a loop sees of it: they *)
(* may leave something in the send queue of any client (the set informed), *)
(* and QUIT disconnects.                                                   *)
(***************************************************************************)
EXTENDS Naturals, Sequences, SequencesExt

CONSTANTS
    Client,      \* addresses a client_data record can have
    Fd,          \* descriptors accept can return: the limit on open files
    ServerFd,    \* the listening socket, lower than any of them
    MaxPending,  \* bound: connections waiting to be accepted
    MaxLines,    \* bound: lines a peer sends over one connection
    MaxSigInt,   \* bound: how many times SIGINT is sent
    NULL

ASSUME EventAssumption ==
    /\ Fd \subseteq Nat
    /\ ServerFd \in Nat
    /\ \A f \in Fd : ServerFd < f
    /\ MaxPending \in Nat /\ MaxLines \in Nat /\ MaxSigInt \in Nat
    /\ NULL \notin Client

VARIABLES
    pc,        \* where the loop is
    chunk,     \* the lines client_callback_data_in has yet to process
    clients,   \* the list of client records
    fd,        \* client->fd
    quitting,  \* the clients with quitting = 1
    queued,    \* the clients with something in their send queue
    event_shutting_down,
    sigints,   \* SIGINTs received
    open,      \* the kernel: descriptors open for client sockets
    inbox,     \* the kernel: what can be read from each socket
    pending,   \* the kernel: connections waiting to be accepted
    budget     \* lines the peer of each socket may still send

records == <<clients, fd, quitting, queued>>
kernel == <<open, inbox, pending, budget>>
signals == <<event_shutting_down, sigints>>

eventVars == <<pc, chunk, records, kernel, signals>>

Ended == {"stopped", "failed", "killed", "forced"}

EventInit ==
    /\ pc = "top" /\ chunk = <<>>
    /\ clients = {} /\ quitting = {} /\ queued = {}
    /\ fd = [c \in Client |-> NULL]
    /\ event_shutting_down = FALSE /\ sigints = 0
    /\ open = {} /\ pending = 0
    /\ inbox = [f \in Fd |-> <<>>]
    /\ budget = [f \in Fd |-> 0]

-----------------------------------------------------------------------------
(***************************************************************************)
(* Variants with a fault.  Nothing uses them: each one put in the place of *)
(* the definition it varies violates a property of one of the loops.       *)
(***************************************************************************)
DisconnectOpen(c, informed) ==
    /\ quitting' = quitting \cup {c}
    /\ UNCHANGED <<open, inbox>>
    /\ queued' = IF event_shutting_down THEN queued ELSE queued \cup informed

GoesOnAlways == TRUE

AcceptNoFd(c, f) == fd' = [fd EXCEPT ![c] = 0]

DeleteNever(c) == UNCHANGED records

DeleteEvery(c) ==
    /\ clients' = clients \ quitting
    /\ fd' = [d \in Client |-> IF d \in quitting THEN NULL ELSE fd[d]]
    /\ quitting' = {}
    /\ queued' = queued \ quitting

ReadDoneEarly(c, next) ==
    /\ pc = "read" /\ chunk = <<>>
    /\ pc' = next
    /\ UNCHANGED <<chunk, records, kernel, signals>>

-----------------------------------------------------------------------------
\* The peers

PeerConnect ==
    /\ pc \notin Ended
    /\ pending < MaxPending
    /\ pending' = pending + 1
    /\ UNCHANGED <<pc, chunk, records, signals, open, inbox, budget>>

\* The peer has closed the connection, and the server may not know it yet.
PeerGone(f) == "eof" \in ToSet(inbox[f])

Speaks(f) == pc \notin Ended /\ f \in open /\ ~PeerGone(f)

PeerSend(f, line) ==
    /\ Speaks(f)
    /\ budget[f] > 0
    /\ inbox' = [inbox EXCEPT ![f] = Append(@, line)]
    /\ budget' = [budget EXCEPT ![f] = @ - 1]
    /\ UNCHANGED <<pc, chunk, records, signals, open, pending>>

\* The peer closes the connection, or sends Ctrl-D by itself.
PeerClose(f) ==
    /\ Speaks(f)
    /\ inbox' = [inbox EXCEPT ![f] = Append(@, "eof")]
    /\ UNCHANGED <<pc, chunk, records, signals, open, pending, budget>>

-----------------------------------------------------------------------------
(***************************************************************************)
(* event_disconnect_client: the record is marked, its descriptor closed,   *)
(* and unless the server shuts down client_callback_disconnect announces   *)
(* it, which leaves notices in the queues of those on its channels, its    *)
(* own among them.                                                         *)
(***************************************************************************)
Disconnect(c, informed) ==
    /\ quitting' = quitting \cup {c}
    /\ open' = open \ {fd[c]}
    /\ inbox' = [inbox EXCEPT ![fd[c]] = <<>>]
    /\ queued' = IF event_shutting_down THEN queued ELSE queued \cup informed

\* The condition of the loop
GoesOn == ~event_shutting_down

SetFd(c, f) == fd' = [fd EXCEPT ![c] = f]

(***************************************************************************)
(* socket_accept_client, client_allocate_new and the assignment of fd.     *)
(* accept returns the lowest descriptor that is not open.  (One step: a    *)
(* SIGINT in between would find the fd of the record 0.)                   *)
(***************************************************************************)
Accept(c, f) ==
    /\ pc = "accept"
    /\ pending > 0
    /\ f \in Fd \ open /\ \A g \in Fd \ open : f <= g
    /\ c \notin clients
    /\ clients' = clients \cup {c}
    /\ SetFd(c, f)
    /\ pending' = pending - 1
    /\ open' = open \cup {f}
    /\ inbox' = [inbox EXCEPT ![f] = <<>>]
    /\ budget' = [budget EXCEPT ![f] = MaxLines]
    /\ UNCHANGED <<pc, chunk, quitting, queued, signals>>

\* accept fails, with EAGAIN or because there is no free descriptor.
AcceptDone(next) ==
    /\ pc = "accept"
    /\ pending = 0 \/ Fd \subseteq open
    /\ pc' = next
    /\ UNCHANGED <<chunk, records, kernel, signals>>

-----------------------------------------------------------------------------
(***************************************************************************)
(* event_read_available, one read: a part of the waiting data, ...         *)
(***************************************************************************)
ReadChunk(c, k) ==
    /\ pc = "read" /\ chunk = <<>>
    /\ fd[c] \in open
    /\ k \in 1..Len(inbox[fd[c]])
    /\ inbox[fd[c]][k] # "eof"
    /\ chunk' = SubSeq(inbox[fd[c]], 1, k)
    /\ inbox' = [inbox EXCEPT ![fd[c]] = SubSeq(@, k + 1, Len(@))]
    /\ UNCHANGED <<pc, records, signals, open, pending, budget>>

\* ... nothing (EAGAIN), or an error when the client is quitting already, ...
ReadDone(c, next) ==
    /\ pc = "read" /\ chunk = <<>>
    /\ \/ fd[c] \in open /\ inbox[fd[c]] = <<>>
       \/ fd[c] \notin open /\ c \in quitting
    /\ pc' = next
    /\ UNCHANGED <<chunk, records, kernel, signals>>

\* ... or the end of the connection, or an error: disconnect.
ReadEnd(c, informed, next) ==
    /\ pc = "read" /\ chunk = <<>>
    /\ \/ /\ fd[c] \in open
          /\ inbox[fd[c]] # <<>>
          /\ Head(inbox[fd[c]]) = "eof"
       \/ fd[c] \notin open /\ c \notin quitting
    /\ IF c \in quitting
         THEN UNCHANGED <<quitting, open, inbox, queued>>
         ELSE Disconnect(c, informed)
    /\ pc' = next
    /\ UNCHANGED <<chunk, clients, fd, pending, budget, signals>>

(***************************************************************************)
(* client_callback_data_in: the lines of the chunk one after the other,    *)
(* also those that follow a QUIT.                                          *)
(***************************************************************************)
Line(informed) ==
    /\ pc = "read" /\ chunk # <<>> /\ Head(chunk) = "line"
    /\ chunk' = Tail(chunk)
    /\ queued' = queued \cup informed
    /\ UNCHANGED <<pc, clients, fd, quitting, kernel, signals>>

\* command_quit
Quit(c, informed) ==
    /\ pc = "read" /\ chunk # <<>> /\ Head(chunk) = "quit"
    /\ chunk' = Tail(chunk)
    /\ Disconnect(c, informed)
    /\ UNCHANGED <<pc, clients, fd, pending, budget, signals>>

-----------------------------------------------------------------------------
(***************************************************************************)
(* send_callback_data_out on an open socket sends the queue or a part, ... *)
(***************************************************************************)
Write(c, all, next) ==
    /\ pc = "write"
    /\ fd[c] \in open \/ c \notin queued
    /\ queued' = IF all THEN queued \ {c} ELSE queued
    /\ pc' = next
    /\ UNCHANGED <<chunk, clients, fd, quitting, kernel, signals>>

(***************************************************************************)
(* ... or fails, always when the descriptor was closed: disconnect.        *)
(***************************************************************************)
WriteFails(c, informed, next) ==
    /\ pc = "write"
    /\ c \in queued
    /\ Disconnect(c, informed)
    /\ pc' = next
    /\ UNCHANGED <<chunk, clients, fd, pending, budget, signals>>

(***************************************************************************)
(* send on a connection the peer has closed and reset: SIGPIPE, which the  *)
(* program leaves at its default action.                                   *)
(***************************************************************************)
WriteKills(c) ==
    /\ pc = "write"
    /\ c \in queued
    /\ fd[c] \in open
    /\ PeerGone(fd[c])
    /\ pc' = "killed"
    /\ UNCHANGED <<chunk, records, kernel, signals>>

\* client_delete at the end of an iteration, for a client that is quitting
DeleteQuitting(c) ==
    IF c \in quitting
      THEN /\ clients' = clients \ {c}
           /\ fd' = [fd EXCEPT ![c] = NULL]
           /\ quitting' = quitting \ {c}
           /\ queued' = queued \ {c}
      ELSE UNCHANGED records

-----------------------------------------------------------------------------
(***************************************************************************)
(* SIGINT: the first one shuts down and disconnects every client without   *)
(* a notice (event_initiate_shutdown), the next one forces the end.  When  *)
(* it arrives while the loop waits in select or epoll_wait, the call       *)
(* returns with EINTR and the loop goes on at its top.                     *)
(***************************************************************************)
SigInt(interrupts) ==
    /\ pc \notin Ended
    /\ sigints = 0 /\ sigints < MaxSigInt
    /\ sigints' = 1
    /\ event_shutting_down' = TRUE
    /\ quitting' = clients
    /\ LET closed == {fd[c] : c \in clients}
       IN  /\ open' = open \ closed
           /\ inbox' = [f \in Fd |-> IF f \in closed THEN <<>> ELSE inbox[f]]
    /\ pc' = IF interrupts THEN "top" ELSE pc
    /\ UNCHANGED <<chunk, clients, fd, queued, pending, budget>>

SigIntForced ==
    /\ pc \notin Ended
    /\ sigints = 1 /\ sigints < MaxSigInt
    /\ sigints' = 2
    /\ pc' = "forced"
    /\ UNCHANGED <<chunk, records, kernel, event_shutting_down>>

-----------------------------------------------------------------------------
EventTypeOK ==
    /\ chunk \in Seq({"line", "quit"})
    /\ quitting \cup queued \subseteq clients
    /\ clients \subseteq Client
    /\ fd \in [Client -> Fd \cup {NULL}]
    /\ event_shutting_down \in BOOLEAN /\ sigints \in 0..2
    /\ open \subseteq Fd
    /\ inbox \in [Fd -> Seq({"line", "quit", "eof"})]
    /\ pending \in 0..MaxPending
    /\ budget \in [Fd -> 0..MaxLines]

Serving == clients \ quitting

\* The bodies of the subsets of clients that a step may leave notices for
Informed == SUBSET clients

(***************************************************************************)
(* Every client that is not quitting has an open descriptor of its own,    *)
(* and every open descriptor belongs to such a client: none leaks, and     *)
(* none is closed or taken over while its client is served.                *)
(***************************************************************************)
SocketsOwned ==
    /\ \A c \in Serving : fd[c] \in open
    /\ \A c, d \in Serving : fd[c] = fd[d] => c = d
    /\ open \subseteq {fd[c] : c \in Serving}

(***************************************************************************)
(* Data that waits at a socket is read, or the socket is closed, however   *)
(* the other clients behave, as long as the process runs.                  *)
(***************************************************************************)
InputServed ==
    \A f \in Fd :
       f \in open /\ inbox[f] # <<>> ~>
          f \notin open \/ inbox[f] = <<>> \/ pc \in Ended

(***************************************************************************)
(* After SIGINT the process ends, whatever the peers do and wherever the   *)
(* loop was interrupted (event_initiate_shutdown).                         *)
(***************************************************************************)
ShutdownCompletes == event_shutting_down ~> pc \in Ended
=============================================================================
