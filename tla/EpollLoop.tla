----------------------------- MODULE EpollLoop -----------------------------
(***************************************************************************)
(* The event loop of the epoll build (event_epoll.c, and the epoll part of *)
(* socket.c) over the sockets, clients and signals of Event.               *)
(*                                                                         *)
(* The kernel reports a socket once for everything that happens to it      *)
(* (EPOLLET), with the pointer to the client record that was registered    *)
(* for it.  Nothing is registered for writing: the queues are flushed      *)
(* after every batch of events and after every timeout.  The record of the *)
(* listening socket is never disconnected; ServerFd stands for it.         *)
(***************************************************************************)
EXTENDS Event, Sublist, FiniteSets

CONSTANTS
    MaxEvents,  \* MAXEVENTS: events of a batch
    MaxResets   \* bound: connections that are reset

ASSUME EpollLoopAssumption ==
    /\ MaxEvents \in Nat \ {0}
    /\ MaxResets \in Nat
    /\ ServerFd \notin Client  \* it stands for a record of its own

VARIABLES
    cur,      \* client_event_data
    batch,    \* the events that epoll_wait returned, without those served
    toflush,  \* the clients the flush has yet to come to
    armed,    \* the kernel: sockets to report, in the order they became ready
    watch,    \* the kernel: the pointer registered for each socket
    errors,   \* the kernel: sockets with an error
    resets,   \* how many connections were reset
    dropped   \* history: a socket with an error was given up

loop == <<cur, batch, toflush>>
epoll == <<armed, watch, errors, resets, dropped>>

vars == <<eventVars, loop, epoll>>

Init ==
    /\ EventInit
    /\ cur = NULL /\ batch = <<>> /\ toflush = {}
    /\ armed = <<>> /\ errors = {}
    /\ watch = [f \in Fd |-> NULL]
    /\ resets = 0 /\ dropped = FALSE

-----------------------------------------------------------------------------
(***************************************************************************)
(* Variants with a fault.  Nothing uses them: each one put in the place of *)
(* the definition it varies violates a property of this module.            *)
(***************************************************************************)
TimeoutWaits == "top"

-----------------------------------------------------------------------------
(***************************************************************************)
(* The kernel.  A socket is put on the list of those to report when        *)
(* something happens to it, and leaves it when it is closed.               *)
(***************************************************************************)
Arms(f) ==
    armed' = IF f \in ToSet(armed) THEN armed ELSE Append(armed, f)

\* A closed socket is not watched any more.
KernelFollows ==
    /\ armed' = Among(armed, open' \cup {ServerFd})
    /\ watch' = [f \in Fd |-> IF f \in open' THEN watch[f] ELSE NULL]
    /\ errors' = errors \cap open'

(***************************************************************************)
(* The connection is reset.  The error is read after the waiting data, as  *)
(* the end of the connection is.                                           *)
(***************************************************************************)
PeerReset(f) ==
    /\ pc \notin Ended
    /\ resets < MaxResets /\ resets' = resets + 1
    /\ f \in open \ errors
    /\ errors' = errors \cup {f}
    /\ inbox' = [inbox EXCEPT ![f] = IF PeerGone(f) THEN @
                                                    ELSE Append(@, "eof")]
    /\ Arms(f)
    /\ UNCHANGED <<pc, chunk, records, signals, open, pending, budget, watch,
                   dropped>>

-----------------------------------------------------------------------------
\* The condition of the loop
Top ==
    /\ pc = "top"
    /\ pc' = IF GoesOn THEN "wait" ELSE "stopped"
    /\ UNCHANGED <<chunk, records, kernel, signals, loop, epoll>>

IsReady(f) ==
    IF f = ServerFd THEN pending > 0 ELSE inbox[f] # <<>> \/ f \in errors

Reported == Among(armed, {f \in Fd \cup {ServerFd} : IsReady(f)})

Pointer(f) == IF f = ServerFd THEN ServerFd ELSE watch[f]

(***************************************************************************)
(* epoll_wait returns the events of the sockets on the list, MAXEVENTS at  *)
(* most, and takes these from the list.  (The loop gets the pointer and    *)
(* the flags of an event; its socket is kept for EventsLive.)              *)
(***************************************************************************)
Wait ==
    /\ pc = "wait"
    /\ Reported # <<>>
    /\ LET n == IF Len(Reported) > MaxEvents THEN MaxEvents ELSE Len(Reported)
       IN  /\ batch' = [i \in 1..n |-> [client |-> Pointer(Reported[i]),
                                        error |-> Reported[i] \in errors,
                                        socket |-> Reported[i]]]
           /\ armed' = SubSeq(Reported, n + 1, Len(Reported))
    /\ pc' = "batch"
    /\ UNCHANGED <<chunk, records, kernel, signals, cur, toflush, watch,
                   errors, resets, dropped>>

AfterTimeout == "flush"

Timeout ==
    /\ pc = "wait"
    /\ Reported = <<>>
    /\ armed' = <<>>
    /\ pc' = AfterTimeout
    /\ toflush' = clients
    /\ UNCHANGED <<chunk, records, kernel, signals, cur, batch, watch, errors,
                   resets, dropped>>

-----------------------------------------------------------------------------
\* The next event, of a socket without an error
Serve ==
    /\ pc = "batch" /\ batch # <<>>
    /\ ~Head(batch).error
    /\ cur' = Head(batch).client
    /\ batch' = Tail(batch)
    /\ pc' = IF cur' = ServerFd THEN "accept" ELSE "read"
    /\ UNCHANGED <<chunk, records, kernel, signals, toflush, epoll>>

(***************************************************************************)
(* The next event, of a socket with an error: its descriptor is closed,    *)
(* and nothing is done about the client.                                   *)
(***************************************************************************)
Drop ==
    /\ pc = "batch" /\ batch # <<>>
    /\ Head(batch).error
    /\ cur' = Head(batch).client
    /\ batch' = Tail(batch)
    /\ open' = open \ {fd[cur']}
    /\ inbox' = [inbox EXCEPT ![fd[cur']] = <<>>]
    /\ KernelFollows
    /\ dropped' = TRUE
    /\ pc' = "delete"
    /\ UNCHANGED <<chunk, records, signals, pending, budget, toflush, resets>>

EndOfBatch ==
    /\ pc = "batch" /\ batch = <<>>
    /\ pc' = "flush"
    /\ cur' = NULL
    /\ toflush' = clients
    /\ UNCHANGED <<chunk, records, kernel, signals, batch, epoll>>

(***************************************************************************)
(* socket_epoll_ctl registers a new socket with the record, which is at    *)
(* any free address: that of a record deleted in this batch, perhaps.      *)
(***************************************************************************)
AcceptAndWatch(c, f) ==
    /\ Accept(c, f)
    /\ watch' = [watch EXCEPT ![f] = c]
    /\ UNCHANGED <<loop, armed, errors, resets, dropped>>

EndOfEvent ==
    /\ pc = "delete"
    /\ DeleteQuitting(cur)
    /\ pc' = "batch"
    /\ UNCHANGED <<chunk, kernel, signals, loop, epoll>>

-----------------------------------------------------------------------------
(***************************************************************************)
(* The flush goes through the list of clients once, and writes the queues  *)
(* that have something, of those that are not quitting.  A client it has   *)
(* gone past waits for the next flush, also when the write to another      *)
(* fails and leaves a notice for it.  (The list is walked in any order.)   *)
(***************************************************************************)
Flushed == toflush \cap (queued \ quitting)

\* The walk goes past some that have nothing, and comes to the client c.
FlushNext(c, past) ==
    /\ pc = "flush"
    /\ c \in Flushed
    /\ past \subseteq toflush \ Flushed
    /\ toflush' = toflush \ (past \cup {c})
    /\ cur' = c
    /\ pc' = "write"
    /\ UNCHANGED <<chunk, records, kernel, signals, batch, epoll>>

\* It goes past all that are left.
EndOfFlush ==
    /\ pc = "flush" /\ Flushed = {}
    /\ pc' = "top"
    /\ cur' = NULL
    /\ toflush' = {}
    /\ UNCHANGED <<chunk, records, kernel, signals, batch, epoll>>

(***************************************************************************)
(* send fails for a socket with an error, and for a descriptor that is     *)
(* closed.  The record is marked, and no event leads to its deletion.      *)
(***************************************************************************)
FlushFails(informed) ==
    /\ pc = "write"
    /\ \/ fd[cur] \in errors /\ dropped' = TRUE
       \/ fd[cur] \notin open /\ UNCHANGED dropped
    /\ WriteFails(cur, informed, "flush")
    /\ KernelFollows
    /\ UNCHANGED <<loop, resets>>

-----------------------------------------------------------------------------
Environment ==
    /\ \/ /\ PeerConnect
          /\ pending < Cardinality(Client \ clients)  \* bound: addresses
          /\ Arms(ServerFd)
          /\ UNCHANGED <<watch, errors, resets, dropped>>
       \/ \E f \in Fd :
             /\ \/ \E line \in {"line", "quit"} : PeerSend(f, line)
                \/ PeerClose(f)
             /\ Arms(f)
             /\ UNCHANGED <<watch, errors, resets, dropped>>
       \/ \E f \in Fd : PeerReset(f)
       \/ /\ \/ SigInt(FALSE)
             \/ pc = "wait" /\ SigInt(TRUE)
             \/ SigIntForced
          /\ KernelFollows
          /\ UNCHANGED <<resets, dropped>>
    /\ UNCHANGED loop

Loop ==
    \/ Top
    \/ Wait
    \/ Timeout
    \/ Serve
    \/ Drop
    \/ EndOfBatch
    \/ \E c \in Client \ clients, f \in Fd : AcceptAndWatch(c, f)
    \/ /\ \/ AcceptDone("delete")
          \/ \E k \in 1..MaxLines : ReadChunk(cur, k)
          \/ ReadDone(cur, "delete")
          \/ \E informed \in Informed : ReadEnd(cur, informed, "delete")
          \/ \E informed \in Informed : Line(informed)
          \/ \E informed \in Informed : Quit(cur, informed)
          \/ \E all \in BOOLEAN : Write(cur, all, "flush")
          \/ WriteKills(cur)
       /\ KernelFollows
       /\ UNCHANGED <<loop, resets, dropped>>
    \/ \E informed \in Informed : FlushFails(informed)
    \/ EndOfEvent
    \/ \E c \in Client, past \in SUBSET toflush : FlushNext(c, past)
    \/ EndOfFlush

Next == Environment \/ Loop

\* The loop runs on as long as it can: the process is scheduled.
Spec == Init /\ [][Next]_vars /\ WF_vars(Loop)

-----------------------------------------------------------------------------
TypeOK ==
    /\ EventTypeOK
    /\ pc \in {"top", "wait", "batch", "accept", "read", "delete", "flush",
              "write"} \cup Ended
    /\ cur \in Client \cup {ServerFd, NULL}
    /\ batch \in Seq([client : Client \cup {ServerFd}, error : BOOLEAN,
                     socket : Fd \cup {ServerFd}])
    /\ Len(batch) <= MaxEvents
    /\ toflush \subseteq clients
    /\ IsInjective(armed) /\ ToSet(armed) \subseteq open \cup {ServerFd}
    /\ \A f \in Fd : watch[f] \in IF f \in open THEN Client ELSE {NULL}
    /\ errors \subseteq open
    /\ resets \in 0..MaxResets /\ dropped \in BOOLEAN

(***************************************************************************)
(* The pointers that epoll_wait returned are used after other events of    *)
(* the batch have disconnected, deleted and accepted clients               *)
(* (event_epoll.c:51): each leads to a record in the list that still has   *)
(* the socket the event is of, and no two to the same.  So does the one    *)
(* the loop works with.                                                    *)
(***************************************************************************)
EventsLive ==
    LET pointers == [i \in DOMAIN batch |-> batch[i].client]
    IN  /\ \A i \in DOMAIN batch :
              IF batch[i].socket = ServerFd
                THEN batch[i].client = ServerFd
                ELSE /\ batch[i].client \in clients
                     /\ fd[batch[i].client] = batch[i].socket
        /\ IsInjective(pointers)
        /\ pc \in {"accept", "read", "delete", "write"} =>
              /\ cur \in clients \cup {ServerFd}
              /\ cur \notin ToSet(pointers)

(***************************************************************************)
(* As long as no socket with an error was given up and the server does not *)
(* shut down: descriptors and clients belong together, and a client is     *)
(* quitting only during its own event, at the end of which it is deleted.  *)
(***************************************************************************)
NobodyStranded ==
    ~dropped /\ ~event_shutting_down =>
       /\ SocketsOwned
       /\ quitting # {} => pc \in {"read", "delete"} /\ quitting = {cur}

(***************************************************************************)
(* What waits in the queue of a client that is not quitting is tried again *)
(* although no event ever says that its socket takes data: the flush after *)
(* every batch and every timeout comes to each client.                     *)
(***************************************************************************)
FlushRetried ==
    \A c \in Client :
       c \in queued \cap Serving ~>
          (pc = "write" /\ cur = c) \/ c \notin queued \cap Serving
                                   \/ pc \in Ended
=============================================================================
