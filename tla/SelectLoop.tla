----------------------------- MODULE SelectLoop -----------------------------
(***************************************************************************)
(* The event loop of the default build (event_select.c) over the sockets,  *)
(* clients and signals of Event: it fills the sets for select and a table  *)
(* that leads from a descriptor to its client, and scans what select       *)
(* returns in the order of the descriptors.  SIGINT can arrive between any *)
(* two steps.                                                              *)
(***************************************************************************)
EXTENDS Event

CONSTANT
    Urgent       \* do peers send out-of-band data?

ASSUME SelectLoopAssumption == Urgent \in BOOLEAN

VARIABLES
    cur,         \* i: the descriptor the scan is at
    rset, wset,  \* readfds and writefds: put in, then found ready
    xset,        \* exceptfds, after select
    lookup,      \* clients[fd]
    urgent       \* the kernel: sockets with out-of-band data

scan == <<cur, rset, wset, xset, lookup>>

vars == <<eventVars, scan, urgent>>

Init ==
    /\ EventInit
    /\ cur = NULL
    /\ rset = {} /\ wset = {} /\ xset = {}
    /\ lookup = [f \in Fd |-> NULL]
    /\ urgent = {}

-----------------------------------------------------------------------------
(***************************************************************************)
(* Variants with a fault.  Nothing uses them: each one put in the place of *)
(* the definition it varies violates a property of this module.            *)
(***************************************************************************)
WatchedQueued == {ServerFd} \cup {fd[c] : c \in queued}

LookupKept ==
    [f \in Fd |-> IF lookup[f] = NULL /\ \E c \in clients : fd[c] = f
                    THEN CHOOSE c \in clients : fd[c] = f
                    ELSE lookup[f]]

-----------------------------------------------------------------------------
PeerUrgent(f) ==
    /\ Speaks(f)
    /\ Urgent
    /\ urgent' = urgent \cup {f}
    /\ UNCHANGED <<eventVars, scan>>

\* A step that leaves the scan where it is.  A closed socket is not urgent.
ScanStays == urgent' = urgent \cap open' /\ UNCHANGED scan

-----------------------------------------------------------------------------
(***************************************************************************)
(* The top of the loop: it ends when the server shuts down, and otherwise  *)
(* fills the sets for select and the lookup table from the client list.    *)
(***************************************************************************)
Watched == {ServerFd} \cup {fd[c] : c \in clients}

LookupBuilt ==
    [f \in Fd |-> IF \E c \in clients : fd[c] = f
                    THEN CHOOSE c \in clients : fd[c] = f
                    ELSE lookup[f]]

Top ==
    /\ pc = "top"
    /\ IF GoesOn
         THEN /\ pc' = "select"
              /\ rset' = Watched
              /\ wset' = {fd[c] : c \in queued}
              /\ lookup' = LookupBuilt
         ELSE /\ pc' = "stopped"
              /\ UNCHANGED <<rset, wset, lookup>>
    /\ UNCHANGED <<cur, xset, urgent, chunk, records, kernel, signals>>

Valid == rset \ {ServerFd} \subseteq open

(***************************************************************************)
(* select returns with the descriptors that are ready.  A socket is        *)
(* readable when it has data or its peer is gone, and takes data or not.   *)
(***************************************************************************)
Readable ==
    (IF pending > 0 THEN {ServerFd} ELSE {}) \cup {f \in Fd : inbox[f] # <<>>}

Select(writable) ==
    /\ pc = "select"
    /\ Valid
    /\ writable \subseteq wset
    /\ rset' = rset \cap Readable
    /\ wset' = writable
    /\ xset' = urgent \cap rset
    /\ pc' = IF rset' \cup wset' \cup xset' = {} THEN "top" ELSE "scan"
    /\ UNCHANGED <<cur, lookup, urgent, chunk, records, kernel, signals>>

\* select fails with EBADF: error_print_exit
SelectFails ==
    /\ pc = "select"
    /\ ~Valid
    /\ pc' = "failed"
    /\ UNCHANGED <<scan, urgent, chunk, records, kernel, signals>>

-----------------------------------------------------------------------------
Ready == rset \cup wset \cup xset

\* i is the next descriptor that is ready in some set.
IsNext(i) == i \in Ready /\ \A j \in Ready : i <= j

ScanEnds ==
    /\ pc = "scan"
    /\ Ready = {}
    /\ pc' = "top"
    /\ cur' = NULL
    /\ UNCHANGED <<rset, wset, xset, lookup, urgent, chunk, records, kernel,
                   signals>>

ScanServes(i) ==
    /\ pc = "scan"
    /\ IsNext(i) /\ i \notin xset
    /\ cur' = i
    /\ rset' = rset \ {i}
    /\ pc' = IF i = ServerFd THEN "accept"
             ELSE IF i \in rset THEN "read" ELSE "write"
    /\ UNCHANGED <<wset, xset, lookup, urgent, chunk, records, kernel,
                   signals>>

\* One in the exceptfds is disconnected, and nothing more is done about it.
ScanExcepts(i, informed) ==
    /\ pc = "scan"
    /\ IsNext(i) /\ i \in xset
    /\ Disconnect(lookup[i], informed)
    /\ urgent' = urgent \cap open'
    /\ cur' = i
    /\ rset' = rset \ {i} /\ wset' = wset \ {i} /\ xset' = xset \ {i}
    /\ UNCHANGED <<pc, lookup, chunk, clients, fd, pending, budget, signals>>

\* The record the loop works for at this descriptor, client_event_data
Current == lookup[cur]

AfterRead == IF cur \in wset THEN "write" ELSE "delete"

EndOfIteration ==
    /\ pc = "delete"
    /\ DeleteQuitting(Current)
    /\ wset' = wset \ {cur}
    /\ pc' = "scan"
    /\ UNCHANGED <<cur, rset, xset, lookup, urgent, chunk, kernel, signals>>

-----------------------------------------------------------------------------
Environment ==
    \/ /\ \/ PeerConnect
          \/ \E f \in Fd, line \in {"line", "quit"} : PeerSend(f, line)
          \/ \E f \in Fd : PeerClose(f)
          \/ SigInt(FALSE)
          \/ pc = "select" /\ Valid /\ SigInt(TRUE)
          \/ SigIntForced
       /\ ScanStays
    \/ \E f \in Fd : PeerUrgent(f)

Loop ==
    \/ Top
    \/ \E writable \in SUBSET wset : Select(writable)
    \/ SelectFails
    \/ ScanEnds
    \/ \E i \in Ready : ScanServes(i)
    \/ \E i \in Ready, informed \in Informed : ScanExcepts(i, informed)
    \/ /\ \/ \E c \in Client, f \in Fd : Accept(c, f)
          \/ AcceptDone("scan")
          \/ \E k \in 1..MaxLines : ReadChunk(Current, k)
          \/ ReadDone(Current, AfterRead)
          \/ \E informed \in Informed : ReadEnd(Current, informed, AfterRead)
          \/ \E informed \in Informed : Line(informed)
          \/ \E informed \in Informed : Quit(Current, informed)
          \/ \E all \in BOOLEAN : Write(Current, all, "delete")
          \/ \E informed \in Informed :
                WriteFails(Current, informed, "delete")
          \/ WriteKills(Current)
       /\ ScanStays
    \/ EndOfIteration

Next == Environment \/ Loop

\* The loop runs on as long as it can: the process is scheduled.
Spec == Init /\ [][Next]_vars /\ WF_vars(Loop)

-----------------------------------------------------------------------------
TypeOK ==
    /\ EventTypeOK
    /\ pc \in {"top", "select", "scan", "accept", "read", "write", "delete"}
             \cup Ended
    /\ cur \in Fd \cup {ServerFd, NULL}
    /\ Ready \subseteq Fd \cup {ServerFd}
    /\ lookup \in [Fd -> Client \cup {NULL}]
    /\ urgent \subseteq open

(***************************************************************************)
(* "Lookup table: fd -> client_data*" (event_select.c:25): the record the  *)
(* loop works for is in the list and has the descriptor the scan is at.    *)
(***************************************************************************)
LookupCurrent ==
    pc \in {"read", "write", "delete"} =>
       Current \in clients /\ fd[Current] = cur

(***************************************************************************)
(* A client is quitting only during its own iteration of the scan, at the  *)
(* end of which it is deleted: no handler ever runs for one client while   *)
(* another is marked quitting.                                             *)
(***************************************************************************)
QuittingIsCurrent ==
    quitting # {} => pc \in {"read", "write", "delete"} /\ quitting = {Current}

\* select is never given a closed descriptor, which ends the server.
SelectSucceeds == pc # "failed"
=============================================================================
