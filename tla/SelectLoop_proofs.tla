------------------------- MODULE SelectLoop_proofs -------------------------
(***************************************************************************)
(* The select loop always works for a record that is in the list, whatever *)
(* the peers and SIGINT do.  Until the first SIGINT, and when there is no  *)
(* out-of-band data, it serves every client at its own socket and never    *)
(* passes a closed one to select; with either of them a client is          *)
(* disconnected outside of its own iteration, and that does not hold.  All *)
(* of it is for any number of clients and descriptors.                     *)
(***************************************************************************)
EXTENDS SelectLoop, SequenceTheorems, TLAPS

Serves == {"read", "write", "delete"}

Places == {"top", "select", "scan", "accept"} \cup Serves \cup Ended

RecordsOK ==
    /\ quitting \cup queued \subseteq clients
    /\ clients \subseteq Client
    /\ fd \in [Client -> Fd \cup {NULL}]
    /\ \A c \in clients : fd[c] \in Fd
    /\ open \subseteq Fd /\ urgent \subseteq open

\* Every descriptor still to be scanned leads to a record in the list, and
\* so does the one the loop works at, which the scan does not come to again.
ScanOK ==
    /\ pc \in Places
    /\ cur \in Fd \cup {ServerFd, NULL}
    /\ rset \subseteq Fd \cup {ServerFd}
    /\ wset \subseteq Fd /\ xset \subseteq Fd
    /\ lookup \in [Fd -> Client \cup {NULL}]
    /\ \A f \in Ready \ {ServerFd} :
          lookup[f] \in clients /\ fd[lookup[f]] = f
    /\ pc \in Serves => /\ cur \in Fd \ (rset \cup xset)
                        /\ lookup[cur] \in clients /\ fd[lookup[cur]] = cur

Safe == RecordsOK /\ ScanOK

SignalsOK == event_shutting_down \in BOOLEAN /\ sigints \in 0..2

\* The end of a connection is the last that can be read from a socket.
EofLast ==
    \A f \in Fd : \A i \in 1..Len(inbox[f]) :
       inbox[f][i] = "eof" => i = Len(inbox[f])

StreamsOK ==
    /\ chunk \in Seq({"line", "quit"})
    /\ inbox \in [Fd -> Seq({"line", "quit", "eof"})]
    /\ pending \in 0..MaxPending
    /\ budget \in [Fd -> 0..MaxLines]
    /\ EofLast

\* The listening socket is not a descriptor of a client.
LEMMA ServerApart == ServerFd \notin Fd
BY EventAssumption DEF EventAssumption

LEMMA InitSafe == Init => Safe /\ SignalsOK /\ StreamsOK
<1> SUFFICES ASSUME Init PROVE Safe /\ SignalsOK /\ StreamsOK
  OBVIOUS
<1> USE DEF Init, EventInit
<1>1. RecordsOK
  BY DEF RecordsOK
<1>2. ScanOK
  BY DEF ScanOK, Places, Serves, Ended, Ready
<1>3. SignalsOK
  <2>1. event_shutting_down \in BOOLEAN
    BY Zenon
  <2>2. sigints \in 0..2
    OBVIOUS
  <2> QED
    BY <2>1, <2>2 DEF SignalsOK
<1>4. StreamsOK
  BY EventAssumption DEF StreamsOK, EofLast, EventAssumption
<1> QED
  BY <1>1, <1>2, <1>3, <1>4 DEF Safe

-----------------------------------------------------------------------------
(***************************************************************************)
(* The loop works for records in the list: the only one it deletes is the  *)
(* one it works for, at the end of its iteration.                          *)
(***************************************************************************)

\* A step that neither adds nor deletes a record, nor goes on with the scan
LEMMA StaysSafe ==
    ASSUME Safe, UNCHANGED <<clients, fd, cur, rset, wset, xset, lookup>>,
           quitting' \cup queued' \subseteq clients, open' \subseteq Fd,
           urgent' \subseteq open',
           pc' \in Places, pc' \in Serves => pc \in Serves
    PROVE  Safe'
<1>1. RecordsOK'
  BY DEF Safe, RecordsOK
<1>2. ScanOK'
  BY DEF Safe, ScanOK, Ready
<1> QED
  BY <1>1, <1>2 DEF Safe

LEMMA EnvironmentSafe ==
    ASSUME Safe, Environment
    PROVE  Safe'
<1>1. /\ UNCHANGED <<clients, fd, cur, rset, wset, xset, lookup, queued>>
      /\ quitting' = quitting \/ quitting' = clients
      /\ open' \subseteq open
  BY DEF Environment, ScanStays, PeerConnect, PeerSend, PeerClose, PeerUrgent,
         SigInt, SigIntForced, records, kernel, signals, scan, eventVars
<1>2. pc' \in {pc, "top", "forced"}
  BY DEF Environment, PeerConnect, PeerSend, PeerClose, PeerUrgent,
         SigInt, SigIntForced, eventVars
<1>3. urgent' \subseteq open'
  BY DEF Environment, ScanStays, PeerUrgent, Speaks, eventVars, kernel,
         Safe, RecordsOK
<1>4. pc' \in Places /\ (pc' \in Serves => pc \in Serves)
  BY <1>2 DEF Safe, ScanOK, Places, Serves, Ended
<1> QED
  BY <1>1, <1>3, <1>4, StaysSafe DEF Safe, RecordsOK

LEMMA TopSafe ==
    ASSUME Safe, Top
    PROVE  Safe'
<1>1. /\ UNCHANGED <<cur, xset, urgent, clients, fd, quitting, queued, open>>
      /\ \/ /\ pc' = "select" /\ rset' = Watched
            /\ wset' = {fd[c] : c \in queued} /\ lookup' = LookupBuilt
         \/ pc' = "stopped" /\ UNCHANGED <<rset, wset, lookup>>
      /\ pc = "top"
  BY DEF Top, records, kernel
<1>2. CASE pc' = "stopped" /\ UNCHANGED <<rset, wset, lookup>>
  <2>1. pc' \in Places /\ pc' \notin Serves
    BY <1>2 DEF Places, Serves, Ended
  <2> QED
    BY <1>1, <1>2, <2>1, StaysSafe DEF Safe, RecordsOK
<1>3. CASE /\ pc' = "select" /\ rset' = Watched
           /\ wset' = {fd[c] : c \in queued} /\ lookup' = LookupBuilt
  <2>1. ASSUME NEW c \in clients
        PROVE  /\ fd[c] \in Fd
               /\ lookup'[fd[c]] \in clients /\ fd[lookup'[fd[c]]] = fd[c]
    BY <1>3 DEF LookupBuilt, Safe, RecordsOK
  <2>2. lookup' \in [Fd -> Client \cup {NULL}]
    <3>1. ASSUME NEW f \in Fd PROVE LookupBuilt[f] \in Client \cup {NULL}
      BY DEF LookupBuilt, Safe, RecordsOK, ScanOK
    <3> QED
      BY <1>3, <3>1 DEF LookupBuilt
  <2>3. /\ rset' = {ServerFd} \cup {fd[c] : c \in clients}
        /\ wset' \subseteq {fd[c] : c \in clients}
    BY <1>3 DEF Watched, Safe, RecordsOK
  <2>4. \A f \in xset : lookup'[f] \in clients /\ fd[lookup'[f]] = f
    <3> SUFFICES ASSUME NEW f \in xset
                 PROVE  lookup'[f] \in clients /\ fd[lookup'[f]] = f
      OBVIOUS
    <3>1. f \in Fd /\ lookup[f] \in clients /\ fd[lookup[f]] = f
      BY ServerApart DEF Safe, ScanOK, Ready
    <3> QED
      BY <2>1, <3>1
  <2>5. \A f \in Ready' \ {ServerFd} :
           lookup'[f] \in clients /\ fd[lookup'[f]] = f
    BY <1>1, <2>1, <2>3, <2>4 DEF Ready
  <2>6. rset' \subseteq Fd \cup {ServerFd} /\ wset' \subseteq Fd
    BY <2>1, <2>3
  <2>7. ScanOK'
    BY <1>1, <1>3, <2>2, <2>5, <2>6 DEF Safe, ScanOK, Places, Serves
  <2>8. RecordsOK'
    BY <1>1 DEF Safe, RecordsOK
  <2> QED
    BY <2>7, <2>8 DEF Safe
<1> QED
  BY <1>1, <1>2, <1>3

\* select returns and the scan goes on, with fewer descriptors to scan.
LEMMA SelectSafe ==
    ASSUME Safe,
           \/ \E writable \in SUBSET wset : Select(writable)
           \/ SelectFails
           \/ ScanEnds
    PROVE  Safe'
<1>1. /\ UNCHANGED <<lookup, urgent, clients, fd, quitting, queued, open>>
      /\ rset' \subseteq rset /\ wset' \subseteq wset
      /\ xset' \subseteq xset \cup (urgent \cap rset)
      /\ cur' \in {cur, NULL} /\ pc' \in {"top", "scan", "failed"}
  BY DEF Select, SelectFails, ScanEnds, records, kernel, scan
<1>2. RecordsOK'
  BY <1>1 DEF Safe, RecordsOK
<1>3. Ready' \subseteq Ready
  BY <1>1 DEF Ready
<1>4. xset' \subseteq Fd
  BY <1>1 DEF Safe, ScanOK, RecordsOK
<1>5. ScanOK'
  BY <1>1, <1>3, <1>4 DEF Safe, ScanOK, Places, Serves, Ended
<1> QED
  BY <1>2, <1>5 DEF Safe

LEMMA ScanSafe ==
    ASSUME Safe, NEW i \in Ready,
           \/ ScanServes(i)
           \/ \E informed \in Informed : ScanExcepts(i, informed)
    PROVE  Safe'
<1>1. i \in Fd \cup {ServerFd}
  BY DEF Safe, ScanOK, Ready
<1>2. CASE ScanServes(i)
  <2>1. /\ cur' = i /\ rset' = rset \ {i} /\ i \notin xset
        /\ pc' = IF i = ServerFd THEN "accept"
                 ELSE IF i \in rset THEN "read" ELSE "write"
        /\ UNCHANGED <<wset, xset, lookup, urgent, clients, fd, quitting,
                       queued, open>>
    BY <1>2 DEF ScanServes, records, kernel
  <2>2. RecordsOK'
    BY <2>1 DEF Safe, RecordsOK
  <2>3. Ready' \subseteq Ready
    BY <2>1 DEF Ready
  <2>4. pc' \in Places /\ (pc' \in Serves => i # ServerFd)
    BY <2>1 DEF Places, Serves
  <2>5. ScanOK'
    BY <1>1, <2>1, <2>3, <2>4 DEF Safe, ScanOK
  <2> QED
    BY <2>2, <2>5 DEF Safe
<1>3. ASSUME NEW informed \in Informed, ScanExcepts(i, informed)
      PROVE  Safe'
  <2>1. /\ cur' = i /\ pc = "scan"
        /\ rset' = rset \ {i} /\ wset' = wset \ {i} /\ xset' = xset \ {i}
        /\ i \in xset
        /\ UNCHANGED <<pc, lookup, clients, fd>>
        /\ urgent' = urgent \cap open'
        /\ Disconnect(lookup[i], informed)
    BY <1>3 DEF ScanExcepts
  <2>2. lookup[i] \in clients
    BY <2>1, ServerApart DEF Safe, ScanOK, Ready
  <2>3. RecordsOK'
    BY <2>1, <2>2 DEF Safe, RecordsOK, Disconnect, Informed
  <2>4. Ready' \subseteq Ready
    BY <2>1 DEF Ready
  <2>5. ScanOK'
    BY <1>1, <2>1, <2>4 DEF Safe, ScanOK, Serves
  <2> QED
    BY <2>3, <2>5 DEF Safe
<1> QED
  BY <1>2, <1>3

\* A new record has an address that the rest of the scan does not lead to.
LEMMA AcceptSafe ==
    ASSUME Safe, NEW c \in Client, NEW f \in Fd, Accept(c, f), ScanStays
    PROVE  Safe'
<1>1. /\ pc = "accept" /\ f \in Fd \ open /\ c \notin clients
      /\ clients' = clients \cup {c} /\ fd' = [fd EXCEPT ![c] = f]
      /\ open' = open \cup {f}
      /\ UNCHANGED <<pc, quitting, queued>>
      /\ UNCHANGED <<cur, rset, wset, xset, lookup>>
      /\ urgent' = urgent \cap open'
  BY DEF Accept, SetFd, ScanStays, scan
<1>2. /\ fd' \in [Client -> Fd \cup {NULL}] /\ fd'[c] = f
      /\ \A d \in clients : d # c /\ fd'[d] = fd[d]
  BY <1>1 DEF Safe, RecordsOK
<1>3. RecordsOK'
  BY <1>1, <1>2 DEF Safe, RecordsOK
<1>4. ScanOK'
  BY <1>1, <1>2 DEF Safe, ScanOK, Serves, Ready
<1> QED
  BY <1>3, <1>4 DEF Safe

LEMMA AfterReadServes == AfterRead \in Serves
BY DEF AfterRead, Serves

\* What is done within the iteration of a client
WithinIteration ==
    /\ \/ \E k \in 1..MaxLines : ReadChunk(Current, k)
       \/ ReadDone(Current, AfterRead)
       \/ \E informed \in Informed : ReadEnd(Current, informed, AfterRead)
       \/ \E informed \in Informed : Line(informed)
       \/ \E informed \in Informed : Quit(Current, informed)
       \/ \E all \in BOOLEAN : Write(Current, all, "delete")
       \/ \E informed \in Informed :
             WriteFails(Current, informed, "delete")
       \/ WriteKills(Current)
    /\ ScanStays

LEMMA IterationSafe ==
    ASSUME Safe, WithinIteration
    PROVE  Safe'
<1> DEFINE Closes(informed) ==
             \/ ReadEnd(Current, informed, AfterRead)
             \/ Quit(Current, informed)
             \/ WriteFails(Current, informed, "delete")
<1>1. /\ UNCHANGED <<cur, rset, wset, xset, lookup>>
      /\ urgent' = urgent \cap open'
  BY DEF WithinIteration, ScanStays, scan
<1>2. /\ UNCHANGED <<clients, fd>>
      /\ pc \in Serves /\ pc' \in Serves \cup {"killed"}
  BY AfterReadServes
     DEF WithinIteration, ReadChunk, ReadDone, ReadEnd, Line, Quit, Write,
         WriteFails, WriteKills, records, kernel, Serves
<1>3. Current \in clients /\ fd[Current] \in Fd
  BY <1>2 DEF Safe, ScanOK, Current
<1>4. /\ quitting' \cup queued' \subseteq clients /\ open' \subseteq open
  <2>1. ASSUME NEW informed \in Informed, Closes(informed)
        PROVE  /\ quitting' \subseteq quitting \cup {Current}
               /\ queued' \subseteq queued \cup informed
               /\ open' \subseteq open
    BY <2>1 DEF ReadEnd, Quit, WriteFails, Disconnect
  <2>2. CASE ~\E informed \in Informed : Closes(informed)
    <3>1. /\ UNCHANGED <<quitting, open>>
          /\ \/ queued' \subseteq queued
             \/ \E informed \in Informed : queued' = queued \cup informed
      BY <2>2 DEF WithinIteration, ReadChunk, ReadDone, Line, Write,
                  WriteKills, records, kernel
    <3> QED
      BY <3>1 DEF Safe, RecordsOK, Informed
  <2> HIDE DEF Closes
  <2> QED
    BY <1>3, <2>1, <2>2 DEF Safe, RecordsOK, Informed
<1>5. pc' \in Places
  BY <1>2 DEF Places, Ended
<1> QED
  BY <1>1, <1>2, <1>4, <1>5, StaysSafe DEF Safe, RecordsOK

\* The end of an iteration deletes the current client if it is quitting.
LEMMA EndOfIterationSafe ==
    ASSUME Safe, EndOfIteration
    PROVE  Safe'
<1>1. /\ pc = "delete" /\ pc' = "scan" /\ wset' = wset \ {cur}
      /\ UNCHANGED <<cur, rset, xset, lookup, urgent, open>>
      /\ DeleteQuitting(Current)
  BY DEF EndOfIteration, kernel
<1>2. /\ cur \in Fd \ (rset \cup xset)
      /\ Current \in clients /\ fd[Current] = cur
  BY <1>1 DEF Safe, ScanOK, Serves, Current
<1>3. /\ clients \ {Current} \subseteq clients' /\ clients' \subseteq clients
      /\ quitting' \cup queued' \subseteq clients'
      /\ fd' \in [Client -> Fd \cup {NULL}]
      /\ \A c \in clients' : fd'[c] = fd[c]
  BY <1>1 DEF DeleteQuitting, records, Safe, RecordsOK
<1>4. RecordsOK'
  BY <1>1, <1>3 DEF Safe, RecordsOK
<1>5. ASSUME NEW f \in Ready' \ {ServerFd}
      PROVE  lookup[f] \in clients' /\ fd'[lookup[f]] = f
  <2>1. f \in Ready /\ f # cur
    BY <1>1, <1>2 DEF Ready
  <2>2. lookup[f] \in clients /\ fd[lookup[f]] = f
    BY <2>1 DEF Safe, ScanOK
  <2> QED
    BY <1>2, <1>3, <2>1, <2>2
<1>6. ScanOK'
  BY <1>1, <1>5 DEF Safe, ScanOK, Places, Serves
<1> QED
  BY <1>4, <1>6 DEF Safe

LEMMA AcceptDoneSafe ==
    ASSUME Safe, AcceptDone("scan"), ScanStays
    PROVE  Safe'
<1>1. /\ pc' = "scan"
      /\ UNCHANGED <<clients, fd, quitting, queued, open>>
      /\ UNCHANGED <<cur, rset, wset, xset, lookup>>
      /\ urgent' = urgent \cap open'
  BY DEF AcceptDone, ScanStays, scan, records, kernel
<1>2. pc' \in Places /\ pc' \notin Serves
  BY <1>1 DEF Places, Serves
<1> QED
  BY <1>1, <1>2, StaysSafe DEF Safe, RecordsOK

LEMMA NextSafe == Safe /\ [Next]_vars => Safe'
<1> SUFFICES ASSUME Safe, [Next]_vars PROVE Safe'
  OBVIOUS
<1>1. CASE Environment
  BY <1>1, EnvironmentSafe
<1>2. CASE Loop
  BY <1>2, TopSafe, SelectSafe, ScanSafe, AcceptSafe, AcceptDoneSafe,
     IterationSafe, EndOfIterationSafe DEF Loop, WithinIteration
<1>3. CASE UNCHANGED vars
  BY <1>3 DEF vars, eventVars, records, kernel, scan, Safe, RecordsOK, ScanOK,
              Ready
<1> QED
  BY <1>1, <1>2, <1>3 DEF Next

LEMMA AlwaysSafe == Spec => []Safe
BY InitSafe, NextSafe, PTL DEF Spec

(***************************************************************************)
(* The lookup table leads the scan to a record in the list that has the    *)
(* descriptor the scan is at: no record the loop works for was deleted,    *)
(* whatever the peers send, and wherever SIGINT interrupts it.             *)
(***************************************************************************)
THEOREM LookupCorrect == Spec => []LookupCurrent
<1>1. Safe => LookupCurrent
  BY DEF Safe, ScanOK, LookupCurrent, Current, Serves
<1> QED
  BY <1>1, AlwaysSafe, PTL

-----------------------------------------------------------------------------
(***************************************************************************)
(* Until the first SIGINT, and without out-of-band data                    *)
(***************************************************************************)
Undisturbed == Urgent = FALSE /\ sigints = 0

Quiet ==
    /\ event_shutting_down = FALSE /\ sigints = 0
    /\ urgent = {} /\ xset = {}

\* The records in the list have descriptors of their own; the open ones are
\* those of the clients that are served.
Owned ==
    /\ \A c, d \in clients : fd[c] = fd[d] => c = d
    /\ open = {fd[c] : c \in Serving}

Served ==
    /\ QuittingIsCurrent
    /\ pc = "select" => Valid
    /\ pc # "failed"

Calm == Quiet /\ Owned /\ Served

\* SIGINT is the only thing that shuts the server down.
LEMMA SignalSteps ==
    ASSUME [Next]_vars
    PROVE  \/ UNCHANGED signals
           \/ SigInt(FALSE) /\ ScanStays
           \/ pc = "select" /\ SigInt(TRUE) /\ ScanStays
           \/ SigIntForced /\ ScanStays
BY DEF Next, Environment, Loop, PeerConnect, PeerSend, PeerClose, PeerUrgent,
       Top, Select, SelectFails, ScanEnds, ScanServes, ScanExcepts, Accept,
       AcceptDone, ReadChunk, ReadDone, ReadEnd, Line, Quit, Write, WriteFails,
       WriteKills, EndOfIteration, eventVars, vars

LEMMA NextSignals == SignalsOK /\ [Next]_vars => SignalsOK'
<1> SUFFICES ASSUME SignalsOK, [Next]_vars PROVE SignalsOK'
  OBVIOUS
<1>1. CASE UNCHANGED signals
  BY <1>1 DEF signals, SignalsOK
<1>2. CASE SigInt(FALSE) \/ SigInt(TRUE)
  <2>1. event_shutting_down' = TRUE /\ sigints' = 1
    BY <1>2 DEF SigInt
  <2>2. event_shutting_down' \in BOOLEAN
    BY <2>1, Zenon
  <2>3. sigints' \in 0..2
    BY <2>1
  <2> QED
    BY <2>2, <2>3 DEF SignalsOK
<1>3. CASE SigIntForced
  <2>1. event_shutting_down' = event_shutting_down /\ sigints' = 2
    BY <1>3 DEF SigIntForced
  <2>2. event_shutting_down' \in BOOLEAN
    BY <2>1, Zenon DEF SignalsOK
  <2>3. sigints' \in 0..2
    BY <2>1
  <2> QED
    BY <2>2, <2>3 DEF SignalsOK
<1> QED
  BY <1>1, <1>2, <1>3, SignalSteps

LEMMA InitCalm == Init => Calm
<1> SUFFICES ASSUME Init PROVE Calm
  OBVIOUS
<1> USE DEF Init, EventInit
<1>1. Quiet
  BY DEF Quiet
<1>2. Owned
  BY DEF Owned, Serving
<1>3. Served
  BY DEF Served, QuittingIsCurrent, Valid
<1> QED
  BY <1>1, <1>2, <1>3 DEF Calm

\* A step that changes neither the records nor the scan nor the place
LEMMA StaysCalm ==
    ASSUME Calm, urgent' = {}, xset' = xset,
           UNCHANGED <<pc, clients, fd, quitting, open, cur, rset, lookup,
                       signals>>
    PROVE  Calm'
BY DEF Calm, Quiet, Owned, Served, signals, Serving, QuittingIsCurrent, Valid,
       Current

LEMMA EnvironmentCalm ==
    ASSUME Calm, Urgent = FALSE, UNCHANGED signals, Environment
    PROVE  Calm'
<1>1. sigints' = 0
  BY DEF Calm, Quiet, signals
<1>2. /\ \/ PeerConnect
         \/ \E f \in Fd, line \in {"line", "quit"} : PeerSend(f, line)
         \/ \E f \in Fd : PeerClose(f)
      /\ ScanStays
  BY <1>1 DEF Environment, SigInt, SigIntForced, PeerUrgent
<1>3. UNCHANGED <<pc, records, open, signals>>
  BY <1>2 DEF PeerConnect, PeerSend, PeerClose
<1>4. UNCHANGED <<cur, rset, wset, xset, lookup>> /\ urgent' = {}
  BY <1>2 DEF ScanStays, scan, Calm, Quiet
<1> QED
  BY <1>3, <1>4, StaysCalm DEF records

\* QUIT, an end of file or a failed send: the current client is disconnected.
LEMMA DisconnectCalm ==
    ASSUME Safe, Calm, pc \in {"read", "write"}, NEW informed \in Informed,
           Disconnect(Current, informed), pc' \in Serves,
           UNCHANGED <<clients, fd, signals, cur, rset, wset, xset, lookup>>,
           urgent' = {}
    PROVE  Calm'
<1>1. Current \in clients /\ fd[Current] = cur /\ Current' = Current
  BY DEF Safe, ScanOK, Current, Serves
<1>2. quitting' = {Current} /\ open' = open \ {fd[Current]}
  BY <1>1 DEF Calm, Served, QuittingIsCurrent, Disconnect
<1>3. Quiet'
  BY DEF Calm, Quiet, signals
<1>4. Owned'
  BY <1>1, <1>2 DEF Calm, Served, QuittingIsCurrent, Owned, Serving
<1>5. Served'
  BY <1>1, <1>2 DEF Calm, Served, QuittingIsCurrent, Serves
<1> QED
  BY <1>3, <1>4, <1>5 DEF Calm

LEMMA TopCalm ==
    ASSUME Safe, Calm, Top
    PROVE  Calm'
<1>1. /\ pc = "top" /\ quitting = {} /\ event_shutting_down = FALSE
      /\ UNCHANGED <<cur, xset, urgent, records, open, signals>>
  BY DEF Top, Calm, Quiet, Served, QuittingIsCurrent, kernel
<1>2. pc' = "select" /\ rset' = {ServerFd} \cup {fd[c] : c \in clients}
  BY <1>1 DEF Top, GoesOn, Watched
<1>3. Quiet' /\ Owned'
  BY <1>1 DEF Calm, Quiet, Owned, Serving, signals, records
<1>4. Valid'
  BY <1>1, <1>2 DEF Calm, Owned, Serving, Valid
<1>5. Served'
  BY <1>1, <1>2, <1>4 DEF Served, QuittingIsCurrent, records
<1> QED
  BY <1>3, <1>5 DEF Calm

\* The scan starts, goes on and ends while no client is quitting.
LEMMA ScanCalm ==
    ASSUME Safe, Calm,
           \/ \E writable \in SUBSET wset : Select(writable)
           \/ SelectFails
           \/ ScanEnds
           \/ \E i \in Ready : ScanServes(i)
           \/ \E i \in Ready, informed \in Informed : ScanExcepts(i, informed)
           \/ AcceptDone("scan") /\ ScanStays
    PROVE  Calm'
<1>1. ~SelectFails /\ xset = {} /\ urgent = {}
  BY DEF SelectFails, Calm, Quiet, Served
<1>2. /\ pc \in {"select", "scan", "accept"}
      /\ pc' \in {"top", "scan", "accept", "read", "write"}
      /\ xset' = {} /\ urgent' = {}
      /\ UNCHANGED <<records, open, signals>>
  BY <1>1 DEF Select, ScanEnds, ScanServes, ScanExcepts, AcceptDone,
              ScanStays, scan, kernel
<1>3. quitting = {}
  BY <1>2 DEF Calm, Served, QuittingIsCurrent
<1>4. Quiet' /\ Owned'
  BY <1>2 DEF Calm, Quiet, Owned, Serving, signals, records
<1>5. Served'
  BY <1>2, <1>3 DEF Served, QuittingIsCurrent, records
<1> QED
  BY <1>4, <1>5 DEF Calm

LEMMA AcceptCalm ==
    ASSUME Safe, Calm, NEW c \in Client, NEW f \in Fd, Accept(c, f), ScanStays
    PROVE  Calm'
<1>1. /\ pc = "accept" /\ f \in Fd \ open /\ c \notin clients
      /\ clients' = clients \cup {c} /\ fd' = [fd EXCEPT ![c] = f]
      /\ open' = open \cup {f}
      /\ UNCHANGED <<pc, quitting, queued, signals>>
  BY DEF Accept, SetFd
<1>2. UNCHANGED <<cur, rset, wset, xset, lookup>> /\ urgent' = {}
  BY DEF ScanStays, scan, Calm, Quiet
<1>3. quitting = {}
  BY <1>1 DEF Calm, Served, QuittingIsCurrent
<1>4. fd'[c] = f /\ \A d \in clients : d # c /\ fd'[d] = fd[d]
  BY <1>1 DEF Safe, RecordsOK
<1>5. Quiet'
  BY <1>1, <1>2 DEF Calm, Quiet, signals
<1>6. Owned'
  <2>1. open = {fd[d] : d \in clients}
    BY <1>3 DEF Calm, Owned, Serving
  <2>2. open' = {fd'[d] : d \in clients'}
    BY <1>1, <1>4, <2>1
  <2>3. \A d, e \in clients' : fd'[d] = fd'[e] => d = e
    BY <1>1, <1>4, <2>1 DEF Calm, Owned
  <2> QED
    BY <1>1, <1>3, <2>2, <2>3 DEF Owned, Serving
<1>7. Served'
  BY <1>1, <1>3 DEF Served, QuittingIsCurrent
<1> QED
  BY <1>5, <1>6, <1>7 DEF Calm

LEMMA IterationCalm ==
    ASSUME Safe, Calm, WithinIteration
    PROVE  Calm'
<1> DEFINE Closes(informed) ==
             \/ ReadEnd(Current, informed, AfterRead)
                /\ Current \notin quitting
             \/ Quit(Current, informed)
             \/ WriteFails(Current, informed, "delete")
<1>1. UNCHANGED <<cur, rset, wset, xset, lookup>> /\ urgent' = {}
  BY DEF WithinIteration, ScanStays, scan, Calm, Quiet
<1>2. ASSUME NEW informed \in Informed, Closes(informed)
      PROVE  Calm'
  <2>1. /\ pc \in {"read", "write"} /\ pc' \in Serves
        /\ Disconnect(Current, informed) /\ UNCHANGED <<clients, fd, signals>>
    BY <1>2, AfterReadServes DEF ReadEnd, Quit, WriteFails, Serves
  <2> QED
    BY <1>1, <2>1, DisconnectCalm
<1>3. CASE /\ ~\E informed \in Informed : Closes(informed)
           /\ ~WriteKills(Current)
  <2>1. /\ pc \in Serves /\ pc' \in Serves
        /\ UNCHANGED <<clients, fd, quitting, open, signals>>
    BY <1>3, AfterReadServes
       DEF WithinIteration, ReadChunk, ReadDone, ReadEnd, Line, Write,
           records, kernel, Serves
  <2>2. Quiet' /\ Owned'
    BY <1>1, <2>1 DEF Calm, Quiet, Owned, Serving, signals
  <2>3. Served'
    BY <1>1, <2>1 DEF Calm, Served, QuittingIsCurrent, Serves, Current
  <2> QED
    BY <2>2, <2>3 DEF Calm
<1>4. CASE WriteKills(Current)
  <2>1. /\ pc = "write" /\ pc' = "killed" /\ fd[Current] \in open
        /\ UNCHANGED <<records, open, signals>>
    BY <1>4 DEF WriteKills, kernel
  <2>2. Current \in clients
    BY <2>1 DEF Safe, ScanOK, Current, Serves
  <2>3. quitting = {}
    BY <2>1, <2>2 DEF Calm, Owned, Serving, Served, QuittingIsCurrent
  <2>4. Quiet' /\ Owned'
    BY <1>1, <2>1 DEF Calm, Quiet, Owned, Serving, signals, records
  <2>5. Served'
    BY <2>1, <2>3 DEF Served, QuittingIsCurrent, records
  <2> QED
    BY <2>4, <2>5 DEF Calm
<1> HIDE DEF Closes
<1> QED
  BY <1>2, <1>3, <1>4

LEMMA EndOfIterationCalm ==
    ASSUME Safe, Calm, EndOfIteration
    PROVE  Calm'
<1>1. /\ pc = "delete" /\ pc' = "scan"
      /\ UNCHANGED <<xset, urgent, open, signals>>
      /\ DeleteQuitting(Current)
  BY DEF EndOfIteration, kernel
<1>2. /\ Current \in clients
      /\ quitting # {} => quitting = {Current}
  BY <1>1 DEF Safe, ScanOK, Serves, Current, Calm, Served, QuittingIsCurrent
<1>3. /\ clients' = clients \ quitting /\ quitting' = {}
      /\ \A c \in clients' : fd'[c] = fd[c]
  BY <1>1, <1>2 DEF DeleteQuitting, records, Safe, RecordsOK
<1>4. Quiet'
  BY <1>1 DEF Calm, Quiet, signals
<1>5. Owned'
  BY <1>1, <1>3 DEF Calm, Owned, Serving
<1>6. Served'
  BY <1>1, <1>3 DEF Served, QuittingIsCurrent
<1> QED
  BY <1>4, <1>5, <1>6 DEF Calm

Inv == Safe /\ SignalsOK /\ (Undisturbed => Calm)

LEMMA NextInv == Inv /\ [Next]_vars => Inv'
<1> SUFFICES ASSUME Inv, [Next]_vars PROVE Inv'
  OBVIOUS
<1>1. Safe /\ SignalsOK /\ Safe' /\ SignalsOK'
  BY NextSafe, NextSignals DEF Inv
<1>2. ASSUME Undisturbed' PROVE Calm'
  <2>1. Urgent = FALSE /\ sigints' = 0
    BY <1>2 DEF Undisturbed
  <2>2. UNCHANGED signals
    BY <2>1, SignalSteps DEF SigInt, SigIntForced
  <2>3. Calm
    BY <2>1, <2>2 DEF Inv, Undisturbed, signals
  <2>4. CASE Environment
    BY <2>1, <2>2, <2>3, <2>4, EnvironmentCalm
  <2>5. CASE Loop
    BY <1>1, <2>3, <2>5, TopCalm, ScanCalm, AcceptCalm, IterationCalm,
       EndOfIterationCalm DEF Loop, WithinIteration
  <2>6. CASE UNCHANGED vars
    <3>1. UNCHANGED <<pc, records, open, signals, scan, urgent>>
      BY <2>6 DEF vars, eventVars, kernel
    <3> QED
      BY <2>3, <3>1, StaysCalm DEF records, scan, Calm, Quiet
  <2> QED
    BY <2>4, <2>5, <2>6 DEF Next
<1> QED
  BY <1>1, <1>2 DEF Inv

LEMMA AlwaysInv == Spec => []Inv
<1>1. Init => Inv
  BY InitSafe, InitCalm DEF Inv
<1> QED
  BY <1>1, NextInv, PTL DEF Spec

(***************************************************************************)
(* Until the first SIGINT, without out-of-band data, every client that is  *)
(* served has an open descriptor of its own, and no descriptor leaks.      *)
(***************************************************************************)
THEOREM SocketsCorrect == Spec => [](Undisturbed => SocketsOwned)
<1>1. Inv => (Undisturbed => SocketsOwned)
  BY DEF Inv, Calm, Owned, SocketsOwned, Serving
<1> QED
  BY <1>1, AlwaysInv, PTL

(***************************************************************************)
(* Until then, a client is quitting in its own iteration only.             *)
(***************************************************************************)
THEOREM QuittingCorrect == Spec => [](Undisturbed => QuittingIsCurrent)
<1>1. Inv => (Undisturbed => QuittingIsCurrent)
  BY DEF Inv, Calm, Served
<1> QED
  BY <1>1, AlwaysInv, PTL

(***************************************************************************)
(* Until then, select is never given a closed descriptor, so that the      *)
(* server does not end by an error of select.                              *)
(***************************************************************************)
THEOREM SelectCorrect == Spec => [](Undisturbed => SelectSucceeds)
<1>1. Inv => (Undisturbed => SelectSucceeds)
  BY DEF Inv, Calm, Served, SelectSucceeds
<1> QED
  BY <1>1, AlwaysInv, PTL

-----------------------------------------------------------------------------
(***************************************************************************)
(* What is read from a socket: lines, and the end of the connection last.  *)
(***************************************************************************)
Item == {"line", "quit", "eof"}

Ends(s) == \A i \in 1..Len(s) : s[i] = "eof" => i = Len(s)

LEMMA EndsAppend ==
    ASSUME NEW s \in Seq(Item), NEW e \in Item,
           "eof" \notin {s[i] : i \in DOMAIN s}
    PROVE  Append(s, e) \in Seq(Item) /\ Ends(Append(s, e))
<1>1. \A i \in 1..Len(s) : s[i] # "eof"
  BY LenProperties
<1>2. /\ Len(s) \in Nat /\ Len(Append(s, e)) = Len(s) + 1
      /\ Append(s, e) \in Seq(Item)
      /\ \A i \in 1..Len(s) : Append(s, e)[i] = s[i]
  BY AppendProperties, LenProperties
<1> SUFFICES ASSUME NEW i \in 1..(Len(s) + 1), Append(s, e)[i] = "eof"
             PROVE  i = Len(s) + 1
  BY <1>2 DEF Ends
<1>3. i \notin 1..Len(s)
  BY <1>1, <1>2
<1> QED
  BY <1>2, <1>3

LEMMA EndsSuffix ==
    ASSUME NEW s \in Seq(Item), NEW k \in 1..Len(s), Ends(s)
    PROVE  SubSeq(s, k + 1, Len(s)) \in Seq(Item)
           /\ Ends(SubSeq(s, k + 1, Len(s)))
<1> DEFINE n == Len(s)
           t == SubSeq(s, k + 1, n)
<1>1. n \in Nat /\ k \in 1..n
  BY LenProperties
<1>2. \A i \in 1..n : s[i] \in Item
  BY LenProperties
<1>3. \A i \in 1..n : s[i] = "eof" => i = n
  BY DEF Ends
<1> HIDE DEF n
<1>4. \A i \in (k + 1)..n : s[i] \in Item
  BY <1>1, <1>2
<1>5. /\ t \in Seq(Item) /\ Len(t) = IF k + 1 <= n THEN n - (k + 1) + 1 ELSE 0
      /\ \A i \in 1..(n - (k + 1) + 1) : t[i] = s[(k + 1) + i - 1]
  BY <1>1, <1>4, SubSeqProperties
<1>6. Len(t) = n - k
  BY <1>1, <1>5
<1> HIDE DEF t
<1>7. ASSUME NEW i \in 1..(n - k), t[i] = "eof"
      PROVE  i = n - k
  <2>1. i \in 1..(n - (k + 1) + 1) /\ (k + 1) + i - 1 = k + i /\ k + i \in 1..n
    BY <1>1
  <2>2. s[k + i] = "eof"
    BY <1>5, <1>7, <2>1
  <2>3. k + i = n
    BY <1>3, <2>1, <2>2
  <2> QED
    BY <1>1, <2>3
<1>8. Ends(t)
  BY <1>6, <1>7 DEF Ends
<1> QED
  BY <1>5, <1>8 DEF n, t

LEMMA EndsPrefix ==
    ASSUME NEW s \in Seq(Item), NEW k \in 1..Len(s), Ends(s), s[k] # "eof"
    PROVE  SubSeq(s, 1, k) \in Seq({"line", "quit"})
<1>1. \A i \in 1..Len(s) : s[i] \in Item /\ (s[i] = "eof" => i = Len(s))
  BY LenProperties DEF Ends
<1>2. Len(s) \in Nat
  BY LenProperties
<1>3. \A i \in 1..k : s[i] \in {"line", "quit"}
  <2> SUFFICES ASSUME NEW i \in 1..k, s[i] = "eof" PROVE FALSE
    BY <1>1, <1>2 DEF Item
  <2>1. i = Len(s)
    BY <1>1, <1>2
  <2>2. i = k
    BY <1>2, <2>1
  <2> QED
    BY <2>2
<1> QED
  BY <1>3, SubSeqProperties

LEMMA StreamsOf ==
    StreamsOK <=>
      /\ chunk \in Seq({"line", "quit"})
      /\ inbox \in [Fd -> Seq(Item)]
      /\ pending \in 0..MaxPending
      /\ budget \in [Fd -> 0..MaxLines]
      /\ \A f \in Fd : Ends(inbox[f])
BY DEF StreamsOK, EofLast, Ends, Item

LEMMA StreamsOfNext ==
    StreamsOK' <=>
      /\ chunk' \in Seq({"line", "quit"})
      /\ inbox' \in [Fd -> Seq(Item)]
      /\ pending' \in 0..MaxPending
      /\ budget' \in [Fd -> 0..MaxLines]
      /\ \A f \in Fd : Ends(inbox'[f])
BY DEF StreamsOK, EofLast, Ends, Item

\* The kernel drops what waits at a socket that is closed or taken anew.
LEMMA EmptiedStreams ==
    ASSUME StreamsOK, NEW x, inbox' = [inbox EXCEPT ![x] = <<>>],
           chunk' \in Seq({"line", "quit"}), pending' \in 0..MaxPending,
           budget' \in [Fd -> 0..MaxLines]
    PROVE  StreamsOK'
<1>1. <<>> \in Seq(Item) /\ Ends(<<>>)
  BY EmptySeq DEF Ends
<1>2. inbox \in [Fd -> Seq(Item)] /\ \A f \in Fd : Ends(inbox[f])
  BY StreamsOf
<1>3. inbox' \in [Fd -> Seq(Item)] /\ \A f \in Fd : Ends(inbox'[f])
  BY <1>1, <1>2
<1> QED
  BY <1>3, StreamsOfNext

\* SIGINT closes several at once.
LEMMA ClosedStreams ==
    ASSUME StreamsOK, NEW closed,
           inbox' = [f \in Fd |-> IF f \in closed THEN <<>> ELSE inbox[f]],
           UNCHANGED <<chunk, pending, budget>>
    PROVE  StreamsOK'
<1>1. <<>> \in Seq(Item) /\ Ends(<<>>)
  BY EmptySeq DEF Ends
<1>2. inbox \in [Fd -> Seq(Item)] /\ \A f \in Fd : Ends(inbox[f])
  BY StreamsOf
<1>3. \A f \in Fd : inbox'[f] \in Seq(Item) /\ Ends(inbox'[f])
  BY <1>1, <1>2
<1>4. inbox' \in [Fd -> Seq(Item)]
  BY <1>3
<1> QED
  BY <1>3, <1>4, StreamsOf, StreamsOfNext

LEMMA SameStreams ==
    ASSUME StreamsOK, inbox' = inbox, chunk' \in Seq({"line", "quit"}),
           pending' \in 0..MaxPending, budget' = budget
    PROVE  StreamsOK'
BY StreamsOf, StreamsOfNext

LEMMA SentStreams ==
    ASSUME StreamsOK, NEW f \in Fd, NEW e \in Item, ~PeerGone(f),
           inbox' = [inbox EXCEPT ![f] = Append(@, e)],
           UNCHANGED <<chunk, pending>>, budget' \in [Fd -> 0..MaxLines]
    PROVE  StreamsOK'
<1>1. inbox \in [Fd -> Seq(Item)] /\ \A g \in Fd : Ends(inbox[g])
  BY StreamsOf
<1>2. /\ Append(inbox[f], e) \in Seq(Item)
      /\ Ends(Append(inbox[f], e))
  <2>1. "eof" \notin {inbox[f][i] : i \in DOMAIN inbox[f]}
    BY DEF PeerGone, ToSet
  <2>2. inbox[f] \in Seq(Item)
    BY <1>1
  <2> QED
    BY <2>1, <2>2, EndsAppend
<1>3. /\ inbox' \in [Fd -> Seq(Item)]
      /\ \A g \in Fd : Ends(inbox'[g])
  BY <1>1, <1>2
<1> QED
  BY <1>3, StreamsOf, StreamsOfNext

LEMMA ReadStreams ==
    ASSUME StreamsOK, NEW c, fd[c] \in Fd, NEW k, ReadChunk(c, k)
    PROVE  StreamsOK'
<1> DEFINE f == fd[c]
           s == inbox[f]
<1>1. /\ k \in 1..Len(s) /\ s[k] # "eof"
      /\ chunk' = SubSeq(s, 1, k)
      /\ inbox' = [inbox EXCEPT ![f] = SubSeq(s, k + 1, Len(s))]
      /\ UNCHANGED <<pending, budget>>
  BY DEF ReadChunk
<1>2. f \in Fd
  OBVIOUS
<1>3. inbox \in [Fd -> Seq(Item)] /\ \A g \in Fd : Ends(inbox[g])
  BY StreamsOf
<1>4. s \in Seq(Item) /\ Ends(s)
  BY <1>2, <1>3
<1> HIDE DEF s
<1>5. /\ chunk' \in Seq({"line", "quit"})
      /\ SubSeq(s, k + 1, Len(s)) \in Seq(Item)
      /\ Ends(SubSeq(s, k + 1, Len(s)))
  BY <1>1, <1>4, EndsPrefix, EndsSuffix
<1> HIDE DEF f
<1>6. /\ inbox' \in [Fd -> Seq(Item)] /\ \A g \in Fd : Ends(inbox'[g])
  BY <1>1, <1>2, <1>3, <1>5
<1> QED
  BY <1>1, <1>5, <1>6, StreamsOf, StreamsOfNext

LEMMA NextStreams == Safe /\ StreamsOK /\ [Next]_vars => StreamsOK'
<1> SUFFICES ASSUME Safe, StreamsOK, [Next]_vars PROVE StreamsOK'
  OBVIOUS
<1>0. /\ chunk \in Seq({"line", "quit"}) /\ pending \in 0..MaxPending
      /\ budget \in [Fd -> 0..MaxLines]
      /\ MaxPending \in Nat /\ MaxLines \in Nat
  BY EventAssumption DEF StreamsOK, EventAssumption
<1>1. CASE Environment
  <2>1. ASSUME SigIntForced \/ \E f \in Fd : PeerUrgent(f) PROVE StreamsOK'
    <3>1. UNCHANGED <<chunk, inbox, pending, budget>>
      BY <2>1 DEF SigIntForced, PeerUrgent, eventVars, kernel
    <3> QED
      BY <1>0, <3>1, SameStreams
  <2>2. ASSUME PeerConnect PROVE StreamsOK'
    <3>1. pending' \in 0..MaxPending /\ UNCHANGED <<chunk, inbox, budget>>
      BY <1>0, <2>2 DEF PeerConnect
    <3> QED
      BY <1>0, <3>1, SameStreams
  <2>3. ASSUME NEW f \in Fd, NEW line \in {"line", "quit"}, PeerSend(f, line)
        PROVE  StreamsOK'
    <3>1. /\ ~PeerGone(f) /\ UNCHANGED <<chunk, pending>>
          /\ inbox' = [inbox EXCEPT ![f] = Append(@, line)]
          /\ budget' = [budget EXCEPT ![f] = @ - 1] /\ budget[f] > 0
      BY <2>3 DEF PeerSend, Speaks
    <3>2. budget' \in [Fd -> 0..MaxLines] /\ line \in Item
      BY <1>0, <3>1 DEF Item
    <3> QED
      BY <3>1, <3>2, SentStreams
  <2>4. ASSUME NEW f \in Fd, PeerClose(f) PROVE StreamsOK'
    <3>1. /\ ~PeerGone(f) /\ UNCHANGED <<chunk, pending, budget>>
          /\ inbox' = [inbox EXCEPT ![f] = Append(@, "eof")]
      BY <2>4 DEF PeerClose, Speaks
    <3> QED
      BY <1>0, <3>1, SentStreams DEF Item
  <2>5. ASSUME SigInt(FALSE) \/ SigInt(TRUE) PROVE StreamsOK'
    BY <2>5, ClosedStreams DEF SigInt
  <2> QED
    BY <1>1, <2>1, <2>2, <2>3, <2>4, <2>5 DEF Environment
<1>2. CASE Loop
  <2>1. ASSUME \/ Top
               \/ \E writable \in SUBSET wset : Select(writable)
               \/ SelectFails
               \/ ScanEnds
               \/ \E i \in Ready : ScanServes(i)
               \/ AcceptDone("scan")
               \/ ReadDone(Current, AfterRead)
               \/ \E all \in BOOLEAN : Write(Current, all, "delete")
               \/ WriteKills(Current)
               \/ EndOfIteration
        PROVE  StreamsOK'
    <3>1. UNCHANGED <<chunk, inbox, pending, budget>>
      BY <2>1 DEF Top, Select, SelectFails, ScanEnds, ScanServes, AcceptDone,
                  ReadDone, Write, WriteKills, EndOfIteration, kernel
    <3> QED
      BY <1>0, <3>1, SameStreams
  <2>2. ASSUME NEW c \in Client, NEW f \in Fd, Accept(c, f) PROVE StreamsOK'
    <3>1. /\ inbox' = [inbox EXCEPT ![f] = <<>>] /\ chunk' = chunk
          /\ pending' \in 0..MaxPending /\ budget' \in [Fd -> 0..MaxLines]
      BY <1>0, <2>2 DEF Accept
    <3> QED
      BY <1>0, <3>1, EmptiedStreams
  <2>3. ASSUME NEW informed \in Informed,
               \/ ReadEnd(Current, informed, AfterRead)
               \/ WriteFails(Current, informed, "delete")
        PROVE  StreamsOK'
    <3>1. /\ \/ inbox' = inbox
             \/ inbox' = [inbox EXCEPT ![fd[Current]] = <<>>]
          /\ UNCHANGED <<chunk, pending, budget>>
      BY <2>3 DEF ReadEnd, WriteFails, Disconnect
    <3> QED
      BY <1>0, <3>1, SameStreams, EmptiedStreams
  <2>4. ASSUME NEW informed \in Informed,
               Line(informed) \/ Quit(Current, informed)
        PROVE  StreamsOK'
    <3>1. chunk # <<>> /\ chunk' = Tail(chunk)
      BY <2>4 DEF Line, Quit
    <3>2. chunk' \in Seq({"line", "quit"})
      BY <1>0, <3>1, HeadTailProperties
    <3>3. /\ \/ inbox' = inbox
             \/ inbox' = [inbox EXCEPT ![fd[Current]] = <<>>]
          /\ UNCHANGED <<pending, budget>>
      BY <2>4 DEF Line, Quit, Disconnect, kernel
    <3> QED
      BY <1>0, <3>2, <3>3, SameStreams, EmptiedStreams
  <2>5. ASSUME NEW i \in Ready, NEW informed \in Informed,
               ScanExcepts(i, informed)
        PROVE  StreamsOK'
    <3>1. /\ inbox' = [inbox EXCEPT ![fd[lookup[i]]] = <<>>]
          /\ UNCHANGED <<chunk, pending, budget>>
      BY <2>5 DEF ScanExcepts, Disconnect
    <3> QED
      BY <1>0, <3>1, EmptiedStreams
  <2>6. ASSUME NEW k, ReadChunk(Current, k) PROVE StreamsOK'
    <3>1. fd[Current] \in Fd
      BY <2>6 DEF ReadChunk, Safe, RecordsOK
    <3> QED
      BY <2>6, <3>1, ReadStreams
  <2> QED
    BY <1>2, <2>1, <2>2, <2>3, <2>4, <2>5, <2>6 DEF Loop
<1>3. CASE UNCHANGED vars
  <2>1. UNCHANGED <<chunk, inbox, pending, budget>>
    BY <1>3 DEF vars, eventVars, kernel
  <2> QED
    BY <1>0, <2>1, SameStreams
<1> QED
  BY <1>1, <1>2, <1>3 DEF Next

(***************************************************************************)
(* Every variable of the select loop keeps its type, whatever the peers    *)
(* send and wherever SIGINT arrives; a chunk never holds the end of a      *)
(* connection, and a record that is freed is in no queue.                  *)
(***************************************************************************)
THEOREM TypeCorrect == Spec => []TypeOK
<1>1. Inv /\ StreamsOK => TypeOK
  <2> SUFFICES ASSUME Inv, StreamsOK PROVE TypeOK
    OBVIOUS
  <2>1. EventTypeOK
    <3>1. /\ chunk \in Seq({"line", "quit"})
          /\ inbox \in [Fd -> Seq({"line", "quit", "eof"})]
          /\ pending \in 0..MaxPending
          /\ budget \in [Fd -> 0..MaxLines]
      BY DEF StreamsOK
    <3>2. event_shutting_down \in BOOLEAN /\ sigints \in 0..2
      BY Zenon DEF Inv, SignalsOK
    <3> QED
      BY <3>1, <3>2 DEF Inv, Safe, RecordsOK, EventTypeOK
  <2>2. Ready \subseteq Fd \cup {ServerFd} /\ urgent \subseteq open
    BY DEF Inv, Safe, RecordsOK, ScanOK, Ready
  <2> QED
    BY <2>1, <2>2 DEF Inv, Safe, ScanOK, TypeOK, Places, Serves
<1>2. Inv => Safe
  BY DEF Inv
<1>3. Init => StreamsOK
  BY InitSafe
<1> QED
  BY <1>1, <1>2, <1>3, AlwaysInv, NextStreams, PTL DEF Spec
=============================================================================
