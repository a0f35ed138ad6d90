-------------------------- MODULE EpollLoop_proofs --------------------------
(***************************************************************************)
(* The epoll loop uses no pointer of a batch after its record was deleted, *)
(* and strands nobody but by a socket with an error, for any numbers of    *)
(* clients, descriptors and events, with SIGINT at any time. Every         *)
(* variable keeps its type.                                                *)
(***************************************************************************)
EXTENDS EpollLoop, Lemmas, TLAPS

-----------------------------------------------------------------------------
(***************************************************************************)
(* Among keeps the order and invents nothing: its elements are those of    *)
(* the list that are in the set, each once if the list has it once.        *)
(***************************************************************************)
LEMMA AmongKeeps ==
    ASSUME NEW T, NEW s \in Seq(T), IsInjective(s), NEW S
    PROVE  /\ Among(s, S) \in Seq(T \cap S)
           /\ IsInjective(Among(s, S))
           /\ ToSet(Among(s, S)) \subseteq ToSet(s)
<1> DEFINE n == Len(s)
<1>1. n \in Nat /\ DOMAIN s = 1..n /\ \A i \in 1..n : s[i] \in T
  BY LenProperties
<1>2. PICK F : PickedAt(F, s, S, T) /\ Among(s, S) = F[n]
  BY AmongPicked
<1>3. F[0] = <<>> /\ F[n] = Among(s, S)
  BY <1>2 DEF PickedAt
<1>4. \A i \in 1..n :
         F[i] = IF s[i] \in S THEN Append(F[i - 1], s[i]) ELSE F[i - 1]
  BY <1>2 DEF PickedAt
<1> DEFINE Good(i) == /\ F[i] \in Seq(T \cap S)
                      /\ IsInjective(F[i])
                      /\ \A j \in 1..Len(F[i]) :
                            \E k \in 1..i : F[i][j] = s[k]
           M == {m \in Nat : m <= n => Good(m)}
<1>5. 0 \in M
  <2>1. F[0] = <<>>
    BY <1>3
  <2>2. /\ <<>> \in Seq(T \cap S) /\ IsInjective(<<>>)
        /\ \A j \in 1..Len(<<>>) : FALSE
    BY EmptySeq DEF IsInjective
  <2>3. Good(0)
    BY <2>1, <2>2
  <2> HIDE DEF Good
  <2> QED
    BY <2>3
<1>6. ASSUME NEW m \in Nat, m \in M PROVE m + 1 \in M
  <2> SUFFICES ASSUME m + 1 <= n PROVE Good(m + 1)
    OBVIOUS
  <2>1. Good(m) /\ m + 1 \in 1..n
    BY <1>1, <1>6
  <2> DEFINE t == F[m]
             e == s[m + 1]
  <2>2. F[m + 1] = IF e \in S THEN Append(t, e) ELSE t
    <3>1. (m + 1) - 1 = m
      OBVIOUS
    <3> QED
      BY <1>4, <2>1, <3>1
  <2>3. e \in T /\ t \in Seq(T \cap S) /\ IsInjective(t)
    BY <1>1, <2>1
  <2>4. \A j \in 1..Len(t) : \E k \in 1..m : t[j] = s[k]
    BY <2>1
  <2>5. \A j \in 1..Len(t) : t[j] # e
    <3> SUFFICES ASSUME NEW j \in 1..Len(t), t[j] = e PROVE FALSE
      OBVIOUS
    <3>1. PICK k \in 1..m : t[j] = s[k]
      BY <2>4
    <3>2. k \in DOMAIN s /\ m + 1 \in DOMAIN s /\ s[k] = s[m + 1]
      BY <1>1, <2>1, <3>1
    <3> QED
      BY <3>2 DEF IsInjective
  <2> HIDE DEF t, e
  <2>6. CASE e \in S
    <3>1. /\ Append(t, e) \in Seq(T \cap S)
          /\ Len(Append(t, e)) = Len(t) + 1 /\ Len(t) \in Nat
          /\ Append(t, e)[Len(t) + 1] = e
          /\ \A j \in 1..Len(t) : Append(t, e)[j] = t[j]
          /\ DOMAIN Append(t, e) = 1..(Len(t) + 1)
          /\ DOMAIN t = 1..Len(t)
      BY <2>3, <2>6, AppendProperties, LenProperties
    <3>2. IsInjective(Append(t, e))
      BY <2>3, <2>5, <3>1 DEF IsInjective
    <3>3. ASSUME NEW j \in 1..Len(Append(t, e))
          PROVE  \E k \in 1..(m + 1) : Append(t, e)[j] = s[k]
      <4>1. CASE j = Len(t) + 1
        BY <3>1, <4>1 DEF e
      <4>2. CASE j \in 1..Len(t)
        BY <2>4, <3>1, <4>2
      <4> QED
        BY <3>1, <4>1, <4>2
    <3> QED
      BY <2>2, <2>6, <3>1, <3>2, <3>3
  <2>7. CASE e \notin S
    <3>1. F[m + 1] = t
      BY <2>2, <2>7
    <3> QED
      BY <2>3, <2>4, <3>1
  <2> QED
    BY <2>6, <2>7
<1> HIDE DEF M
<1>7. n \in M
  BY <1>1, <1>5, <1>6, Induction
<1>8. Good(n)
  <2> HIDE DEF Good
  <2> QED
    BY <1>1, <1>7 DEF M
<1> DEFINE t == Among(s, S)
<1>9. /\ t \in Seq(T \cap S) /\ IsInjective(t)
      /\ \A j \in 1..Len(t) : \E k \in 1..n : t[j] = s[k]
  BY <1>3, <1>8
<1> HIDE DEF t
<1>10. ToSet(t) \subseteq ToSet(s)
  BY <1>1, <1>9, LenProperties DEF ToSet
<1> QED
  BY <1>9, <1>10 DEF t

-----------------------------------------------------------------------------
(***************************************************************************)
(* The inductive invariant.                                                *)
(***************************************************************************)
CountsOK ==
    /\ event_shutting_down \in BOOLEAN /\ sigints \in 0..2
    /\ sigints # 0 => event_shutting_down
    /\ resets \in 0..MaxResets /\ dropped \in BOOLEAN

RecordsOK ==
    /\ clients \subseteq Client /\ quitting \cup queued \subseteq clients
    /\ fd \in [Client -> Fd \cup {NULL}]
    /\ \A c \in clients : fd[c] \in Fd
    /\ open \subseteq Fd /\ errors \subseteq open

\* The kernel holds pointers for the open sockets only, each to a record
\* that is in the list, not quitting, and has this socket.
WatchOK ==
    /\ watch \in [Fd -> Client \cup {NULL}]
    /\ \A f \in Fd \ open : watch[f] = NULL
    /\ \A f \in open : watch[f] \in clients \ quitting /\ fd[watch[f]] = f

ArmedOK == armed \in Seq(open \cup {ServerFd}) /\ IsInjective(armed)

Waiting == {"top", "wait", "flush", "write"}
Handling == {"accept", "read", "delete"}

PlaceOK ==
    /\ pc \in Waiting \cup {"batch"} \cup Handling \cup Ended
    /\ cur \in Client \cup {ServerFd, NULL}
    /\ pc \in Waiting => batch = <<>>
    /\ pc \in {"top", "wait", "batch"} \cup Handling => toflush = {}
    /\ toflush \subseteq clients
    /\ pc = "accept" => cur = ServerFd
    /\ pc \in {"read", "write"} => cur \in clients
    /\ pc = "delete" => cur \in clients \cup {ServerFd}

\* The pointers of a batch are good until the last of its events, and that
\* of the present event is not among those to come.
Event == [client : Client \cup {ServerFd}, error : BOOLEAN,
          socket : Fd \cup {ServerFd}]

Follows(e) == IF e.socket = ServerFd THEN e.client = ServerFd
              ELSE e.client \in clients /\ fd[e.client] = e.socket

EventsOK(b) ==
    /\ b \in Seq(Event)
    /\ Len(b) <= MaxEvents
    /\ \A i \in 1..Len(b) : /\ b[i].client \in clients \cup {ServerFd}
                            /\ b[i].error => b[i].client # ServerFd
                            /\ Follows(b[i])
    /\ \A i, j \in 1..Len(b) : b[i].client = b[j].client => i = j

BatchOK ==
    /\ EventsOK(batch)
    /\ pc \in Handling => \A i \in 1..Len(batch) : batch[i].client # cur

\* Without SIGINT and dropped sockets whoever is served has its socket.
Settled ==
    ~dropped /\ ~event_shutting_down =>
       /\ \A c \in clients \ quitting : fd[c] \in open /\ watch[fd[c]] = c
       /\ \A c \in quitting : fd[c] \notin open
       /\ quitting # {} => pc \in {"read", "delete"} /\ quitting = {cur}

Inv == /\ CountsOK /\ RecordsOK /\ WatchOK /\ ArmedOK /\ PlaceOK /\ BatchOK
       /\ Settled

LEMMA Apart ==
    ServerFd \notin Client /\ ServerFd \notin Fd /\ NULL \notin Client
BY EventAssumption, EpollLoopAssumption
   DEF EventAssumption, EpollLoopAssumption

LEMMA InitInv == Init => Inv
<1> SUFFICES ASSUME Init PROVE Inv
  OBVIOUS
<1> USE DEF Init, EventInit
<1>1. CountsOK
  <2>1. event_shutting_down \in BOOLEAN /\ dropped \in BOOLEAN
    BY Zenon
  <2>2. sigints = 0 /\ resets \in 0..MaxResets
    BY EpollLoopAssumption DEF EpollLoopAssumption
  <2> QED
    BY <2>1, <2>2 DEF CountsOK
<1>2. RecordsOK /\ WatchOK
  BY DEF RecordsOK, WatchOK
<1>3. ArmedOK
  BY EmptySeq DEF ArmedOK, IsInjective
<1>4. PlaceOK /\ Settled
  BY DEF PlaceOK, Settled, Waiting, Handling, Ended
<1>5. BatchOK
  BY EmptySeq, EpollLoopAssumption
     DEF BatchOK, EventsOK, EpollLoopAssumption, Handling
<1> QED
  BY <1>1, <1>2, <1>3, <1>4, <1>5 DEF Inv

-----------------------------------------------------------------------------
(***************************************************************************)
(* The kernel's side: the list of sockets to report, and their pointers.   *)
(***************************************************************************)
LEMMA FollowsArmed ==
    ASSUME ArmedOK, KernelFollows, open' \subseteq open
    PROVE  ArmedOK'
<1> DEFINE S == open' \cup {ServerFd}
           t == Among(armed, S)
<1>1. t \in Seq((open \cup {ServerFd}) \cap S) /\ IsInjective(t)
  BY AmongKeeps DEF ArmedOK
<1>2. (open \cup {ServerFd}) \cap S = S
  OBVIOUS
<1>3. armed' = t
  BY DEF KernelFollows
<1> QED
  BY <1>1, <1>2, <1>3 DEF ArmedOK

LEMMA FollowsWatch ==
    ASSUME RecordsOK, WatchOK, KernelFollows, open' \subseteq open
    PROVE  /\ watch' \in [Fd -> Client \cup {NULL}]
           /\ \A f \in Fd \ open' : watch'[f] = NULL
           /\ \A f \in open' : watch'[f] = watch[f]
           /\ errors' \subseteq open'
BY DEF RecordsOK, WatchOK, KernelFollows

LEMMA ArmsArmed ==
    ASSUME ArmedOK, NEW f \in open \cup {ServerFd}, Arms(f), open' = open
    PROVE  ArmedOK'
<1> DEFINE T == open \cup {ServerFd}
<1>1. CASE f \in ToSet(armed)
  BY <1>1 DEF Arms, ArmedOK
<1>2. CASE f \notin ToSet(armed)
  <2>1. armed' = Append(armed, f)
    BY <1>2 DEF Arms
  <2>2. /\ armed \in Seq(T) /\ IsInjective(armed)
        /\ \A i \in DOMAIN armed : armed[i] # f
    BY <1>2 DEF ArmedOK, ToSet
  <2> HIDE DEF T
  <2>3. /\ Append(armed, f) \in Seq(T) /\ Len(armed) \in Nat
        /\ DOMAIN armed = 1..Len(armed)
        /\ DOMAIN Append(armed, f) = 1..(Len(armed) + 1)
        /\ Append(armed, f)[Len(armed) + 1] = f
        /\ \A i \in 1..Len(armed) : Append(armed, f)[i] = armed[i]
    BY <2>2, AppendProperties, LenProperties DEF T
  <2>4. IsInjective(Append(armed, f))
    BY <2>2, <2>3 DEF IsInjective
  <2> QED
    BY <2>1, <2>3, <2>4 DEF ArmedOK, T
<1> QED
  BY <1>1, <1>2

\* What epoll_wait looks at: the sockets to report that are still ready
LEMMA ReportedKeeps ==
    ASSUME ArmedOK
    PROVE  Reported \in Seq(open \cup {ServerFd}) /\ IsInjective(Reported)
<1> DEFINE T == open \cup {ServerFd}
           S == {f \in Fd \cup {ServerFd} : IsReady(f)}
<1>1. Reported \in Seq(T \cap S) /\ IsInjective(Reported)
  BY AmongKeeps DEF ArmedOK, Reported
<1> HIDE DEF T, S
<1>2. Reported \in Seq(T)
  BY <1>1
<1> QED
  BY <1>1, <1>2 DEF T

LEMMA WaitArmed ==
    ASSUME ArmedOK, Wait
    PROVE  ArmedOK'
<1> DEFINE T == open \cup {ServerFd}
           n == IF Len(Reported) > MaxEvents THEN MaxEvents ELSE Len(Reported)
           t == SubSeq(Reported, n + 1, Len(Reported))
<1>1. /\ Reported \in Seq(T) /\ IsInjective(Reported) /\ Len(Reported) \in Nat
      /\ DOMAIN Reported = 1..Len(Reported)
  BY ReportedKeeps, LenProperties
<1>2. n \in Nat /\ n <= Len(Reported)
  BY <1>1, EpollLoopAssumption DEF EpollLoopAssumption
<1>3. armed' = t /\ open' = open
  BY DEF Wait, kernel
<1> HIDE DEF n, T
<1>4. \A i \in (n + 1)..Len(Reported) : Reported[i] \in T
  BY <1>1, <1>2
<1>5. /\ t \in Seq(T)
      /\ Len(t) = IF n + 1 <= Len(Reported) THEN Len(Reported) - (n + 1) + 1
                                            ELSE 0
      /\ \A i \in 1..(Len(Reported) - (n + 1) + 1) :
            t[i] = Reported[(n + 1) + i - 1]
  BY <1>1, <1>2, <1>4, SubSeqProperties
<1> HIDE DEF t
<1> DEFINE m == Len(Reported)
<1>6. Len(t) = m - n /\ DOMAIN t = 1..(m - n)
  <2>1. /\ m \in Nat /\ n \in Nat /\ n <= m
        /\ Len(t) = IF n + 1 <= m THEN m - (n + 1) + 1 ELSE 0
    BY <1>1, <1>2, <1>5
  <2> HIDE DEF m
  <2>2. CASE n + 1 <= m
    BY <1>5, <2>1, <2>2, LenProperties
  <2>3. CASE ~(n + 1 <= m)
    <3>1. n = m
      BY <2>1, <2>3
    <3> QED
      BY <1>5, <2>1, <2>3, <3>1, LenProperties
  <2> QED
    BY <2>2, <2>3
<1>7. ASSUME NEW i \in 1..(m - n)
      PROVE  t[i] = Reported[n + i] /\ n + i \in DOMAIN Reported
  <2> HIDE DEF m
  <2>1. m \in Nat /\ DOMAIN Reported = 1..m
    BY <1>1 DEF m
  <2>2. /\ i \in 1..(m - (n + 1) + 1) /\ (n + 1) + i - 1 = n + i
        /\ n + i \in 1..m
    BY <1>2, <2>1
  <2>3. t[i] = Reported[(n + 1) + i - 1]
    BY <1>5, <2>2 DEF m
  <2> QED
    BY <2>1, <2>2, <2>3
<1>8. IsInjective(t)
  <2> SUFFICES ASSUME NEW i \in DOMAIN t, NEW j \in DOMAIN t, t[i] = t[j]
               PROVE  i = j
    BY DEF IsInjective
  <2>1. n + i = n + j
    <3>1. /\ Reported[n + i] = Reported[n + j]
          /\ n + i \in DOMAIN Reported /\ n + j \in DOMAIN Reported
      BY <1>6, <1>7
    <3> QED
      BY <1>1, <3>1 DEF IsInjective
  <2> QED
    BY <1>1, <1>2, <1>6, <2>1
<1> QED
  BY <1>3, <1>5, <1>8 DEF ArmedOK, T

-----------------------------------------------------------------------------
(***************************************************************************)
(* The records and the kernel's pointers, for each kind of step.           *)
(***************************************************************************)
Owners == <<clients, fd, quitting, open>>

LEMMA SameOwners ==
    ASSUME Inv, UNCHANGED Owners, queued' \subseteq clients,
           KernelFollows \/ UNCHANGED <<armed, watch, errors>>
    PROVE  /\ RecordsOK' /\ WatchOK' /\ ArmedOK'
           /\ \A f \in open : watch'[f] = watch[f]
<1>1. RecordsOK /\ WatchOK /\ ArmedOK
  BY DEF Inv
<1>2. CASE KernelFollows
  <2>1. /\ watch' \in [Fd -> Client \cup {NULL}]
        /\ \A f \in Fd \ open' : watch'[f] = NULL
        /\ \A f \in open' : watch'[f] = watch[f]
        /\ errors' \subseteq open'
    BY <1>1, <1>2, FollowsWatch DEF Owners
  <2> QED
    BY <1>1, <1>2, <2>1, FollowsArmed DEF Owners, RecordsOK, WatchOK
<1>3. CASE UNCHANGED <<armed, watch, errors>>
  BY <1>1, <1>3 DEF Owners, RecordsOK, WatchOK, ArmedOK
<1> QED
  BY <1>2, <1>3

LEMMA SameSettled ==
    ASSUME Inv, UNCHANGED Owners, \A f \in open : watch'[f] = watch[f],
           dropped' = dropped, event_shutting_down' = event_shutting_down,
           quitting # {} /\ pc \in {"read", "delete"} =>
              pc' \in {"read", "delete"} /\ cur' = cur
    PROVE  Settled'
<1> SUFFICES ASSUME ~dropped, ~event_shutting_down
             PROVE  Settled'
  BY DEF Settled
<1>1. /\ \A c \in clients \ quitting : fd[c] \in open /\ watch[fd[c]] = c
      /\ \A c \in quitting : fd[c] \notin open
      /\ quitting # {} => pc \in {"read", "delete"} /\ quitting = {cur}
  BY DEF Inv, Settled
<1> QED
  BY <1>1 DEF Settled, Owners

LEMMA DisconnectOwners ==
    ASSUME Inv, NEW c \in clients, NEW informed \in Informed,
           Disconnect(c, informed), UNCHANGED <<clients, fd>>, KernelFollows
    PROVE  /\ RecordsOK' /\ WatchOK' /\ ArmedOK'
           /\ open' = open \ {fd[c]} /\ quitting' = quitting \cup {c}
           /\ \A f \in open' : watch'[f] = watch[f]
<1>1. RecordsOK /\ WatchOK /\ ArmedOK
  BY DEF Inv
<1>2. /\ open' = open \ {fd[c]} /\ quitting' = quitting \cup {c}
      /\ queued' \subseteq clients
  BY <1>1 DEF Disconnect, Informed, RecordsOK
<1>3. /\ watch' \in [Fd -> Client \cup {NULL}]
      /\ \A f \in Fd \ open' : watch'[f] = NULL
      /\ \A f \in open' : watch'[f] = watch[f]
      /\ errors' \subseteq open'
  BY <1>1, <1>2, FollowsWatch
<1>4. RecordsOK'
  BY <1>1, <1>2, <1>3 DEF RecordsOK
<1>5. WatchOK'
  BY <1>1, <1>2, <1>3 DEF WatchOK
<1> QED
  BY <1>1, <1>2, <1>3, <1>4, <1>5, FollowsArmed

\* QUIT and the end of the connection, during the event of the client
LEMMA DisconnectSettled ==
    ASSUME Inv, pc = "read", pc' \in {"read", "delete"}, cur' = cur,
           NEW informed \in Informed, Disconnect(cur, informed),
           UNCHANGED <<clients, fd, event_shutting_down, dropped>>,
           KernelFollows
    PROVE  Settled'
<1> SUFFICES ASSUME ~dropped, ~event_shutting_down
             PROVE  Settled'
  BY DEF Settled
<1>1. cur \in clients
  BY DEF Inv, PlaceOK
<1>2. /\ open' = open \ {fd[cur]} /\ quitting' = quitting \cup {cur}
      /\ \A f \in open' : watch'[f] = watch[f]
  BY <1>1, DisconnectOwners
<1>3. /\ \A c \in clients \ quitting : fd[c] \in open /\ watch[fd[c]] = c
      /\ \A c \in quitting : fd[c] \notin open
      /\ quitting \subseteq {cur}
  BY DEF Inv, Settled
<1>4. \A c \in clients : c # cur => fd[c] # fd[cur]
  BY <1>1, <1>3
<1> QED
  BY <1>2, <1>3, <1>4 DEF Settled

-----------------------------------------------------------------------------
\* A step that leaves the batch alone, and the place within an event
LEMMA SameBatch ==
    ASSUME Inv, batch' = batch, clients \subseteq clients',
           \A c \in clients : fd'[c] = fd[c],
           pc' \in Handling => pc \in Handling /\ cur' = cur
    PROVE  BatchOK'
BY DEF Inv, BatchOK, EventsOK, Follows

LEMMA NextEvent ==
    ASSUME Inv, batch # <<>>, batch' = Tail(batch), clients' = clients,
           fd' = fd, cur' = Head(batch).client
    PROVE  /\ BatchOK'
           /\ cur' \in clients \cup {ServerFd}
           /\ Head(batch).error => cur' # ServerFd
<1> DEFINE t == Tail(batch)
<1>1. /\ batch \in Seq(Event) /\ Len(batch) <= MaxEvents
      /\ \A i \in 1..Len(batch) :
            /\ batch[i].client \in clients \cup {ServerFd}
            /\ batch[i].error => batch[i].client # ServerFd
            /\ Follows(batch[i])
      /\ \A i, j \in 1..Len(batch) :
            batch[i].client = batch[j].client => i = j
  BY DEF Inv, BatchOK, EventsOK
<1>2. /\ Head(batch) = batch[1] /\ Len(batch) \in Nat /\ Len(batch) # 0
      /\ t \in Seq(Event) /\ Len(t) = Len(batch) - 1
      /\ \A i \in 1..Len(t) : t[i] = batch[i + 1]
  BY <1>1, HeadTailProperties, LenProperties, EmptySeq
<1> HIDE DEF t
<1>3. MaxEvents \in Nat
  BY EpollLoopAssumption DEF EpollLoopAssumption
<1>4. /\ Len(t) \in Nat /\ Len(t) <= MaxEvents
      /\ 1 \in 1..Len(batch)
      /\ \A i \in 1..Len(t) : i + 1 \in 1..Len(batch) /\ i + 1 # 1
  BY <1>1, <1>2, <1>3
<1>5. ASSUME NEW i \in 1..Len(t)
      PROVE  /\ t[i].client \in clients \cup {ServerFd}
             /\ t[i].error => t[i].client # ServerFd
             /\ Follows(t[i])
             /\ t[i].client # Head(batch).client
  <2>1. t[i] = batch[i + 1] /\ i + 1 \in 1..Len(batch) /\ i + 1 # 1
    BY <1>2, <1>4
  <2>2. /\ batch[i + 1].client \in clients \cup {ServerFd}
        /\ batch[i + 1].error => batch[i + 1].client # ServerFd
        /\ Follows(batch[i + 1])
    BY <1>1, <2>1
  <2>3. batch[i + 1].client # batch[1].client
    BY <1>1, <1>4, <2>1
  <2> QED
    BY <1>2, <2>1, <2>2, <2>3
<1>6. ASSUME NEW i \in 1..Len(t), NEW j \in 1..Len(t),
             t[i].client = t[j].client
      PROVE  i = j
  <2>1. i + 1 = j + 1
    <3>1. batch[i + 1].client = batch[j + 1].client
      BY <1>2, <1>6
    <3>2. i + 1 \in 1..Len(batch) /\ j + 1 \in 1..Len(batch)
      BY <1>4
    <3> QED
      BY <1>1, <3>1, <3>2
  <2> QED
    BY <1>4, <2>1
<1>7. batch' = t
  BY DEF t
<1>8. BatchOK'
  <2>1. \A i \in 1..Len(batch') : Follows(batch[i])'
    BY <1>5, <1>7 DEF Follows
  <2> QED
    BY <1>2, <1>4, <1>5, <1>6, <1>7, <2>1 DEF BatchOK, EventsOK
<1> QED
  BY <1>1, <1>2, <1>4, <1>8

LEMMA WaitBatch ==
    ASSUME Inv, Wait
    PROVE  BatchOK' /\ pc' = "batch"
<1> DEFINE T == open \cup {ServerFd}
           n == IF Len(Reported) > MaxEvents THEN MaxEvents ELSE Len(Reported)
           b == [i \in 1..n |-> [client |-> Pointer(Reported[i]),
                                 error |-> Reported[i] \in errors,
                                 socket |-> Reported[i]]]
<1>1. /\ Reported \in Seq(T) /\ IsInjective(Reported) /\ Len(Reported) \in Nat
      /\ DOMAIN Reported = 1..Len(Reported)
      /\ \A i \in 1..Len(Reported) : Reported[i] \in T
  BY ReportedKeeps, LenProperties DEF Inv
<1>2. n \in Nat /\ n <= Len(Reported) /\ n <= MaxEvents
  BY <1>1, EpollLoopAssumption DEF EpollLoopAssumption
<1>3. batch' = b /\ pc' = "batch" /\ clients' = clients /\ fd' = fd
  BY DEF Wait, records
<1>4. ASSUME NEW f \in T
      PROVE  /\ Pointer(f) \in clients \cup {ServerFd}
             /\ f \in errors => Pointer(f) # ServerFd
             /\ f # ServerFd => fd[Pointer(f)] = f /\ Pointer(f) \in clients
             /\ f = ServerFd => Pointer(f) = ServerFd
             /\ f \in Fd \cup {ServerFd}
             /\ \A g \in T : Pointer(f) = Pointer(g) => f = g
  <2>1. /\ \A g \in open : watch[g] \in clients /\ fd[watch[g]] = g
        /\ clients \subseteq Client /\ errors \subseteq open
        /\ ServerFd \notin open
        /\ open \subseteq Fd
    BY Apart DEF Inv, WatchOK, RecordsOK
  <2> QED
    BY <2>1, Apart DEF Pointer
<1> HIDE DEF n, T
<1>5. \A i \in 1..n : Reported[i] \in T /\ i \in DOMAIN Reported
  BY <1>1, <1>2
<1>6. clients \subseteq Client
  BY DEF Inv, RecordsOK
<1>7. b \in [1..n -> Event]
  BY <1>4, <1>5, <1>6 DEF Event
<1>8. b \in Seq(Event) /\ Len(b) = n
  <2> HIDE DEF b
  <2> QED
    BY <1>2, <1>7, SeqDef, LenProperties
<1>9. \A i \in 1..n : /\ b[i].client \in clients \cup {ServerFd}
                      /\ b[i].error => b[i].client # ServerFd
                      /\ Follows(b[i])
  BY <1>4, <1>5 DEF Follows
<1>10. \A i, j \in 1..n : b[i].client = b[j].client => i = j
  <2> SUFFICES ASSUME NEW i \in 1..n, NEW j \in 1..n,
                      b[i].client = b[j].client
               PROVE  i = j
    OBVIOUS
  <2>1. Pointer(Reported[i]) = Pointer(Reported[j])
    OBVIOUS
  <2>2. Reported[i] = Reported[j]
    BY <1>4, <1>5, <2>1
  <2> QED
    BY <1>1, <1>5, <2>2 DEF IsInjective
<1> HIDE DEF b
<1>11. BatchOK'
  <2>1. \A i \in 1..Len(batch') : Follows(batch[i])'
    BY <1>3, <1>8, <1>9 DEF Follows
  <2> QED
    BY <1>2, <1>3, <1>8, <1>9, <1>10, <2>1 DEF BatchOK, EventsOK, Handling
<1> QED
  BY <1>3, <1>11

-----------------------------------------------------------------------------
(***************************************************************************)
(* Each step.                                                              *)
(***************************************************************************)
LEMMA PeersInv ==
    ASSUME Inv, Environment,
           ~SigInt(FALSE), ~(pc = "wait" /\ SigInt(TRUE)), ~SigIntForced
    PROVE  Inv'
<1>1. \E f \in Fd \cup {ServerFd} :
         /\ f = ServerFd \/ f \in open
         /\ Arms(f)
  BY DEF Environment, PeerSend, PeerClose, PeerReset, Speaks
<1>2. UNCHANGED <<pc, records, signals, open, watch, dropped, loop>>
  BY DEF Environment, PeerConnect, PeerSend, PeerClose, PeerReset
<1>3. errors' \subseteq open /\ resets' \in 0..MaxResets
  <2>1. errors' \subseteq open
    BY DEF Environment, PeerReset, Inv, RecordsOK
  <2>2. resets' = resets \/ (resets < MaxResets /\ resets' = resets + 1)
    BY DEF Environment, PeerReset
  <2> QED
    BY <2>1, <2>2, EpollLoopAssumption
       DEF Inv, CountsOK, EpollLoopAssumption
<1>4. CountsOK'
  BY <1>2, <1>3 DEF Inv, CountsOK, signals
<1>5. RecordsOK' /\ WatchOK'
  BY <1>2, <1>3 DEF Inv, RecordsOK, WatchOK, records
<1>6. ArmedOK'
  BY <1>1, <1>2, ArmsArmed DEF Inv
<1>7. PlaceOK' /\ BatchOK' /\ Settled'
  BY <1>2 DEF Inv, PlaceOK, BatchOK, EventsOK, Follows, Settled, records,
              signals, loop
<1> QED
  BY <1>4, <1>5, <1>6, <1>7 DEF Inv

LEMMA SigIntInv ==
    ASSUME Inv, KernelFollows, UNCHANGED <<loop, resets, dropped>>,
           SigInt(FALSE) \/ (pc = "wait" /\ SigInt(TRUE)) \/ SigIntForced
    PROVE  Inv'
<1>1. CASE SigInt(FALSE) \/ (pc = "wait" /\ SigInt(TRUE))
  <2>1. /\ sigints' = 1 /\ event_shutting_down' = TRUE /\ quitting' = clients
        /\ open' = open \ {fd[c] : c \in clients}
        /\ UNCHANGED <<clients, fd, queued>>
        /\ pc' = pc \/ (pc = "wait" /\ pc' = "top")
    BY <1>1 DEF SigInt
  <2>2. open' = {}
    BY <2>1 DEF Inv, RecordsOK, WatchOK
  <2>3. /\ watch' \in [Fd -> Client \cup {NULL}]
        /\ \A f \in Fd \ open' : watch'[f] = NULL
        /\ errors' \subseteq open' /\ ArmedOK'
    BY <2>2, FollowsWatch, FollowsArmed DEF Inv
  <2>4. RecordsOK' /\ WatchOK'
    BY <2>1, <2>2, <2>3 DEF Inv, RecordsOK, WatchOK
  <2>5. CountsOK' /\ Settled'
    BY <2>1 DEF Inv, CountsOK, Settled
  <2>6. PlaceOK'
    BY <2>1 DEF Inv, PlaceOK, loop, Waiting, Handling
  <2>7. BatchOK'
    BY <2>1, SameBatch DEF loop, Handling
  <2> QED
    BY <2>3, <2>4, <2>5, <2>6, <2>7 DEF Inv
<1>2. CASE SigIntForced
  <2>1. /\ sigints = 1 /\ sigints' = 2 /\ pc' = "forced"
        /\ UNCHANGED <<records, open, event_shutting_down>>
    BY <1>2 DEF SigIntForced, kernel
  <2>2. RecordsOK' /\ WatchOK' /\ ArmedOK'
    BY <2>1, SameOwners DEF Owners, records, Inv, RecordsOK
  <2>3. CountsOK' /\ Settled'
    BY <2>1 DEF Inv, CountsOK, Settled
  <2>4. PlaceOK'
    BY <2>1 DEF Inv, PlaceOK, loop, records, Waiting, Handling, Ended
  <2>5. BatchOK'
    BY <2>1, SameBatch DEF loop, records, Handling
  <2> QED
    BY <2>2, <2>3, <2>4, <2>5 DEF Inv
<1> QED
  BY <1>1, <1>2

\* A step of the loop within the records as they are
LEMMA SameRecords ==
    ASSUME Inv, UNCHANGED <<clients, fd, quitting, open, signals>>,
           UNCHANGED <<resets, dropped>>, queued' \subseteq clients,
           KernelFollows \/ UNCHANGED <<armed, watch, errors>>
    PROVE  /\ CountsOK' /\ RecordsOK' /\ WatchOK' /\ ArmedOK'
           /\ (quitting # {} /\ pc \in {"read", "delete"} =>
                 pc' \in {"read", "delete"} /\ cur' = cur) => Settled'
<1>1. /\ RecordsOK' /\ WatchOK' /\ ArmedOK'
      /\ \A f \in open : watch'[f] = watch[f]
  BY SameOwners DEF Owners
<1>2. CountsOK'
  BY DEF Inv, CountsOK, signals
<1> QED
  BY <1>1, <1>2, SameSettled DEF Owners, signals

\* From the top of the loop to the batch, and through the flush
LEMMA RoundInv ==
    ASSUME Inv,
           \/ Top \/ Timeout \/ EndOfBatch \/ EndOfFlush
           \/ \E c \in Client, past \in SUBSET toflush : FlushNext(c, past)
    PROVE  Inv'
<1>1. /\ UNCHANGED <<clients, fd, quitting, queued, open, signals>>
      /\ UNCHANGED <<watch, errors, resets, dropped, batch>>
      /\ pc \in Waiting \cup {"batch"} /\ pc' \notin Handling
  BY DEF Top, Timeout, EndOfBatch, EndOfFlush, FlushNext, records, kernel,
         loop, epoll, Waiting, Handling, AfterTimeout
<1>2. armed' = armed \/ armed' = <<>>
  BY DEF Top, Timeout, EndOfBatch, EndOfFlush, FlushNext, epoll
<1>3. CountsOK' /\ RecordsOK' /\ WatchOK'
  BY <1>1 DEF Inv, CountsOK, RecordsOK, WatchOK, signals
<1>4. ArmedOK'
  <2>1. CASE armed' = armed
    BY <1>1, <2>1 DEF Inv, ArmedOK
  <2>2. CASE armed' = <<>>
    BY <2>2, EmptySeq DEF ArmedOK, IsInjective
  <2> QED
    BY <1>2, <2>1, <2>2
<1>5. Settled'
  BY <1>1, SameSettled DEF Owners, signals, Waiting
<1>6. BatchOK'
  BY <1>1, SameBatch
<1>7. PlaceOK'
  <2>1. /\ clients' = clients
        /\ clients \subseteq Client /\ queued \subseteq clients
    BY <1>1 DEF Inv, RecordsOK
  <2> USE DEF Inv, PlaceOK, Waiting, Handling, Ended
  <2>2. CASE Top
    BY <2>1, <2>2 DEF Top, loop
  <2>3. CASE Timeout
    BY <2>1, <2>3 DEF Timeout, AfterTimeout
  <2>4. CASE EndOfBatch
    BY <2>1, <2>4 DEF EndOfBatch
  <2>5. CASE EndOfFlush
    BY <2>1, <2>5 DEF EndOfFlush
  <2>6. ASSUME NEW c, NEW past, FlushNext(c, past) PROVE PlaceOK'
    BY <2>1, <2>6 DEF FlushNext, Flushed
  <2> QED
    BY <2>2, <2>3, <2>4, <2>5, <2>6
<1> QED
  BY <1>3, <1>4, <1>5, <1>6, <1>7 DEF Inv

LEMMA WaitInv ==
    ASSUME Inv, Wait
    PROVE  Inv'
<1>1. /\ UNCHANGED <<clients, fd, quitting, queued, open, signals>>
      /\ UNCHANGED <<watch, errors, resets, dropped, cur, toflush>>
      /\ pc = "wait" /\ pc' = "batch"
  BY DEF Wait, records, kernel
<1>2. CountsOK' /\ RecordsOK' /\ WatchOK'
  BY <1>1 DEF Inv, CountsOK, RecordsOK, WatchOK, signals
<1>3. Settled'
  BY <1>1, SameSettled DEF Owners, signals
<1>4. PlaceOK'
  BY <1>1 DEF Inv, PlaceOK, Waiting, Handling
<1>5. ArmedOK' /\ BatchOK'
  BY WaitArmed, WaitBatch DEF Inv
<1> QED
  BY <1>2, <1>3, <1>4, <1>5 DEF Inv

LEMMA ServeInv ==
    ASSUME Inv, Serve
    PROVE  Inv'
<1>1. /\ UNCHANGED <<clients, fd, quitting, queued, open, signals>>
      /\ UNCHANGED <<armed, watch, errors, resets, dropped, toflush>>
      /\ pc = "batch" /\ batch # <<>> /\ batch' = Tail(batch)
      /\ cur' = Head(batch).client
      /\ pc' = IF cur' = ServerFd THEN "accept" ELSE "read"
  BY DEF Serve, records, kernel, epoll
<1>2. BatchOK' /\ cur' \in clients \cup {ServerFd}
  BY <1>1, NextEvent
<1>3. CountsOK' /\ RecordsOK' /\ WatchOK' /\ ArmedOK'
  BY <1>1 DEF Inv, CountsOK, RecordsOK, WatchOK, ArmedOK, signals
<1>4. Settled'
  BY <1>1, SameSettled DEF Owners, signals
<1>5. PlaceOK'
  BY <1>1, <1>2 DEF Inv, PlaceOK, RecordsOK, Waiting, Handling
<1> QED
  BY <1>2, <1>3, <1>4, <1>5 DEF Inv

LEMMA DropInv ==
    ASSUME Inv, Drop
    PROVE  Inv'
<1>1. /\ UNCHANGED <<clients, fd, quitting, queued, signals, resets, toflush>>
      /\ KernelFollows /\ open' = open \ {fd[cur']} /\ dropped' = TRUE
      /\ pc = "batch" /\ batch # <<>> /\ batch' = Tail(batch)
      /\ Head(batch).error /\ cur' = Head(batch).client
      /\ pc' = "delete"
  BY DEF Drop, records
<1>2. BatchOK' /\ cur' \in clients
  BY <1>1, NextEvent
<1>3. /\ watch' \in [Fd -> Client \cup {NULL}]
      /\ \A f \in Fd \ open' : watch'[f] = NULL
      /\ \A f \in open' : watch'[f] = watch[f]
      /\ errors' \subseteq open' /\ ArmedOK'
  BY <1>1, FollowsWatch, FollowsArmed DEF Inv
<1>4. CountsOK' /\ Settled'
  BY <1>1 DEF Inv, CountsOK, Settled, signals
<1>5. RecordsOK' /\ WatchOK'
  BY <1>1, <1>3 DEF Inv, RecordsOK, WatchOK
<1>6. PlaceOK'
  BY <1>1, <1>2 DEF Inv, PlaceOK, RecordsOK, Waiting, Handling
<1> QED
  BY <1>2, <1>3, <1>4, <1>5, <1>6 DEF Inv

LEMMA AcceptInv ==
    ASSUME Inv, NEW c \in Client \ clients, NEW f \in Fd,
           AcceptAndWatch(c, f)
    PROVE  Inv'
<1>1. /\ pc = "accept" /\ f \in Fd \ open /\ c \notin clients
      /\ clients' = clients \cup {c} /\ fd' = [fd EXCEPT ![c] = f]
      /\ open' = open \cup {f} /\ watch' = [watch EXCEPT ![f] = c]
      /\ UNCHANGED <<pc, quitting, queued, signals, loop>>
      /\ UNCHANGED <<armed, errors, resets, dropped>>
  BY DEF AcceptAndWatch, Accept, SetFd
<1>2. /\ fd'[c] = f /\ \A d \in clients : d # c /\ fd'[d] = fd[d]
      /\ watch'[f] = c /\ \A g \in Fd : g # f => watch'[g] = watch[g]
  BY <1>1 DEF Inv, RecordsOK, WatchOK
<1>3. CountsOK'
  BY <1>1 DEF Inv, CountsOK, signals
<1>4. RecordsOK'
  BY <1>1, <1>2 DEF Inv, RecordsOK
<1>5. WatchOK'
  BY <1>1, <1>2 DEF Inv, RecordsOK, WatchOK
<1>6. ArmedOK'
  BY <1>1 DEF Inv, ArmedOK
<1>7. PlaceOK'
  BY <1>1 DEF Inv, PlaceOK, loop
<1>8. BatchOK'
  BY <1>1, SameBatch DEF loop
<1>9. Settled'
  BY <1>1, <1>2 DEF Inv, RecordsOK, Settled, signals, loop
<1> QED
  BY <1>3, <1>4, <1>5, <1>6, <1>7, <1>8, <1>9 DEF Inv

\* The steps of an event and of a write that disconnect nobody
LEMMA QuietInv ==
    ASSUME Inv, KernelFollows, UNCHANGED <<loop, resets, dropped>>,
           \/ AcceptDone("delete")
           \/ \E k \in 1..MaxLines : ReadChunk(cur, k)
           \/ ReadDone(cur, "delete")
           \/ \E informed \in Informed : Line(informed)
           \/ \E all \in BOOLEAN : Write(cur, all, "flush")
           \/ WriteKills(cur)
    PROVE  Inv'
<1>1. /\ UNCHANGED <<clients, fd, quitting, open, signals>>
      /\ queued' \subseteq clients
  BY DEF AcceptDone, ReadChunk, ReadDone, Line, Write, WriteKills, records,
         kernel, Informed, Inv, RecordsOK
<1>2. \/ pc = "accept" /\ pc' = "delete"
      \/ pc = "read" /\ pc' \in {"read", "delete"}
      \/ pc = "write" /\ pc' \in {"flush", "killed"}
  BY DEF AcceptDone, ReadChunk, ReadDone, Line, Write, WriteKills
<1>3. CountsOK' /\ RecordsOK' /\ WatchOK' /\ ArmedOK' /\ Settled'
  BY <1>1, <1>2, SameRecords DEF loop
<1>4. BatchOK'
  BY <1>1, <1>2, SameBatch DEF loop, Handling
<1>5. PlaceOK'
  BY <1>1, <1>2 DEF Inv, PlaceOK, loop, Waiting, Handling, Ended
<1> QED
  BY <1>3, <1>4, <1>5 DEF Inv

LEMMA ReadEndInv ==
    ASSUME Inv, KernelFollows, UNCHANGED <<loop, resets, dropped>>,
           NEW informed \in Informed,
           ReadEnd(cur, informed, "delete") \/ Quit(cur, informed)
    PROVE  Inv'
<1>1. /\ pc = "read" /\ pc' \in {"read", "delete"}
      /\ UNCHANGED <<clients, fd, signals>>
  BY DEF ReadEnd, Quit
<1>2. cur \in clients
  BY <1>1 DEF Inv, PlaceOK
<1>3. BatchOK'
  BY <1>1, SameBatch DEF loop, Handling
<1>4. PlaceOK'
  BY <1>1 DEF Inv, PlaceOK, loop, Waiting, Handling
<1>5. CASE Disconnect(cur, informed)
  <2>1. RecordsOK' /\ WatchOK' /\ ArmedOK'
    BY <1>1, <1>2, <1>5, DisconnectOwners
  <2>2. Settled'
    BY <1>1, <1>5, DisconnectSettled DEF loop, signals
  <2>3. CountsOK'
    BY <1>1 DEF Inv, CountsOK, signals
  <2> QED
    BY <1>3, <1>4, <2>1, <2>2, <2>3 DEF Inv
<1>6. CASE UNCHANGED <<quitting, open, inbox, queued>>
  <2>1. CountsOK' /\ RecordsOK' /\ WatchOK' /\ ArmedOK' /\ Settled'
    BY <1>1, <1>6, SameRecords DEF loop, Inv, RecordsOK
  <2> QED
    BY <1>3, <1>4, <2>1 DEF Inv
<1> QED
  BY <1>5, <1>6 DEF ReadEnd, Quit

LEMMA FlushFailsInv ==
    ASSUME Inv, NEW informed \in Informed, FlushFails(informed)
    PROVE  Inv'
<1>1. /\ pc = "write" /\ pc' = "flush" /\ cur \in clients
      /\ Disconnect(cur, informed) /\ KernelFollows
      /\ UNCHANGED <<clients, fd, signals, loop, resets>>
  BY DEF FlushFails, WriteFails, Inv, PlaceOK
<1>2. RecordsOK' /\ WatchOK' /\ ArmedOK'
  BY <1>1, DisconnectOwners
<1>3. BatchOK'
  BY <1>1, SameBatch DEF loop, Handling
<1>4. PlaceOK'
  BY <1>1 DEF Inv, PlaceOK, loop, Waiting, Handling
<1>5. dropped' = TRUE \/ (dropped' = dropped /\ fd[cur] \notin open)
  BY DEF FlushFails
<1>6. CountsOK'
  BY <1>1, <1>5 DEF Inv, CountsOK, signals
<1>7. Settled'
  <2> SUFFICES ASSUME ~dropped', ~event_shutting_down PROVE FALSE
    BY <1>1 DEF Settled, signals
  <2>1. quitting = {} /\ fd[cur] \notin open
    BY <1>1, <1>5 DEF Inv, Settled
  <2> QED
    BY <1>1, <1>5, <2>1 DEF Inv, Settled
<1> QED
  BY <1>2, <1>3, <1>4, <1>6, <1>7 DEF Inv

\* The record of the event is deleted if it is quitting.
LEMMA EndOfEventInv ==
    ASSUME Inv, EndOfEvent
    PROVE  Inv'
<1>1. /\ pc = "delete" /\ pc' = "batch" /\ DeleteQuitting(cur)
      /\ UNCHANGED <<open, signals, loop, armed, watch, errors>>
      /\ UNCHANGED <<resets, dropped>>
  BY DEF EndOfEvent, kernel, epoll
<1>2. CountsOK' /\ ArmedOK'
  BY <1>1 DEF Inv, CountsOK, ArmedOK, signals
<1>3. \A i \in 1..Len(batch) : batch[i].client # cur
  BY <1>1 DEF Inv, BatchOK, Handling
<1>4. CASE cur \in quitting
  <2>1. /\ clients' = clients \ {cur} /\ quitting' = quitting \ {cur}
        /\ queued' = queued \ {cur} /\ fd' = [fd EXCEPT ![cur] = NULL]
    BY <1>1, <1>4 DEF DeleteQuitting
  <2>2. /\ \A c \in clients' : fd'[c] = fd[c]
        /\ fd' \in [Client -> Fd \cup {NULL}]
    BY <2>1 DEF Inv, RecordsOK
  <2>3. RecordsOK'
    BY <1>1, <2>1, <2>2 DEF Inv, RecordsOK
  <2>4. WatchOK'
    BY <1>1, <1>4, <2>1, <2>2 DEF Inv, WatchOK
  <2>5. PlaceOK'
    BY <1>1, <2>1 DEF Inv, PlaceOK, loop, Waiting, Handling
  <2>6. BatchOK'
    <3>1. \A i \in 1..Len(batch) : Follows(batch[i])'
      BY <1>1, <1>3, <2>1, <2>2 DEF Inv, BatchOK, EventsOK, loop, Follows
    <3> QED
      BY <1>1, <1>3, <2>1, <3>1 DEF Inv, BatchOK, EventsOK, loop, Handling
  <2>7. Settled'
    BY <1>1, <2>1, <2>2 DEF Inv, Settled, signals
  <2> QED
    BY <1>2, <2>3, <2>4, <2>5, <2>6, <2>7 DEF Inv
<1>5. CASE cur \notin quitting
  <2>1. UNCHANGED <<clients, fd, quitting, queued>>
    BY <1>1, <1>5 DEF DeleteQuitting, records
  <2>2. RecordsOK' /\ WatchOK'
    BY <1>1, <2>1 DEF Inv, RecordsOK, WatchOK
  <2>3. PlaceOK'
    BY <1>1, <2>1 DEF Inv, PlaceOK, loop, Waiting, Handling
  <2>4. BatchOK'
    BY <1>1, <2>1, SameBatch DEF loop, Handling
  <2>5. Settled'
    BY <1>1, <1>5, <2>1 DEF Inv, Settled, signals
  <2> QED
    BY <1>2, <2>2, <2>3, <2>4, <2>5 DEF Inv
<1> QED
  BY <1>4, <1>5

LEMMA NextInv == Inv /\ [Next]_vars => Inv'
<1> SUFFICES ASSUME Inv, [Next]_vars PROVE Inv'
  OBVIOUS
<1>1. CASE Environment
  <2>1. CASE SigInt(FALSE) \/ (pc = "wait" /\ SigInt(TRUE)) \/ SigIntForced
    <3>1. KernelFollows /\ UNCHANGED <<loop, resets, dropped>>
      <4>1. SigInt(FALSE) \/ SigInt(TRUE) \/ SigIntForced =>
              sigints' # sigints
        BY DEF SigInt, SigIntForced
      <4>2. PeerConnect \/ (\E f \in Fd : PeerReset(f) \/ PeerClose(f)
                              \/ \E line : PeerSend(f, line))
              => sigints' = sigints
        BY DEF PeerConnect, PeerSend, PeerClose, PeerReset, signals
      <4> QED
        BY <1>1, <2>1, <4>1, <4>2 DEF Environment
    <3> QED
      BY <2>1, <3>1, SigIntInv
  <2>2. CASE ~(\/ SigInt(FALSE) \/ (pc = "wait" /\ SigInt(TRUE))
               \/ SigIntForced)
    BY <1>1, <2>2, PeersInv
  <2> QED
    BY <2>1, <2>2
<1>2. CASE Loop
  BY <1>2, RoundInv, WaitInv, ServeInv, DropInv, AcceptInv, QuietInv,
     ReadEndInv, FlushFailsInv, EndOfEventInv DEF Loop
<1>3. CASE UNCHANGED vars
  BY <1>3 DEF vars, eventVars, records, kernel, signals, loop, epoll,
              Inv, CountsOK, RecordsOK, WatchOK, ArmedOK, PlaceOK, BatchOK,
              EventsOK, Follows, Settled
<1> QED
  BY <1>1, <1>2, <1>3 DEF Next

LEMMA AlwaysInv == Spec => []Inv
BY InitInv, NextInv, PTL DEF Spec

(***************************************************************************)
(* No event of a batch, and no step of the loop, uses the pointer to a     *)
(* record that was deleted, whatever the events before it disconnected:    *)
(* the record still has the socket the event is of, and no two events of a *)
(* batch are for the same client.                                          *)
(***************************************************************************)
THEOREM EventsCorrect == Spec => []EventsLive
<1>1. ASSUME Inv PROVE EventsLive
  <2> DEFINE pointers == [i \in DOMAIN batch |-> batch[i].client]
  <2>1. /\ DOMAIN batch = 1..Len(batch)
        /\ \A i \in 1..Len(batch) : Follows(batch[i])
        /\ \A i, j \in 1..Len(batch) :
              batch[i].client = batch[j].client => i = j
        /\ pc \in Handling => \A i \in 1..Len(batch) : batch[i].client # cur
    BY <1>1, LenProperties DEF Inv, BatchOK, EventsOK
  <2>2. \A i \in DOMAIN batch :
           IF batch[i].socket = ServerFd
             THEN batch[i].client = ServerFd
             ELSE /\ batch[i].client \in clients
                  /\ fd[batch[i].client] = batch[i].socket
    BY <2>1 DEF Follows
  <2>3. IsInjective(pointers)
    BY <2>1 DEF IsInjective
  <2>4. pc \in {"accept", "read", "delete", "write"} =>
          cur \in clients \cup {ServerFd}
    BY <1>1 DEF Inv, PlaceOK, RecordsOK
  <2>5. pc \in Handling => cur \notin ToSet(pointers)
    BY <2>1 DEF ToSet
  <2>6. pc = "write" => cur \notin ToSet(pointers)
    BY <1>1, EmptySeq DEF Inv, PlaceOK, Waiting, ToSet
  <2> QED
    BY <2>2, <2>3, <2>4, <2>5, <2>6 DEF EventsLive, Handling
<1>2. Inv => EventsLive
  BY <1>1
<1> QED
  BY <1>2, AlwaysInv, PTL

(***************************************************************************)
(* Until the first SIGINT, or the first socket with an error, every client *)
(* that is served has an open descriptor of its own, none leaks, and a     *)
(* client is quitting only during its own event.                           *)
(***************************************************************************)
THEOREM ServedCorrect == Spec => []NobodyStranded
<1>1. ASSUME Inv PROVE NobodyStranded
  <2> SUFFICES ASSUME ~dropped, ~event_shutting_down
               PROVE  /\ SocketsOwned
                      /\ quitting # {} => pc \in {"read", "delete"}
                                          /\ quitting = {cur}
    BY DEF NobodyStranded
  <2>1. /\ \A c \in clients \ quitting : fd[c] \in open /\ watch[fd[c]] = c
        /\ quitting # {} => pc \in {"read", "delete"} /\ quitting = {cur}
    BY <1>1 DEF Inv, Settled
  <2>2. \A f \in open : watch[f] \in clients \ quitting /\ fd[watch[f]] = f
    BY <1>1 DEF Inv, WatchOK
  <2> QED
    BY <2>1, <2>2 DEF SocketsOwned, Serving
<1>2. Inv => NobodyStranded
  BY <1>1
<1> QED
  BY <1>2, AlwaysInv, PTL

-----------------------------------------------------------------------------
(***************************************************************************)
(* What can be read from a socket: what the select loop's proofs say of    *)
(* it, for it is the same sockets that both loops read from.               *)
(***************************************************************************)
Sel == INSTANCE SelectLoop_proofs
             WITH rset <- {}, wset <- {}, xset <- {}, urgent <- {},
                  lookup <- [f \in Fd |-> NULL], Urgent <- FALSE

LEMMA LoopAssumptions == Sel!EventAssumption /\ Sel!SelectLoopAssumption
BY EventAssumption
   DEF EventAssumption, Sel!EventAssumption, Sel!SelectLoopAssumption

StreamsOK == Sel!StreamsOK

LEMMA Streams ==
    StreamsOK <=>
      /\ chunk \in Seq({"line", "quit"})
      /\ inbox \in [Fd -> Seq(Sel!Item)]
      /\ pending \in 0..MaxPending
      /\ budget \in [Fd -> 0..MaxLines]
      /\ \A f \in Fd : Sel!Ends(inbox[f])
BY LoopAssumptions, Sel!StreamsOf DEF StreamsOK

LEMMA StreamsNext ==
    StreamsOK' <=>
      /\ chunk' \in Seq({"line", "quit"})
      /\ inbox' \in [Fd -> Seq(Sel!Item)]
      /\ pending' \in 0..MaxPending
      /\ budget' \in [Fd -> 0..MaxLines]
      /\ \A f \in Fd : Sel!Ends(inbox'[f])
BY LoopAssumptions, Sel!StreamsOfNext DEF StreamsOK

LEMMA SameStreams ==
    ASSUME StreamsOK, inbox' = inbox, chunk' \in Seq({"line", "quit"}),
           pending' \in 0..MaxPending, budget' = budget
    PROVE  StreamsOK'
BY Streams, StreamsNext

\* The kernel drops what waits at sockets that are closed or taken anew.
LEMMA EmptiedStreams ==
    ASSUME StreamsOK, NEW X,
           inbox' = [f \in Fd |-> IF f \in X THEN <<>> ELSE inbox[f]],
           chunk' \in Seq({"line", "quit"}), pending' \in 0..MaxPending,
           budget' \in [Fd -> 0..MaxLines]
    PROVE  StreamsOK'
<1>1. <<>> \in Seq(Sel!Item) /\ Sel!Ends(<<>>)
  BY EmptySeq DEF Sel!Ends
<1>2. inbox \in [Fd -> Seq(Sel!Item)] /\ \A f \in Fd : Sel!Ends(inbox[f])
  BY Streams
<1>3. \A f \in Fd : inbox'[f] \in Seq(Sel!Item) /\ Sel!Ends(inbox'[f])
  BY <1>1, <1>2
<1> QED
  BY <1>3, StreamsNext

\* The same for a single one
LEMMA ClosedStreams ==
    ASSUME StreamsOK, NEW x, inbox' = [inbox EXCEPT ![x] = <<>>],
           chunk' \in Seq({"line", "quit"}), pending' \in 0..MaxPending,
           budget' \in [Fd -> 0..MaxLines]
    PROVE  StreamsOK'
<1>1. inbox' = [f \in Fd |-> IF f \in {x} THEN <<>> ELSE inbox[f]]
  BY Streams
<1> QED
  BY <1>1, EmptiedStreams

LEMMA SentStreams ==
    ASSUME StreamsOK, NEW f \in Fd, NEW e \in Sel!Item, ~PeerGone(f),
           inbox' = [inbox EXCEPT ![f] = Append(@, e)],
           UNCHANGED <<chunk, pending>>, budget' \in [Fd -> 0..MaxLines]
    PROVE  StreamsOK'
<1>1. ~Sel!PeerGone(f)
  BY DEF PeerGone, Sel!PeerGone, ToSet, Sel!ToSet
<1> QED
  BY <1>1, LoopAssumptions, Sel!SentStreams DEF StreamsOK

LEMMA ReadStreams ==
    ASSUME StreamsOK, NEW c, fd[c] \in Fd, NEW k, ReadChunk(c, k)
    PROVE  StreamsOK'
<1>1. Sel!ReadChunk(c, k)
  BY DEF ReadChunk, Sel!ReadChunk, records, Sel!records, signals, Sel!signals
<1> QED
  BY <1>1, LoopAssumptions, Sel!ReadStreams DEF StreamsOK

LEMMA PeersStreams ==
    ASSUME Inv, StreamsOK, Environment
    PROVE  StreamsOK'
<1>0. /\ chunk \in Seq({"line", "quit"}) /\ pending \in 0..MaxPending
      /\ budget \in [Fd -> 0..MaxLines]
      /\ MaxPending \in Nat /\ MaxLines \in Nat
  BY Streams, EventAssumption DEF EventAssumption
<1>1. ASSUME PeerConnect PROVE StreamsOK'
  <2>1. pending' \in 0..MaxPending /\ UNCHANGED <<chunk, inbox, budget>>
    BY <1>0, <1>1 DEF PeerConnect
  <2> QED
    BY <1>0, <2>1, SameStreams
<1>2. ASSUME NEW f \in Fd, NEW line \in {"line", "quit"}, PeerSend(f, line)
      PROVE  StreamsOK'
  <2>1. /\ ~PeerGone(f) /\ UNCHANGED <<chunk, pending>>
        /\ inbox' = [inbox EXCEPT ![f] = Append(@, line)]
        /\ budget' = [budget EXCEPT ![f] = @ - 1] /\ budget[f] > 0
    BY <1>2 DEF PeerSend, Speaks
  <2>2. budget' \in [Fd -> 0..MaxLines] /\ line \in Sel!Item
    BY <1>0, <2>1 DEF Sel!Item
  <2> QED
    BY <2>1, <2>2, SentStreams
<1>3. "eof" \in Sel!Item
  BY DEF Sel!Item
<1>4. ASSUME NEW f \in Fd, PeerClose(f) PROVE StreamsOK'
  <2>1. /\ ~PeerGone(f) /\ UNCHANGED <<chunk, pending, budget>>
        /\ inbox' = [inbox EXCEPT ![f] = Append(@, "eof")]
    BY <1>4 DEF PeerClose, Speaks
  <2> QED
    BY <1>0, <1>3, <2>1, SentStreams
<1>5. ASSUME NEW f \in Fd, PeerReset(f) PROVE StreamsOK'
  <2>1. /\ UNCHANGED <<chunk, pending, budget>>
        /\ inbox' = [inbox EXCEPT ![f] = IF PeerGone(f) THEN @
                                                        ELSE Append(@, "eof")]
    BY <1>5 DEF PeerReset
  <2>2. CASE PeerGone(f)
    <3>1. inbox' = inbox
      BY <2>1, <2>2, Streams
    <3> QED
      BY <1>0, <2>1, <3>1, SameStreams
  <2>3. CASE ~PeerGone(f)
    <3>1. inbox' = [inbox EXCEPT ![f] = Append(@, "eof")]
      BY <2>1, <2>3
    <3> QED
      BY <1>0, <1>3, <2>1, <2>3, <3>1, SentStreams
  <2> QED
    BY <2>2, <2>3
<1>6. ASSUME NEW b, SigInt(b) PROVE StreamsOK'
  <2>1. /\ UNCHANGED <<chunk, pending, budget>>
        /\ \E X : inbox' = [f \in Fd |-> IF f \in X THEN <<>> ELSE inbox[f]]
    BY <1>6 DEF SigInt
  <2> QED
    BY <1>0, <2>1, EmptiedStreams
<1>7. ASSUME SigIntForced PROVE StreamsOK'
  BY <1>0, <1>7, SameStreams DEF SigIntForced, kernel
<1> QED
  BY <1>1, <1>2, <1>4, <1>5, <1>6, <1>7 DEF Environment

LEMMA LoopStreams ==
    ASSUME Inv, StreamsOK, Loop
    PROVE  StreamsOK'
<1>0. /\ chunk \in Seq({"line", "quit"}) /\ pending \in 0..MaxPending
      /\ budget \in [Fd -> 0..MaxLines]
      /\ MaxPending \in Nat /\ MaxLines \in Nat
  BY Streams, EventAssumption DEF EventAssumption
<1>1. ASSUME \/ Top \/ Wait \/ Timeout \/ Serve \/ EndOfBatch \/ EndOfEvent
             \/ EndOfFlush
             \/ \E c \in Client, past \in SUBSET toflush : FlushNext(c, past)
             \/ AcceptDone("delete")
             \/ ReadDone(cur, "delete")
             \/ \E all \in BOOLEAN : Write(cur, all, "flush")
             \/ WriteKills(cur)
      PROVE  StreamsOK'
  <2>1. UNCHANGED <<chunk, inbox, pending, budget>>
    BY <1>1 DEF Top, Wait, Timeout, Serve, EndOfBatch, EndOfEvent, EndOfFlush,
                FlushNext, AcceptDone, ReadDone, Write, WriteKills, kernel
  <2> QED
    BY <1>0, <2>1, SameStreams
<1>2. ASSUME NEW c, NEW f, AcceptAndWatch(c, f) PROVE StreamsOK'
  <2>1. /\ inbox' = [inbox EXCEPT ![f] = <<>>] /\ chunk' = chunk
        /\ pending' \in 0..MaxPending /\ budget' \in [Fd -> 0..MaxLines]
    BY <1>0, <1>2 DEF AcceptAndWatch, Accept
  <2> QED
    BY <1>0, <2>1, ClosedStreams
<1>3. ASSUME Drop PROVE StreamsOK'
  <2>1. /\ UNCHANGED <<chunk, pending, budget>>
        /\ inbox' = [inbox EXCEPT ![fd[cur']] = <<>>]
    BY <1>3 DEF Drop
  <2> QED
    BY <1>0, <2>1, ClosedStreams
<1>4. ASSUME NEW informed,
             ReadEnd(cur, informed, "delete") \/ FlushFails(informed)
      PROVE  StreamsOK'
  <2>1. /\ inbox' = inbox \/ inbox' = [inbox EXCEPT ![fd[cur]] = <<>>]
        /\ UNCHANGED <<chunk, pending, budget>>
    BY <1>4 DEF ReadEnd, FlushFails, WriteFails, Disconnect
  <2> QED
    BY <1>0, <2>1, SameStreams, ClosedStreams
<1>5. ASSUME NEW informed, Line(informed) \/ Quit(cur, informed)
      PROVE  StreamsOK'
  <2>1. chunk # <<>> /\ chunk' = Tail(chunk)
    BY <1>5 DEF Line, Quit
  <2>2. chunk' \in Seq({"line", "quit"})
    BY <1>0, <2>1, HeadTailProperties
  <2>3. /\ inbox' = inbox \/ inbox' = [inbox EXCEPT ![fd[cur]] = <<>>]
        /\ UNCHANGED <<pending, budget>>
    BY <1>5 DEF Line, Quit, Disconnect, kernel
  <2> QED
    BY <1>0, <2>2, <2>3, SameStreams, ClosedStreams
<1>6. ASSUME NEW k, ReadChunk(cur, k) PROVE StreamsOK'
  <2>1. fd[cur] \in Fd
    BY <1>6 DEF ReadChunk, Inv, RecordsOK
  <2> QED
    BY <1>6, <2>1, ReadStreams
<1> QED
  BY <1>1, <1>2, <1>3, <1>4, <1>5, <1>6 DEF Loop

LEMMA NextStreams == Inv /\ StreamsOK /\ [Next]_vars => StreamsOK'
<1> SUFFICES ASSUME Inv, StreamsOK, UNCHANGED vars PROVE StreamsOK'
  BY PeersStreams, LoopStreams DEF Next
<1>1. UNCHANGED <<chunk, inbox, pending, budget>>
  BY DEF vars, eventVars, kernel
<1> QED
  BY <1>1, Streams, StreamsNext

LEMMA InitStreams == Init => StreamsOK
<1> SUFFICES ASSUME Init PROVE StreamsOK
  OBVIOUS
<1>1. \A T : <<>> \in Seq(T)
  BY EmptySeq
<1>2. Sel!Ends(<<>>)
  BY EmptySeq DEF Sel!Ends
<1>3. MaxPending \in Nat /\ MaxLines \in Nat
  BY EventAssumption DEF EventAssumption
<1> QED
  BY <1>1, <1>2, <1>3, Streams DEF Init, EventInit

(***************************************************************************)
(* Every variable of the epoll loop keeps its type, among them that a      *)
(* chunk never holds the end of a connection, that no batch is longer than *)
(* MAXEVENTS, that the kernel lists a socket once, and that it holds a     *)
(* pointer for each open socket and for no other.                          *)
(***************************************************************************)
THEOREM TypeCorrect == Spec => []TypeOK
<1>1. ASSUME Inv, StreamsOK PROVE TypeOK
  <2>1. /\ chunk \in Seq({"line", "quit"})
        /\ inbox \in [Fd -> Seq({"line", "quit", "eof"})]
        /\ pending \in 0..MaxPending
        /\ budget \in [Fd -> 0..MaxLines]
    BY <1>1, Streams DEF Sel!Item
  <2>2. event_shutting_down \in BOOLEAN /\ dropped \in BOOLEAN
    BY <1>1, Zenon DEF Inv, CountsOK
  <2>3. EventTypeOK
    BY <1>1, <2>1, <2>2 DEF Inv, CountsOK, RecordsOK, EventTypeOK
  <2>4. /\ pc \in {"top", "wait", "batch", "accept", "read", "delete",
                   "flush", "write"} \cup Ended
        /\ cur \in Client \cup {ServerFd, NULL}
        /\ toflush \subseteq clients
    BY <1>1 DEF Inv, PlaceOK, Waiting, Handling
  <2>5. /\ batch \in Seq([client : Client \cup {ServerFd}, error : BOOLEAN,
                          socket : Fd \cup {ServerFd}])
        /\ Len(batch) <= MaxEvents
    BY <1>1 DEF Inv, BatchOK, EventsOK, Event
  <2>6. IsInjective(armed) /\ ToSet(armed) \subseteq open \cup {ServerFd}
    BY <1>1, LenProperties DEF Inv, ArmedOK, ToSet
  <2>7. /\ \A f \in Fd : watch[f] \in IF f \in open THEN Client ELSE {NULL}
        /\ errors \subseteq open /\ resets \in 0..MaxResets
    BY <1>1 DEF Inv, CountsOK, RecordsOK, WatchOK
  <2> QED
    BY <2>2, <2>3, <2>4, <2>5, <2>6, <2>7 DEF TypeOK
<1>2. Inv /\ StreamsOK => TypeOK
  BY <1>1
<1> QED
  BY <1>2, InitStreams, NextStreams, AlwaysInv, PTL DEF Spec
=============================================================================
