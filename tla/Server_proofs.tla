---------------------------- MODULE Server_proofs ----------------------------
(***************************************************************************)
(* The handlers over the two tables.  What NickTable_proofs and            *)
(* ChannelTable_proofs show of each table carries over to the composition. *)
(* For any numbers of clients, channels, names and buckets, and whatever   *)
(* the hash functions, the clients' views of their channels are right and  *)
(* the server does what Irc says, until two names in use share a bucket.   *)
(***************************************************************************)
EXTENDS Server, FiniteSetTheorems, TLAPS

NP == INSTANCE NickTable_proofs
        WITH Bucket <- NickBucket, Hash <- NickHash, crowded <- nick_crowded
CP == INSTANCE ChannelTable_proofs
        WITH Bucket <- NameBucket, Hash <- NameHash, crowded <- name_crowded

LEMMA NickAssumption == NP!NickTableAssumption
BY ServerAssumption DEF ServerAssumption, NP!NickTableAssumption

LEMMA ChannelAssumption == CP!ChannelTableAssumption
BY ServerAssumption DEF ServerAssumption, CP!ChannelTableAssumption

-----------------------------------------------------------------------------
(***************************************************************************)
(* A step of the server is a step of each table, or leaves the table as it *)
(* is.  (Server and the proof modules instantiate the tables separately.)  *)
(***************************************************************************)
LEMMA SameNicks ==
    /\ \A n : Nicks!FindsNone(n) <=> NP!FindsNone(n)
    /\ \A n, c : Nicks!Finds(n, c) <=> NP!Finds(n, c)
    /\ Nicks!TypeOK <=> NP!TypeOK
BY DEF Nicks!FindsNone, NP!FindsNone, Nicks!Finds, NP!Finds, Nicks!Ends,
       NP!Ends, Nicks!WalkEnds, NP!WalkEnds, Nicks!Walked, NP!Walked,
       Nicks!TypeOK, NP!TypeOK

LEMMA SameChans ==
    /\ \A n : Chans!FindsNone(n) <=> CP!FindsNone(n)
    /\ \A n, ch : Chans!Finds(n, ch) <=> CP!Finds(n, ch)
    /\ Chans!TypeOK <=> CP!TypeOK
BY DEF Chans!FindsNone, CP!FindsNone, Chans!Finds, CP!Finds, Chans!Ends,
       CP!Ends, Chans!WalkEnds, CP!WalkEnds, Chans!Walked, CP!Walked,
       Chans!TypeOK, CP!TypeOK

LEMMA SamePart ==
    ASSUME NEW ch, NEW c, Chans!ChannelClientPart(ch, c)
    PROVE  CP!ChannelClientPart(ch, c)
BY DEF Chans!ChannelClientPart, CP!ChannelClientPart, Chans!ChannelDelete,
       CP!ChannelDelete, Chans!IsEmpty, CP!IsEmpty, Chans!index, CP!index

LEMMA NickSteps == [Next]_vars => [NP!Next]_(NP!vars)
<1> SUFFICES ASSUME [Next]_vars PROVE [NP!Next]_(NP!vars)
  OBVIOUS
<1>1. ASSUME NEW c \in Client, Connect(c) PROVE NP!Next
  BY <1>1 DEF Connect, Nicks!AllocateNew, NP!AllocateNew, NP!Next
<1>2. ASSUME NEW c \in Client, NEW n \in Nick,
             NickFirst(c, n) \/ NickChange(c, n)
      PROVE  NP!Next
  BY <1>2, SameNicks
     DEF NickFirst, NickChange, Nicks!SetNickname, NP!SetNickname, NP!Next,
         Nicks!NextOf, NP!NextOf, Nicks!Linked, NP!Linked, Nicks!Unlinked,
         NP!Unlinked, Nicks!Shared, NP!Shared
<1>3. ASSUME NEW c \in Client, DeleteDone(c) PROVE NP!Next
  BY <1>3 DEF DeleteDone, Nicks!Delete, NP!Delete, NP!Next, Nicks!Unlinked,
              NP!Unlinked
<1>4. ASSUME UNCHANGED <<clients, nicks>> PROVE UNCHANGED NP!vars
  BY <1>4 DEF nicks, NP!vars
<1> QED
  BY <1>1, <1>2, <1>3, <1>4
     DEF Next, vars, NickTaken, Join, Refused, Part, PrivmsgChannel,
         PrivmsgUser, Disconnect, Delete, DeletePart, Chans!JoinNew,
         Chans!JoinFound, Chans!Part, Chans!ClientDelete, Chans!DeleteNext

LEMMA ChanSteps == [Next]_vars => [CP!Next]_(CP!vars)
<1> SUFFICES ASSUME [Next]_vars PROVE [CP!Next]_(CP!vars)
  OBVIOUS
<1> USE DEF Chans!index, CP!index, Chans!walk, CP!walk
<1>1. ASSUME NEW c \in Client, Connect(c) PROVE CP!Next
  BY <1>1 DEF Connect, Chans!ClientNew, CP!ClientNew, CP!Next,
              Chans!NoNodes, CP!NoNodes
<1>2. ASSUME NEW c \in Client, NEW n \in Name, NEW ch \in Channel,
             Join(c, n, ch)
      PROVE  CP!Next
  <2>1. CASE Chans!JoinNew(c, n, ch)
    <3>1. CP!JoinNew(c, n, ch)
      BY <2>1, SameChans DEF Chans!JoinNew, CP!JoinNew, Chans!AddMember,
                             CP!AddMember
    <3> QED
      BY <3>1 DEF CP!Next
  <2>2. CASE Chans!JoinFound(c, n, ch)
    <3>1. CP!JoinFound(c, n, ch)
      BY <2>2, SameChans
         DEF Chans!JoinFound, CP!JoinFound, Chans!AddMember, CP!AddMember,
             Chans!AlreadyIn, CP!AlreadyIn
    <3> QED
      BY <3>1 DEF CP!Next
  <2> QED
    BY <1>2, <2>1, <2>2 DEF Join
<1>3. \A ch, c : Chans!ChannelClientPart(ch, c) => CP!ChannelClientPart(ch, c)
  BY SamePart
<1>4. ASSUME NEW c \in Client, NEW n \in Name, NEW ch \in Channel,
             Part(c, n, ch)
      PROVE  CP!Next
  <2>1. CP!Part(c, n, ch)
    BY <1>3, <1>4, SameChans DEF Part, Chans!Part, CP!Part
  <2> QED
    BY <2>1 DEF CP!Next
<1>5. ASSUME NEW c \in Client, Delete(c) PROVE CP!Next
  BY <1>5 DEF Delete, Chans!ClientDelete, CP!ClientDelete, CP!Next
<1>6. ASSUME NEW c \in Client, NEW ch \in Channel, DeletePart(c, ch)
      PROVE  CP!Next
  <2>1. CP!DeleteNext(c, ch)
    BY <1>3, <1>6
       DEF DeletePart, Chans!DeleteNext, CP!DeleteNext, Chans!Behind,
           CP!Behind
  <2> QED
    BY <2>1 DEF CP!Next
<1>7. ASSUME NEW c \in Client, DeleteDone(c) PROVE CP!Next
  BY <1>7 DEF DeleteDone, Chans!DeleteDone, CP!DeleteDone, CP!Next,
              Chans!NoNodes, CP!NoNodes
<1>8. ASSUME UNCHANGED <<clients, chans>> PROVE UNCHANGED CP!vars
  BY <1>8 DEF chans, CP!vars
<1> QED
  BY <1>1, <1>2, <1>4, <1>5, <1>6, <1>7, <1>8
     DEF Next, vars, NickTaken, NickFirst, NickChange, Refused,
         PrivmsgChannel, PrivmsgUser, Disconnect, Nicks!SetNickname

LEMMA NicksSpec == Spec => NP!Spec
<1>1. Init => NP!Init
  BY DEF Init, Nicks!Init, NP!Init
<1> QED
  BY <1>1, NickSteps, PTL DEF Spec, NP!Spec

LEMMA ChansSpec == Spec => CP!Spec
<1>1. Init => CP!Init
  BY DEF Init, Chans!Init, CP!Init, Chans!NoNodes, CP!NoNodes
<1> QED
  BY <1>1, ChanSteps, PTL DEF Spec, CP!Spec

-----------------------------------------------------------------------------
\* A nickname in use belongs to one client, and a lookup says so.
NicksExact ==
    /\ \A c, d \in clients :
          nickname[c] = nickname[d] /\ nickname[c] # NULL => c = d
    /\ \A n \in Nick :
          Nicks!FindsNone(n) => \A c \in clients : nickname[c] # n

\* The same of the channels
ChansExact ==
    /\ \A ch, h \in channels : name[ch] = name[h] => ch = h
    /\ \A n \in Name :
          Chans!FindsNone(n) => \A ch \in channels : name[ch] # n

Exact == NicksExact /\ ChansExact

\* What holds of the two lists of every membership at any time: they mirror
\* one another, and client_delete's walk has what is left of its list ahead.
Lists ==
    /\ Chans!MembershipMirrored /\ Chans!NoEmptyChannel
    /\ \A ch \in channels : name[ch] \in Name
    /\ deleting # NULL => ahead = joined[deleting]

(***************************************************************************)
(* What the proofs about the server use of the tables.  Only the last part *)
(* depends on the buckets.                                                 *)
(***************************************************************************)
Tables ==
    /\ Nicks!TypeOK
    /\ Chans!TypeOK
    /\ Lists
    /\ ~Crowded => Exact

LEMMA NicksAlways == Spec => [](Nicks!TypeOK /\ (~Crowded => NicksExact))
<1>1. ASSUME NP!TypeOK, NP!IndexExact, ~Crowded
      PROVE  NicksExact
  <2>1. Nicks!TypeOK
    BY <1>1, SameNicks
  <2>2. \A n \in Nick : NP!Answers(n)
    BY <1>1 DEF NP!IndexExact, Crowded
  <2>3. ASSUME NEW n \in Nick, NP!FindsNone(n)
        PROVE  \A c \in clients : nickname[c] # n
    <3>1. \A c \in clients : ~NP!Finds(n, c)
      BY <2>1, <2>3, ServerAssumption
         DEF NP!FindsNone, NP!Finds, Nicks!TypeOK, ServerAssumption
    <3> QED
      BY <2>2, <3>1 DEF NP!Answers
  <2>4. ASSUME NEW c \in clients, NEW d \in clients,
               nickname[c] = nickname[d], nickname[c] # NULL
        PROVE  c = d
    <3>1. nickname[c] \in Nick
      BY <2>1, <2>4 DEF Nicks!TypeOK
    <3> QED
      BY <2>2, <2>4, <3>1 DEF NP!Answers
  <2> QED
    BY <2>3, <2>4, SameNicks DEF NicksExact
<1>0. NP!TypeOK /\ NP!IndexExact => Nicks!TypeOK /\ (~Crowded => NicksExact)
  BY <1>1, SameNicks
<1>2. NP!Spec => []NP!TypeOK /\ []NP!IndexExact
  BY NP!TypeCorrect, NP!IndexCorrect, NickAssumption
<1> QED
  BY <1>0, <1>2, NicksSpec, PTL

LEMMA ChansAlways ==
    Spec => [](Chans!TypeOK /\ Lists /\ (~Crowded => ChansExact))
<1>1. ASSUME CP!IInv, CP!IndexExact, ~Crowded PROVE ChansExact
  <2>1. Chans!TypeOK
    BY <1>1, SameChans DEF CP!IInv
  <2>2. \A n \in Name : CP!Answers(n)
    BY <1>1 DEF CP!IndexExact, Crowded
  <2>3. \A ch \in channels : name[ch] \in Name
    BY <1>1 DEF CP!IInv, CP!Lists, CP!ChannelsNamed
  <2>4. ASSUME NEW n \in Name, CP!FindsNone(n)
        PROVE  \A ch \in channels : name[ch] # n
    <3>1. \A ch \in channels : ~CP!Finds(n, ch)
      BY <2>1, <2>4, ServerAssumption
         DEF CP!FindsNone, CP!Finds, Chans!TypeOK, ServerAssumption
    <3> QED
      BY <2>2, <3>1 DEF CP!Answers
  <2>5. \A ch, h \in channels : name[ch] = name[h] => ch = h
    BY <2>2, <2>3 DEF CP!Answers
  <2> QED
    BY <2>4, <2>5, SameChans DEF ChansExact
<1>2. CP!IInv => Chans!TypeOK /\ Lists
  BY SameChans
     DEF CP!IInv, CP!Lists, CP!ChannelsNamed, CP!WalkComplete, Lists,
         CP!MembershipMirrored, CP!NoEmptyChannel, CP!IsEmpty,
         Chans!MembershipMirrored, Chans!NoEmptyChannel, Chans!IsEmpty
<1>3. CP!IInv /\ CP!IndexExact => (~Crowded => ChansExact)
  BY <1>1
<1>4. CP!Spec => []CP!IInv /\ []CP!IndexExact
  BY CP!AlwaysIInv, CP!IndexCorrect, ChannelAssumption
<1> QED
  BY <1>2, <1>3, <1>4, ChansSpec, PTL

LEMMA AlwaysTables == Spec => []Tables
<1>1. ASSUME Nicks!TypeOK, ~Crowded => NicksExact,
             Chans!TypeOK, Lists, ~Crowded => ChansExact
      PROVE  Tables
  BY <1>1 DEF Tables, Exact
<1>2. Nicks!TypeOK /\ (~Crowded => NicksExact) /\
      Chans!TypeOK /\ Lists /\ (~Crowded => ChansExact) => Tables
  BY <1>1
<1> QED
  BY <1>2, NicksAlways, ChansAlways, PTL

-----------------------------------------------------------------------------
\* What each action does to the memberships, to whom it adds and takes away
LEMMA JoinMembers ==
    ASSUME Tables, NEW c \in Client, NEW n \in Name, NEW ch \in Channel,
           Join(c, n, ch)
    PROVE  /\ c \in clients /\ clients' = clients /\ members[ch][c] = 0
           /\ channels' = channels \cup {ch}
           /\ name' = [name EXCEPT ![ch] = n]
           /\ \A h \in Channel, d \in Client :
                 members'[h][d] = IF h = ch /\ d = c THEN 1 ELSE members[h][d]
           /\ ch \in channels => name[ch] = n
           /\ ch \notin channels => /\ \A d \in Client : members[ch][d] = 0
                                    /\ Chans!FindsNone(n)
<1> USE DEF Tables, Lists, Chans!TypeOK, Chans!MembershipMirrored
<1>1. CASE Chans!JoinNew(c, n, ch)
  BY <1>1 DEF Chans!JoinNew, Chans!AddMember
<1>2. CASE Chans!JoinFound(c, n, ch)
  <2>1. ch \in channels /\ name[ch] = n
    BY <1>2 DEF Chans!JoinFound, Chans!Finds
  <2>2. members[ch][c] = 0
    BY <1>2 DEF Chans!JoinFound, Chans!AlreadyIn
  <2>3. /\ UNCHANGED <<clients, channels, name>> /\ c \in clients
        /\ members' = [members EXCEPT ![ch][c] = @ + 1]
    BY <1>2 DEF Chans!JoinFound, Chans!index, Chans!AddMember
  <2> QED
    BY <2>1, <2>2, <2>3
<1> QED
  BY <1>1, <1>2 DEF Join

\* What channel_client_part does: the client is off the channel, and the
\* channels that are left are those that somebody is on.
LEMMA ClientPartMembers ==
    ASSUME Tables, Tables', NEW c \in Client, NEW ch \in Channel,
           Chans!ChannelClientPart(ch, c)
    PROVE  /\ \A h \in Channel, d \in Client :
                 members'[h][d] = IF h = ch /\ d = c THEN 0 ELSE members[h][d]
           /\ channels' \subseteq channels
           /\ \A h \in channels' : name'[h] = name[h]
           /\ \A h \in channels \ channels', d \in Client : members'[h][d] = 0
<1> USE DEF Tables, Lists, Chans!TypeOK, Chans!MembershipMirrored
<1>1. CASE members[ch][c] = 0
  BY <1>1 DEF Chans!ChannelClientPart, Chans!index
<1>2. CASE members[ch][c] # 0
  <2>1. /\ members' = [members EXCEPT ![ch][c] = @ - 1]
        /\ Chans!ChannelDelete(ch) \/ UNCHANGED Chans!index
    BY <1>2 DEF Chans!ChannelClientPart
  <2>2. \A h \in Channel, d \in Client :
           members'[h][d] = IF h = ch /\ d = c THEN 0 ELSE members[h][d]
    BY <1>2, <2>1
  <2>3. channels' \subseteq channels /\ \A h \in channels' : name'[h] = name[h]
    BY <2>1 DEF Chans!ChannelDelete, Chans!index
  <2>4. \A h \in channels \ channels', d \in Client : members'[h][d] = 0
    OBVIOUS
  <2> QED
    BY <2>2, <2>3, <2>4
<1> QED
  BY <1>1, <1>2

LEMMA PartMembers ==
    ASSUME Tables, Tables', NEW c \in Client, NEW n \in Name,
           NEW ch \in Channel, Part(c, n, ch)
    PROVE  /\ c \in clients /\ clients' = clients
           /\ ch \in channels /\ name[ch] = n
           /\ \A h \in Channel, d \in Client :
                 members'[h][d] = IF h = ch /\ d = c THEN 0 ELSE members[h][d]
           /\ channels' \subseteq channels
           /\ \A h \in channels' : name'[h] = name[h]
           /\ \A h \in channels \ channels', d \in Client : members'[h][d] = 0
<1>1. /\ ch \in channels /\ name[ch] = n /\ c \in clients
      /\ clients' = clients /\ Chans!ChannelClientPart(ch, c)
  BY DEF Part, Chans!Part, Chans!Finds
<1> QED
  BY <1>1, ClientPartMembers

\* client_delete's walk only comes to channels that the client is on, ...
LEMMA DeletePartMembers ==
    ASSUME Tables, Tables', NEW c \in Client, NEW ch \in Channel,
           DeletePart(c, ch)
    PROVE  /\ ch \in channels
           /\ \A h \in Channel, d \in Client :
                 members'[h][d] = IF h = ch /\ d = c THEN 0 ELSE members[h][d]
           /\ channels' \subseteq channels
           /\ \A h \in channels' : name'[h] = name[h]
           /\ \A h \in channels \ channels', d \in Client : members'[h][d] = 0
<1>1. deleting = c /\ ahead[ch] > 0 /\ Chans!ChannelClientPart(ch, c)
  BY DEF DeletePart, Chans!DeleteNext
<1>2. ahead = joined[c]
  BY <1>1, ServerAssumption DEF Tables, Lists, ServerAssumption
<1>3. ch \in channels
  BY <1>1, <1>2 DEF Tables, Lists, Chans!TypeOK, Chans!MembershipMirrored
<1> QED
  BY <1>1, <1>3, ClientPartMembers

\* ... and leaves it on none.
LEMMA DeleteDoneMembers ==
    ASSUME Tables, NEW c \in Client, DeleteDone(c)
    PROVE  /\ c \in clients /\ clients' = clients \ {c}
           /\ nickname' = [nickname EXCEPT ![c] = NULL]
           /\ UNCHANGED <<channels, name, members>>
           /\ \A h \in Channel : members[h][c] = 0
<1>1. /\ deleting = c /\ ahead = Chans!NoNodes /\ clients' = clients \ {c}
      /\ UNCHANGED <<channels, name, members>>
  BY DEF DeleteDone, Chans!DeleteDone, Chans!index
<1>2. c \in clients /\ nickname' = [nickname EXCEPT ![c] = NULL]
  BY DEF DeleteDone, Nicks!Delete
<1>3. joined[c] = Chans!NoNodes
  BY <1>1, ServerAssumption DEF Tables, Lists, ServerAssumption
<1>4. \A h \in Channel : members[h][c] = 0
  BY <1>3 DEF Chans!NoNodes, Tables, Lists, Chans!MembershipMirrored
<1> QED
  BY <1>1, <1>2, <1>4

-----------------------------------------------------------------------------
(***************************************************************************)
(* The type invariant and MembersNamed, strengthened by what they rest on: *)
(* registered says who has a nickname, and one client is quitting at most. *)
(***************************************************************************)
UserInv ==
    /\ registered = {c \in Client : nickname[c] # NULL}
    /\ registered \subseteq clients
    /\ quitting \subseteq clients
    /\ \A c, d \in quitting : c = d
    /\ MembersNamed
    /\ view \in [Client -> [Name -> SUBSET Nick]]

LEMMA InitUserInv == Init => UserInv
BY DEF Init, UserInv, MembersNamed, Nicks!Init, Chans!Init

\* The views keep their type when the notice names nicknames.
LEMMA HeardType ==
    ASSUME view \in [Client -> [Name -> SUBSET Nick]], NEW c, NEW notice,
           NEW listed \in SUBSET Nick, notice.from \in Nick,
           notice.kind = "NICK" => notice.arg \in Nick,
           Heard(c, notice, listed)
    PROVE  view' \in [Client -> [Name -> SUBSET Nick]]
<1>1. ASSUME NEW seen \in SUBSET Nick, NEW n \in Name
      PROVE  /\ SeenBySelf(seen, notice, n, listed) \in SUBSET Nick
             /\ SeenByOther(seen, notice, n) \in SUBSET Nick
  BY <1>1 DEF SeenBySelf, SeenByOther, Replaced
<1>2. view' = [d \in Client |-> [n \in Name |->
                 IF notice.to[d] = 0 THEN view[d][n]
                 ELSE IF d = c THEN SeenBySelf(view[d][n], notice, n, listed)
                 ELSE SeenByOther(view[d][n], notice, n)]]
  BY DEF Heard
<1>3. ASSUME NEW d \in Client, NEW n \in Name
      PROVE  view'[d][n] \in SUBSET Nick
  BY <1>1, <1>2
<1> QED
  BY <1>2, <1>3

\* A step that changes neither nicknames nor memberships
LEMMA QuietUserInv ==
    ASSUME Tables, UserInv, UNCHANGED <<nickname, members, registered>>,
           clients \subseteq clients', quitting' \subseteq clients',
           \A c, d \in quitting' : c = d,
           view' \in [Client -> [Name -> SUBSET Nick]]
    PROVE  UserInv'
BY DEF UserInv, MembersNamed

LEMMA NextUserInv == Tables /\ Tables' /\ UserInv /\ [Next]_vars => UserInv'
<1> SUFFICES ASSUME Tables, Tables', UserInv, [Next]_vars PROVE UserInv'
  OBVIOUS
<1> USE DEF Nicks!TypeOK, Chans!TypeOK, Tables
<1>0. NULL \notin Nick /\ \A c \in registered : nickname[c] \in Nick
  BY ServerAssumption DEF UserInv, ServerAssumption
<1>1. ASSUME NEW c \in Client, Connect(c) PROVE UserInv'
  <2>1. nickname[c] = NULL
    BY <1>1 DEF Connect, Nicks!AllocateNew, UserInv
  <2>2. nickname' = nickname /\ clients' = clients \cup {c}
    BY <1>1, <2>1 DEF Connect, Nicks!AllocateNew
  <2>3. UNCHANGED <<members, registered, quitting, view>>
    BY <1>1 DEF Connect, Chans!ClientNew, Answered
  <2> QED
    BY <2>2, <2>3 DEF UserInv, MembersNamed
<1>2. ASSUME NEW c \in Client, NEW n \in Nick, NickTaken(c, n)
      PROVE  UserInv'
  BY <1>2, QuietUserInv DEF NickTaken, Answered, nicks, chans, UserInv
<1>3. ASSUME NEW c \in Client, NEW n \in Nick, Nicks!SetNickname(c, n),
             registered' = registered \cup {c},
             UNCHANGED <<members, quitting>>,
             view' \in [Client -> [Name -> SUBSET Nick]]
      PROVE  UserInv'
  <2>1. /\ c \in clients /\ clients' = clients
        /\ nickname' = [nickname EXCEPT ![c] = n]
    BY <1>3 DEF Nicks!SetNickname
  <2> QED
    BY <1>0, <1>3, <2>1 DEF UserInv, MembersNamed
<1>4. ASSUME NEW c \in Client, NEW n \in Nick, NickFirst(c, n)
      PROVE  UserInv'
  BY <1>3, <1>4 DEF NickFirst, Answered, chans, UserInv
<1>5. ASSUME NEW c \in Client, NEW n \in Nick, NickChange(c, n)
      PROVE  UserInv'
  <2> DEFINE notice == Notice("NICK", nickname[c], n, ToChannelsOf(c))
  <2>1. notice.from \in Nick /\ notice.arg \in Nick
    BY <1>0, <1>5 DEF NickChange, Notice
  <2>2. Heard(c, notice, {}) \/ Answered
    BY <1>5 DEF NickChange
  <2> HIDE DEF notice
  <2>3. view' \in [Client -> [Name -> SUBSET Nick]]
    BY <2>1, <2>2, HeardType DEF Answered, UserInv
  <2>4. /\ Nicks!SetNickname(c, n) /\ registered' = registered \cup {c}
        /\ UNCHANGED <<members, quitting>>
    BY <1>5 DEF NickChange, chans
  <2> QED
    BY <1>3, <2>3, <2>4
<1>6. ASSUME NEW c \in Client, NEW n \in Name, NEW ch \in Channel,
             Join(c, n, ch)
      PROVE  UserInv'
  <2> DEFINE notice == Notice("JOIN", nickname[c], n, members'[ch])
             listed == {nickname[d] : d \in {e \in Client :
                                               members'[ch][e] > 0}}
  <2>1. c \in registered /\ UNCHANGED <<nickname, registered, quitting>>
    BY <1>6 DEF Join, Registered, nicks
  <2>2. MembersNamed'
    <3> SUFFICES ASSUME NEW h \in Channel, NEW d \in Client,
                        members'[h][d] > 0
                 PROVE  d \in registered /\ nickname[d] # NULL
      BY <2>1 DEF MembersNamed
    <3>1. d = c \/ members[h][d] > 0
      BY <1>6, JoinMembers
    <3> QED
      BY <2>1, <3>1 DEF UserInv, MembersNamed
  <2>3. listed \in SUBSET Nick
    BY <1>0, <2>1, <2>2 DEF MembersNamed
  <2>4. /\ notice.from \in Nick /\ notice.kind = "JOIN"
        /\ Heard(c, notice, listed)
    BY <1>0, <1>6, <2>1 DEF Join, JoinAnnounced, Notice
  <2> HIDE DEF notice, listed
  <2>5. view' \in [Client -> [Name -> SUBSET Nick]]
    BY <2>3, <2>4, HeardType DEF UserInv
  <2> QED
    BY <1>6, <2>1, <2>2, <2>5, JoinMembers DEF UserInv
<1>7. ASSUME NEW c \in Client, Refused(c) PROVE UserInv'
  BY <1>7, QuietUserInv DEF Refused, Answered, nicks, chans, UserInv
<1>8. ASSUME NEW c \in Client, NEW n \in Name, NEW ch \in Channel,
             Part(c, n, ch)
      PROVE  UserInv'
  <2> DEFINE notice == Notice("PART", nickname[c], n, ToChannel(ch))
  <2>1. c \in registered /\ UNCHANGED <<nickname, registered, quitting>>
    BY <1>8 DEF Part, Registered, nicks
  <2>2. MembersNamed'
    <3> SUFFICES ASSUME NEW h \in Channel, NEW d \in Client,
                        members'[h][d] > 0
                 PROVE  d \in registered /\ nickname[d] # NULL
      BY <2>1 DEF MembersNamed
    <3>1. d = c \/ members[h][d] > 0
      BY <1>8, PartMembers
    <3> QED
      BY <2>1, <3>1 DEF UserInv, MembersNamed
  <2>3. notice.from \in Nick /\ notice.kind = "PART" /\ Heard(c, notice, {})
    BY <1>0, <1>8, <2>1 DEF Part, Notice
  <2> HIDE DEF notice
  <2>4. view' \in [Client -> [Name -> SUBSET Nick]]
    BY <2>3, HeardType DEF UserInv
  <2> QED
    BY <1>8, <2>1, <2>2, <2>4, PartMembers DEF UserInv
<1>9. ASSUME NEW c \in Client, NEW n, NEW d,
             PrivmsgChannel(c, n, d) \/ PrivmsgUser(c, n, d)
      PROVE  UserInv'
  BY <1>9, QuietUserInv
     DEF PrivmsgChannel, PrivmsgUser, nicks, chans, UserInv
<1>10. ASSUME NEW c \in Client, Disconnect(c) PROVE UserInv'
  <2> DEFINE notice == Notice("QUIT", nickname[c], NULL, ToChannelsOf(c))
  <2>1. c \in registered => notice.from \in Nick /\ notice.kind = "QUIT"
    BY <1>0 DEF Notice
  <2>2. (c \in registered /\ Heard(c, notice, {})) \/ Answered
    BY <1>10 DEF Disconnect
  <2> HIDE DEF notice
  <2>3. view' \in [Client -> [Name -> SUBSET Nick]]
    BY <2>1, <2>2, HeardType DEF Answered, UserInv
  <2> QED
    BY <1>10, <2>3, QuietUserInv DEF Disconnect, Serves, nicks, chans
<1>11. ASSUME NEW c \in Client, Delete(c) PROVE UserInv'
  BY <1>11, QuietUserInv
     DEF Delete, Chans!ClientDelete, nicks, UserInv
<1>12. ASSUME NEW c \in Client, NEW ch \in Channel, DeletePart(c, ch)
      PROVE  UserInv'
  <2>1. UNCHANGED <<clients, nickname, registered, quitting, view>>
    BY <1>12 DEF DeletePart, Chans!DeleteNext, nicks
  <2>2. ASSUME NEW h \in Channel, NEW d \in Client, members'[h][d] > 0
        PROVE  members[h][d] > 0
    <3>1. members'[h][d] = IF h = ch /\ d = c THEN 0 ELSE members[h][d]
      BY <1>12, DeletePartMembers
    <3> QED
      BY <2>2, <3>1
  <2> QED
    BY <2>1, <2>2 DEF UserInv, MembersNamed
<1>13. ASSUME NEW c \in Client, DeleteDone(c) PROVE UserInv'
  <2>1. /\ registered' = registered \ {c} /\ quitting' = {}
        /\ view' = [view EXCEPT ![c] = [n \in Name |-> {}]]
    BY <1>13 DEF DeleteDone
  <2>2. MembersNamed'
    BY <1>13, <2>1, DeleteDoneMembers DEF UserInv, MembersNamed
  <2>3. view' \in [Client -> [Name -> SUBSET Nick]]
    BY <2>1 DEF UserInv
  <2> QED
    BY <1>13, <2>1, <2>2, <2>3, DeleteDoneMembers DEF UserInv
<1>14. CASE UNCHANGED vars
  BY <1>14, QuietUserInv DEF vars, nicks, chans, UserInv
<1> QED
  BY <1>1, <1>2, <1>4, <1>5, <1>6, <1>7, <1>8, <1>9, <1>10, <1>11, <1>12,
     <1>13, <1>14
     DEF Next

LEMMA AlwaysUserInv == Spec => []UserInv
BY InitUserInv, NextUserInv, AlwaysTables, PTL DEF Spec

\* The client that client_delete is at work on is the one that is quitting.
DeletingQuits == deleting # NULL => quitting = {deleting}

LEMMA AlwaysDeletingQuits == Spec => []DeletingQuits
<1>1. Init => DeletingQuits
  BY DEF Init, Chans!Init, DeletingQuits
<1>2. DeletingQuits /\ [Next]_vars => DeletingQuits'
  <2> SUFFICES ASSUME DeletingQuits, [Next]_vars PROVE DeletingQuits'
    OBVIOUS
  <2>1. ASSUME UNCHANGED <<deleting, quitting>> PROVE DeletingQuits'
    BY <2>1 DEF DeletingQuits
  <2>2. ASSUME NEW c \in Client,
               Disconnect(c) \/ Delete(c) \/ DeleteDone(c)
        PROVE  DeletingQuits'
    BY <2>2 DEF Disconnect, Serves, chans, Delete, Chans!ClientDelete,
                DeleteDone, Chans!DeleteDone, DeletingQuits
  <2> QED
    BY <2>1, <2>2
       DEF Next, vars, chans, Connect, NickTaken, NickFirst, NickChange,
           Join, Refused, Part, PrivmsgChannel, PrivmsgUser, DeletePart,
           Chans!ClientNew, Chans!JoinNew, Chans!JoinFound, Chans!Part,
           Chans!DeleteNext, Chans!walk
<1> QED
  BY <1>1, <1>2, PTL DEF Spec

(***************************************************************************)
(* Client records, channels, tables and views hold what they are declared  *)
(* to hold, whatever commands come in which order and whatever names share *)
(* a bucket.                                                               *)
(***************************************************************************)
THEOREM TypeCorrect == Spec => []TypeOK
<1>1. Tables /\ UserInv => TypeOK
  BY DEF Tables, UserInv, TypeOK
<1> QED
  BY <1>1, AlwaysTables, AlwaysUserInv, PTL

(***************************************************************************)
(* Whoever is on a channel is registered and has a nickname, so that the   *)
(* handlers that print it never find NULL: command_join refuses clients    *)
(* without one, and no handler takes a nickname away.                      *)
(***************************************************************************)
THEOREM MembersCorrect == Spec => []MembersNamed
BY AlwaysUserInv, PTL DEF UserInv

-----------------------------------------------------------------------------
(***************************************************************************)
(* Audience(n) is the clients on the channel of the name n.  Whatever      *)
(* records and lists stand for it, a command adds its client to it, takes  *)
(* it off, or leaves it alone.                                             *)
(***************************************************************************)

\* Everybody is on a channel through the one record of its name.
LEMMA AudienceOfRecord ==
    ASSUME Exact, NEW ch \in channels
    PROVE  Audience(name[ch]) = On(ch)
BY DEF Exact, ChansExact, Audience

LEMMA OnSomeChannel ==
    ASSUME Tables, NEW c \in Client, NEW d \in Client
    PROVE  /\ OnChannels(c) <=> \E n \in Name : c \in Audience(n)
           /\ \A n : c \in Audience(n) =>
                 c \in clients /\ n \in Name /\ \E ch \in channels :
                    name[ch] = n /\ members[ch][c] = 1
BY DEF Tables, Lists, Chans!TypeOK, Chans!MembershipMirrored, Audience, On,
       OnChannels

LEMMA SameAudience ==
    ASSUME UNCHANGED <<channels, name, members>>
    PROVE  \A n : Audience(n)' = Audience(n)
BY DEF Audience, On

LEMMA JoinAudience ==
    ASSUME Tables, Tables', Exact, NEW c \in Client, NEW n \in Name,
           NEW ch \in Channel, Join(c, n, ch)
    PROVE  /\ \A m : Audience(m)' = IF m = n THEN Audience(m) \cup {c}
                                             ELSE Audience(m)
           /\ c \notin Audience(n)
           /\ \A d \in Client :
                 members'[ch][d] = IF d \in Audience(n)' THEN 1 ELSE 0
<1>1. /\ channels' = channels \cup {ch} /\ name'[ch] = n
      /\ \A h \in channels : name'[h] = name[h]
      /\ members[ch][c] = 0
      /\ \A h \in Channel, d \in Client :
            members'[h][d] = IF h = ch /\ d = c THEN 1 ELSE members[h][d]
      /\ ch \in channels => name[ch] = n
      /\ ch \notin channels => /\ \A d \in Client : members[ch][d] = 0
                               /\ \A h \in channels : name[h] # n
  BY JoinMembers DEF Tables, Chans!TypeOK, Exact, ChansExact
<1>2. \A h \in channels' : name'[h] = n => h = ch
  BY <1>1 DEF Exact, ChansExact
<1>3. /\ channels' \subseteq Channel
      /\ \A h \in Channel, d \in Client :
            members[h][d] \in {0, 1} /\ members'[h][d] \in {0, 1}
  BY DEF Tables, Lists, Chans!TypeOK, Chans!MembershipMirrored
<1>4. Audience(n)' = {d \in Client : members'[ch][d] > 0}
  BY <1>1, <1>2 DEF Audience, On
<1>5. Audience(n) = {d \in Client : members[ch][d] > 0}
  BY <1>1, <1>2 DEF Audience, On
<1>6. ASSUME NEW m, m # n PROVE Audience(m)' = Audience(m)
  BY <1>1, <1>3, <1>6 DEF Audience, On
<1> QED
  BY <1>1, <1>3, <1>4, <1>5, <1>6

\* Taking c off one channel, which goes if nobody is left on it
LEMMA LeaveAudience ==
    ASSUME Tables, Exact, NEW c \in Client, NEW ch \in channels,
           \A h \in Channel, d \in Client :
              members'[h][d] = IF h = ch /\ d = c THEN 0 ELSE members[h][d],
           channels' \subseteq channels,
           \A h \in channels' : name'[h] = name[h],
           \A h \in channels \ channels', d \in Client : members'[h][d] = 0,
           NEW m
    PROVE  Audience(m)' = IF m = name[ch] THEN Audience(m) \ {c}
                                          ELSE Audience(m)
<1> DEFINE Has(d) == \E h \in channels : name[h] = m /\ members[h][d] > 0
           Keeps(d) == \E h \in channels' :
                          name'[h] = m /\ members'[h][d] > 0
<1>0. /\ Audience(m) = {d \in Client : Has(d)}
      /\ Audience(m)' = {d \in Client : Keeps(d)}
      /\ channels \subseteq Channel
  BY DEF Audience, On, Tables, Chans!TypeOK
<1>1. \A d \in Client : Keeps(d) => Has(d)
  BY <1>0
<1>2. ASSUME NEW d \in Client, Has(d), ~Keeps(d)
      PROVE  d = c /\ m = name[ch]
  <2>1. PICK h \in channels : name[h] = m /\ members[h][d] > 0
    BY <1>2
  <2>2. members'[h][d] # members[h][d]
    BY <1>2, <2>1
  <2> QED
    BY <1>0, <2>1, <2>2
<1>3. ASSUME m = name[ch], Keeps(c)
      PROVE  FALSE
  <2>1. PICK g \in channels' : name'[g] = m /\ members'[g][c] > 0
    BY <1>3
  <2>2. g \in channels /\ name[g] = m /\ members'[ch][c] = 0
    BY <1>0, <2>1
  <2>3. g = ch
    BY <1>3, <2>2 DEF Exact, ChansExact
  <2> QED
    BY <2>1, <2>2, <2>3
<1> HIDE DEF Has, Keeps
<1> QED
  BY <1>0, <1>1, <1>2, <1>3

LEMMA PartAudience ==
    ASSUME Tables, Tables', Exact, NEW c \in Client, NEW n \in Name,
           NEW ch \in Channel, Part(c, n, ch)
    PROVE  /\ \A m : Audience(m)' = IF m = n THEN Audience(m) \ {c}
                                             ELSE Audience(m)
           /\ Audience(n) = On(ch) /\ Audience(n) # {}
           /\ ch \in channels /\ name[ch] = n
<1>1. /\ ch \in channels /\ name[ch] = n
      /\ \A h \in Channel, d \in Client :
            members'[h][d] = IF h = ch /\ d = c THEN 0 ELSE members[h][d]
      /\ channels' \subseteq channels
      /\ \A h \in channels' : name'[h] = name[h]
      /\ \A h \in channels \ channels', d \in Client : members'[h][d] = 0
  BY PartMembers
<1>2. ASSUME NEW m
      PROVE  Audience(m)' = IF m = n THEN Audience(m) \ {c} ELSE Audience(m)
  BY <1>1, LeaveAudience
<1>3. Audience(n) = On(ch)
  BY <1>1, AudienceOfRecord
<1>4. On(ch) # {}
  BY <1>1 DEF Tables, Lists, Chans!NoEmptyChannel, Chans!IsEmpty,
              Chans!TypeOK, On
<1> QED
  BY <1>1, <1>2, <1>3, <1>4

LEMMA DeletePartAudience ==
    ASSUME Tables, Tables', Exact, NEW c \in Client, NEW ch \in Channel,
           DeletePart(c, ch)
    PROVE  /\ \A m : Audience(m)' = IF m = name[ch] THEN Audience(m) \ {c}
                                                    ELSE Audience(m)
           /\ name[ch] \in Name
BY DeletePartMembers, LeaveAudience DEF Tables, Lists

LEMMA DeleteDoneAudience ==
    ASSUME Tables, NEW c \in Client, DeleteDone(c), NEW m
    PROVE  Audience(m)' = Audience(m) /\ c \notin Audience(m)
<1>1. /\ UNCHANGED <<channels, name, members>>
      /\ \A h \in Channel : members[h][c] = 0
  BY DeleteDoneMembers
<1>2. c \notin Audience(m)
  BY <1>1 DEF Audience, On, Tables, Chans!TypeOK
<1> QED
  BY <1>1, <1>2, SameAudience

-----------------------------------------------------------------------------
\* Two sets in one-to-one correspondence have the same number of elements.
LEMMA SameSize ==
    ASSUME NEW S, NEW T, IsFiniteSet(S), NEW f \in [S -> T],
           \A x, y \in S : f[x] = f[y] => x = y,
           \A t \in T : \E x \in S : f[x] = t
    PROVE  IsFiniteSet(T) /\ Cardinality(T) = Cardinality(S)
<1>1. f \in Bijection(S, T)
  BY DEF Bijection, Injection, Surjection, IsInjective
<1> QED
  BY <1>1, FS_Bijection DEF ExistsBijection

(***************************************************************************)
(* NICK and QUIT hand one buffer to every channel of a client: another one *)
(* gets as many copies as there are channels that both are on.             *)
(***************************************************************************)
LEMMA CopiesOfChannels ==
    ASSUME Tables, Exact, NEW c \in Client, NEW d \in Client
    PROVE  /\ ToChannelsOf(c)[d] =
                Cardinality({n \in Name : {c, d} \subseteq Audience(n)})
           /\ IsFiniteSet({n \in Name : {c, d} \subseteq Audience(n)})
<1> DEFINE Shared == {ch \in channels :
                        members[ch][c] = 1 /\ members[ch][d] = 1}
           Names == {n \in Name : {c, d} \subseteq Audience(n)}
           Copies == UNION {{ch} \X (1..joined[c][ch]) \X (1..members[ch][d]) :
                              ch \in Channel}
<1>1. /\ channels \subseteq Channel
      /\ \A ch \in Channel : /\ members[ch][c] = joined[c][ch]
                             /\ members[ch][c] \in {0, 1}
                             /\ members[ch][d] \in {0, 1}
                             /\ members[ch][c] = 1 => ch \in channels
  BY DEF Tables, Lists, Chans!TypeOK, Chans!MembershipMirrored
<1>2. IsFiniteSet(Shared)
  BY <1>1, FS_Subset, ServerAssumption DEF ServerAssumption
<1>3. Copies = {<<ch, 1, 1>> : ch \in Shared}
  <2>1. ASSUME NEW ch \in Channel
        PROVE  {ch} \X (1..joined[c][ch]) \X (1..members[ch][d]) =
                 IF ch \in Shared THEN {<<ch, 1, 1>>} ELSE {}
    <3>1. CASE ch \in Shared
      <4>1. 1..joined[c][ch] = {1} /\ 1..members[ch][d] = {1}
        BY <1>1, <3>1
      <4> QED
        BY <3>1, <4>1
    <3>2. CASE ch \notin Shared
      <4>1. joined[c][ch] = 0 \/ members[ch][d] = 0
        BY <1>1, <3>2
      <4>2. 1..joined[c][ch] = {} \/ 1..members[ch][d] = {}
        BY <4>1
      <4> QED
        BY <3>2, <4>2
    <3> QED
      BY <3>1, <3>2
  <2>2. Shared \subseteq Channel
    BY <1>1
  <2> HIDE DEF Shared
  <2> QED
    BY <2>1, <2>2
<1>4. Cardinality(Copies) = Cardinality(Shared)
  <2> DEFINE f == [ch \in Shared |-> <<ch, 1, 1>>]
  <2>1. /\ f \in [Shared -> Copies]
        /\ \A x, y \in Shared : f[x] = f[y] => x = y
        /\ \A t \in Copies : \E x \in Shared : f[x] = t
    BY <1>3
  <2> HIDE DEF f, Shared, Copies
  <2> QED
    BY <1>2, <2>1, SameSize
<1>5. IsFiniteSet(Names) /\ Cardinality(Names) = Cardinality(Shared)
  <2> DEFINE f == [ch \in Shared |-> name[ch]]
  <2>1. ASSUME NEW ch \in Shared PROVE name[ch] \in Names
    BY <1>1 DEF Tables, Lists, Audience, On
  <2>2. ASSUME NEW n \in Names PROVE \E ch \in Shared : name[ch] = n
    <3>1. PICK ch \in channels : name[ch] = n /\ members[ch][c] > 0
      BY DEF Audience, On
    <3>2. PICK h \in channels : name[h] = n /\ members[h][d] > 0
      BY DEF Audience, On
    <3>3. h = ch
      BY <3>1, <3>2 DEF Exact, ChansExact
    <3> QED
      BY <1>1, <3>1, <3>2, <3>3
  <2>3. /\ f \in [Shared -> Names]
        /\ \A x, y \in Shared : f[x] = f[y] => x = y
        /\ \A t \in Names : \E x \in Shared : f[x] = t
    BY <2>1, <2>2 DEF Exact, ChansExact
  <2> HIDE DEF f, Shared, Names
  <2> QED
    BY <1>2, <2>3, SameSize
<1> QED
  BY <1>4, <1>5 DEF ToChannelsOf

\* A client that shares no channel with c gets nothing, the others something.
LEMMA CopiesOrNone ==
    ASSUME Tables, Exact, NEW c \in Client, NEW d \in Client
    PROVE  ToChannelsOf(c)[d] = 0 <=> \A n : ~({c, d} \subseteq Audience(n))
<1> DEFINE Names == {n \in Name : {c, d} \subseteq Audience(n)}
<1>1. ToChannelsOf(c)[d] = 0 <=> Names = {}
  BY CopiesOfChannels, FS_EmptySet
<1>2. \A n : c \in Audience(n) => n \in Name
  BY OnSomeChannel
<1> QED
  BY <1>1, <1>2

-----------------------------------------------------------------------------
(***************************************************************************)
(* What the view of each client is at any time: who is on the channels it  *)
(* is on and not about to go, under their present nicknames, and nobody on *)
(* the others.  (A record that is not in use is on none.)                  *)
(***************************************************************************)
Expected(c, n) ==
    IF c \in Audience(n) THEN {nickname[d] : d \in Audience(n) \ quitting}
                         ELSE {}

ViewInv ==
    \A c \in Client \ quitting, n \in Name : view[c][n] = Expected(c, n)

\* Nobody else has the nickname of a client that is on a channel.
LEMMA NicknameApart ==
    ASSUME Tables, Exact, UserInv, NEW n, NEW d \in Audience(n),
           NEW c \in clients,
           c # d
    PROVE  nickname[d] # nickname[c]
<1>1. d \in clients /\ nickname[d] # NULL
  BY OnSomeChannel DEF Audience, On, UserInv, MembersNamed, Tables,
     Chans!TypeOK
<1> QED
  BY <1>1 DEF Exact, NicksExact

\* A step that changes neither nicknames, nor channels, nor views
LEMMA SameViews ==
    ASSUME ViewInv, UNCHANGED <<nickname, channels, name, members, view>>,
           UNCHANGED quitting
    PROVE  ViewInv'
<1>1. \A n : Audience(n)' = Audience(n)
  BY SameAudience
<1>2. \A c, n : Expected(c, n)' = Expected(c, n)
  BY <1>1 DEF Expected
<1> QED
  BY <1>2 DEF ViewInv

LEMMA ConnectViews ==
    ASSUME Tables, UserInv, ViewInv, NEW c \in Client, Connect(c)
    PROVE  ViewInv'
<1>1. c \notin clients /\ quitting' = quitting
  BY DEF Connect, Nicks!AllocateNew
<1>2. UNCHANGED <<channels, name, members, view>>
  BY DEF Connect, Chans!ClientNew, Chans!index, Answered
<1>3. nickname' = nickname
  BY <1>1 DEF Connect, Nicks!AllocateNew, UserInv, Tables, Nicks!TypeOK
<1> QED
  BY <1>1, <1>2, <1>3, SameViews

LEMMA NickViews ==
    ASSUME Tables, Exact, UserInv, ViewInv, NEW c \in Client, NEW n \in Nick,
           NickFirst(c, n) \/ NickChange(c, n), c \notin quitting
    PROVE  ViewInv'
<1>1. /\ c \in clients /\ quitting = {} /\ quitting' = {}
      /\ nickname' = [nickname EXCEPT ![c] = n]
      /\ UNCHANGED <<channels, name, members>>
  BY DEF NickFirst, NickChange, Nicks!SetNickname, chans, Commands, Serves
<1>2. \A m : Audience(m)' = Audience(m)
  BY <1>1, SameAudience
<1>3. ASSUME NEW m \in Name, c \notin Audience(m)
      PROVE  \A v \in Client : Expected(v, m)' = Expected(v, m)
  <2>1. \A d \in Audience(m) : nickname'[d] = nickname[d]
    BY <1>1, <1>3, OnSomeChannel
       DEF Audience, On, Tables, Nicks!TypeOK
  <2> QED
    BY <1>1, <1>2, <2>1 DEF Expected
<1>4. CASE view' = view /\ \A m : c \notin Audience(m)
  BY <1>1, <1>3, <1>4 DEF ViewInv
<1>5. CASE Heard(c, Notice("NICK", nickname[c], n, ToChannelsOf(c)), {})
  <2>1. ASSUME NEW v \in Client, NEW m \in Name
        PROVE  view'[v][m] = Expected(v, m)'
    <3>1. view[v][m] = Expected(v, m)
      BY <1>1 DEF ViewInv
    <3>2. view'[v][m] = IF \A k : ~({c, v} \subseteq Audience(k))
                          THEN view[v][m]
                          ELSE Replaced(view[v][m], nickname[c], n)
      BY <1>5, CopiesOrNone DEF Heard, Notice, SeenBySelf, SeenByOther
    <3>3. CASE c \in Audience(m) /\ v \in Audience(m)
      <4>1. view'[v][m] = Replaced(view[v][m], nickname[c], n)
        BY <3>2, <3>3
      <4>2. \A d \in Audience(m) : d # c => nickname[d] # nickname[c]
        BY <1>1, NicknameApart
      <4>3. \A d \in Audience(m) : nickname'[d] = IF d = c THEN n
                                                           ELSE nickname[d]
        BY <1>1 DEF Audience, On, Tables, Nicks!TypeOK
      <4>4. /\ Expected(v, m) = {nickname[d] : d \in Audience(m)}
            /\ Expected(v, m)' = {nickname'[d] : d \in Audience(m)}
        BY <1>1, <1>2, <3>3 DEF Expected
      <4> QED
        BY <3>1, <3>3, <4>1, <4>2, <4>3, <4>4 DEF Replaced
    <3>4. CASE v \notin Audience(m)
      <4>1. Expected(v, m) = {} /\ Expected(v, m)' = {}
        BY <1>2, <3>4 DEF Expected
      <4> QED
        BY <3>1, <3>2, <4>1 DEF Replaced
    <3>5. CASE c \notin Audience(m)
      <4>1. Expected(v, m)' = Expected(v, m)
        BY <1>3, <3>5
      <4>2. nickname[c] \notin Expected(v, m)
        BY <1>1, <3>5, NicknameApart DEF Expected
      <4> QED
        BY <3>1, <3>2, <4>1, <4>2 DEF Replaced
    <3> QED
      BY <3>3, <3>4, <3>5
  <2> QED
    BY <2>1 DEF ViewInv
<1>6. c \notin registered => \A m : c \notin Audience(m)
  BY OnSomeChannel DEF UserInv, MembersNamed, Tables, Chans!TypeOK
<1> QED
  BY <1>4, <1>5, <1>6, OnSomeChannel DEF NickFirst, NickChange, Answered

LEMMA JoinViews ==
    ASSUME Tables, Tables', Exact, UserInv, ViewInv,
           NEW c \in Client, NEW n \in Name, NEW ch \in Channel,
           Join(c, n, ch),
           c \notin quitting
    PROVE  ViewInv'
<1>1. quitting = {} /\ quitting' = {} /\ nickname' = nickname
  BY DEF Join, Commands, Serves, nicks
<1>2. /\ \A m : Audience(m)' = IF m = n THEN Audience(m) \cup {c}
                                        ELSE Audience(m)
      /\ \A d \in Client :
            members'[ch][d] = IF d \in Audience(n)' THEN 1 ELSE 0
  BY JoinAudience
<1>3. Audience(n)' \subseteq Client
  BY DEF Audience, On
<1>4. JoinAnnounced(c, n, ch)
  BY DEF Join
<1> SUFFICES ASSUME NEW v \in Client, NEW m \in Name
             PROVE  view'[v][m] = Expected(v, m)'
  BY DEF ViewInv
<1>5. /\ view[v][m] = Expected(v, m)
      /\ Expected(v, m) = IF v \in Audience(m)
                            THEN {nickname[d] : d \in Audience(m)} ELSE {}
      /\ Expected(v, m)' = IF v \in Audience(m)'
                             THEN {nickname[d] : d \in Audience(m)'} ELSE {}
  BY <1>1 DEF ViewInv, Expected
<1>6. view'[v][m] =
        IF v \notin Audience(n)' \/ m # n THEN view[v][m]
        ELSE IF v = c THEN {nickname[d] : d \in Audience(n)'}
        ELSE view[v][m] \cup {nickname[c]}
  <2> DEFINE listed == {nickname[d] : d \in {e \in Client :
                                               members'[ch][e] > 0}}
             there == {nickname[d] : d \in Audience(n)'}
  <2>1. {e \in Client : members'[ch][e] > 0} = Audience(n)'
    BY <1>2, <1>3
  <2>2. listed = there
    BY <2>1
  <2>3. view'[v][m] = IF members'[ch][v] = 0 \/ m # n THEN view[v][m]
                      ELSE IF v = c THEN listed
                      ELSE view[v][m] \cup {nickname[c]}
    BY <1>4 DEF JoinAnnounced, Heard, Notice, SeenBySelf, SeenByOther
  <2>4. members'[ch][v] = IF v \in Audience(n)' THEN 1 ELSE 0
    BY <1>2
  <2> HIDE DEF listed, there
  <2>5. view'[v][m] = IF v \notin Audience(n)' \/ m # n THEN view[v][m]
                      ELSE IF v = c THEN there
                      ELSE view[v][m] \cup {nickname[c]}
    BY <2>2, <2>3, <2>4
  <2> QED
    BY <2>5 DEF there
<1>7. CASE m = n /\ v # c /\ v \in Audience(n)'
  BY <1>2, <1>5, <1>6, <1>7
<1> QED
  BY <1>2, <1>5, <1>6, <1>7

LEMMA PartViews ==
    ASSUME Tables, Tables', Exact, UserInv, ViewInv,
           NEW c \in Client, NEW n \in Name, NEW ch \in Channel,
           Part(c, n, ch),
           c \notin quitting
    PROVE  ViewInv'
<1>1. /\ quitting = {} /\ quitting' = {} /\ nickname' = nickname
      /\ c \in clients
  BY DEF Part, Commands, Serves, nicks
<1>2. /\ \A m : Audience(m)' = IF m = n THEN Audience(m) \ {c}
                                        ELSE Audience(m)
      /\ Audience(n) = On(ch)
  BY PartAudience
<1>3. \A d \in Client : members[ch][d] = 0 <=> d \notin Audience(n)
  BY <1>2 DEF On, Tables, Lists, Chans!TypeOK, Chans!MembershipMirrored
<1> SUFFICES ASSUME NEW v \in Client, NEW m \in Name
             PROVE  view'[v][m] = Expected(v, m)'
  BY DEF ViewInv
<1>4. /\ view[v][m] = Expected(v, m)
      /\ Expected(v, m) = IF v \in Audience(m)
                            THEN {nickname[d] : d \in Audience(m)} ELSE {}
      /\ Expected(v, m)' = IF v \in Audience(m)'
                             THEN {nickname[d] : d \in Audience(m)'} ELSE {}
  BY <1>1 DEF ViewInv, Expected
<1>5. view'[v][m] = IF v \notin Audience(n) \/ m # n THEN view[v][m]
                    ELSE IF v = c THEN {}
                    ELSE view[v][m] \ {nickname[c]}
  BY <1>3 DEF Part, ToChannel, Heard, Notice, SeenBySelf, SeenByOther
<1>6. CASE m = n /\ v # c /\ v \in Audience(n)
  <2>1. \A d \in Audience(n) : d # c => nickname[d] # nickname[c]
    BY <1>1, NicknameApart
  <2> QED
    BY <1>2, <1>4, <1>5, <1>6, <2>1
<1> QED
  BY <1>2, <1>4, <1>5, <1>6

LEMMA DisconnectViews ==
    ASSUME Tables, Exact, UserInv, ViewInv, NEW c \in Client, Disconnect(c)
    PROVE  ViewInv'
<1>1. /\ quitting \subseteq {c} /\ quitting' = {c} /\ c \in clients
      /\ UNCHANGED <<nickname, channels, name, members>>
  BY DEF Disconnect, Serves, nicks, chans
<1>2. \A m : Audience(m)' = Audience(m)
  BY <1>1, SameAudience
<1> SUFFICES ASSUME NEW v \in Client, v # c, NEW m \in Name
             PROVE  view'[v][m] = Expected(v, m)'
  BY <1>1 DEF ViewInv
<1>3. /\ view[v][m] = Expected(v, m)
      /\ Expected(v, m) = IF v \in Audience(m)
                            THEN {nickname[d] : d \in Audience(m) \ quitting}
                            ELSE {}
      /\ Expected(v, m)' = IF v \in Audience(m)
                             THEN {nickname[d] : d \in Audience(m) \ {c}}
                             ELSE {}
  <2>1. v \in Client \ quitting
    BY <1>1
  <2>2. view[v][m] = Expected(v, m)
    BY <2>1 DEF ViewInv
  <2>3. Expected(v, m)' = IF v \in Audience(m)
                            THEN {nickname[d] : d \in Audience(m) \ {c}}
                            ELSE {}
    BY <1>1, <1>2 DEF Expected
  <2> QED
    BY <2>2, <2>3 DEF Expected
<1>4. \A d \in Audience(m) : d # c => nickname[d] # nickname[c]
  BY <1>1, NicknameApart
<1>5. c \notin registered \/ ~OnChannels(c) => \A k : c \notin Audience(k)
  BY OnSomeChannel DEF UserInv, MembersNamed, Tables, Chans!TypeOK
<1>6. view'[v][m] = IF \A k : ~({c, v} \subseteq Audience(k))
                      THEN view[v][m]
                      ELSE view[v][m] \ {nickname[c]}
  <2>1. CASE c \in registered /\ OnChannels(c)
    <3>1. Heard(c, Notice("QUIT", nickname[c], NULL, ToChannelsOf(c)), {})
      BY <2>1 DEF Disconnect
    <3>2. view'[v][m] = IF ToChannelsOf(c)[v] = 0 THEN view[v][m]
                        ELSE view[v][m] \ {nickname[c]}
      BY <3>1 DEF Heard, Notice, SeenByOther
    <3> QED
      BY <3>2, CopiesOrNone
  <2>2. CASE ~(c \in registered /\ OnChannels(c))
    BY <1>5, <2>2 DEF Disconnect, Answered
  <2> QED
    BY <2>1, <2>2
<1>7. CASE c \in Audience(m) /\ v \in Audience(m)
  <2>1. view'[v][m] = view[v][m] \ {nickname[c]}
    BY <1>6, <1>7
  <2> QED
    BY <1>1, <1>3, <1>4, <1>7, <2>1
<1>8. CASE c \notin Audience(m) /\ v \in Audience(m)
  <2>1. Audience(m) \ quitting = Audience(m) /\ Audience(m) \ {c} = Audience(m)
    BY <1>1, <1>8
  <2>2. nickname[c] \notin {nickname[d] : d \in Audience(m)}
    BY <1>4, <1>8
  <2> QED
    BY <1>3, <1>6, <1>8, <2>1, <2>2
<1> QED
  BY <1>3, <1>6, <1>7, <1>8

\* Nobody but the client itself, which is quitting, would see the difference.
LEMMA DeletePartViews ==
    ASSUME Tables, Tables', Exact, UserInv, DeletingQuits, ViewInv,
           NEW c \in Client, NEW ch \in Channel, DeletePart(c, ch)
    PROVE  ViewInv'
<1>1. /\ quitting = {c} /\ quitting' = {c} /\ UNCHANGED <<nickname, view>>
  BY ServerAssumption
     DEF DeletePart, Chans!DeleteNext, DeletingQuits, ServerAssumption, nicks
<1>2. \A m : Audience(m)' = IF m = name[ch] THEN Audience(m) \ {c}
                                            ELSE Audience(m)
  BY DeletePartAudience
<1>3. ASSUME NEW v \in Client, v # c, NEW m \in Name
      PROVE  Expected(v, m)' = Expected(v, m)
  BY <1>1, <1>2, <1>3 DEF Expected
<1> QED
  BY <1>1, <1>3 DEF ViewInv

LEMMA DeleteDoneViews ==
    ASSUME Tables, UserInv, DeletingQuits, ViewInv, NEW c \in Client,
           DeleteDone(c)
    PROVE  ViewInv'
<1>1. /\ quitting = {c} /\ quitting' = {}
      /\ nickname' = [nickname EXCEPT ![c] = NULL]
      /\ view' = [view EXCEPT ![c] = [n \in Name |-> {}]]
  BY DeleteDoneMembers, ServerAssumption
     DEF DeleteDone, Chans!DeleteDone, DeletingQuits, ServerAssumption
<1>2. \A m : Audience(m)' = Audience(m) /\ c \notin Audience(m)
  BY DeleteDoneAudience
<1> SUFFICES ASSUME NEW v \in Client, NEW m \in Name
             PROVE  view'[v][m] = Expected(v, m)'
  BY DEF ViewInv
<1>3. CASE v = c
  BY <1>1, <1>2, <1>3 DEF Expected, UserInv
<1>4. CASE v # c
  <2>1. view'[v][m] = Expected(v, m)
    BY <1>1, <1>4 DEF ViewInv, UserInv
  <2>2. \A d \in Audience(m) : nickname'[d] = nickname[d]
    BY <1>1, <1>2 DEF Audience, On, Tables, Nicks!TypeOK
  <2> QED
    BY <1>1, <1>2, <1>4, <2>1, <2>2 DEF Expected
<1> QED
  BY <1>3, <1>4

LEMMA InitViewInv == Init => ViewInv
BY DEF Init, Chans!Init, ViewInv, Expected, Audience

LEMMA NextViewInv ==
    ASSUME AfterQuit = FALSE, Tables, Tables', Exact, UserInv,
           DeletingQuits, ViewInv, [Next]_vars
    PROVE  ViewInv'
<1> USE DEF nicks, chans
<1>1. \A c : Commands(c) => c \notin quitting
  BY DEF Commands
<1>2. ASSUME NEW c \in Client, NEW n,
             \/ NickTaken(c, n) \/ Refused(c)
             \/ \E d : PrivmsgChannel(c, n, d) \/ PrivmsgUser(c, n, d)
      PROVE  ViewInv'
  BY <1>2, SameViews
     DEF NickTaken, Refused, PrivmsgChannel, PrivmsgUser, Answered
<1>3. ASSUME NEW c \in Client, NEW n \in Nick,
             NickFirst(c, n) \/ NickChange(c, n)
      PROVE  ViewInv'
  BY <1>1, <1>3, NickViews DEF NickFirst, NickChange
<1>4. ASSUME NEW c \in Client, NEW n \in Name, NEW ch \in Channel,
             Join(c, n, ch) \/ Part(c, n, ch)
      PROVE  ViewInv'
  BY <1>1, <1>4, JoinViews, PartViews DEF Join, Part
<1>5. ASSUME NEW c \in Client, Delete(c) PROVE ViewInv'
  BY <1>5, SameViews DEF Delete, Chans!ClientDelete, Chans!index
<1>6. CASE UNCHANGED vars
  BY <1>6, SameViews DEF vars
<1> QED
  BY <1>2, <1>3, <1>4, <1>5, <1>6, ConnectViews, DisconnectViews,
     DeletePartViews, DeleteDoneViews
     DEF Next

\* Names that have shared a bucket once have done so for ever.
LEMMA CrowdedStays == ASSUME Crowded, [Next]_vars PROVE Crowded'
BY DEF Crowded, Next, vars, nicks, chans, Connect, NickTaken, NickFirst,
       NickChange, Join, Refused, Part, PrivmsgChannel, PrivmsgUser,
       Disconnect, Delete, DeletePart, DeleteDone, Nicks!AllocateNew,
       Nicks!SetNickname, Nicks!Delete, Chans!ClientNew, Chans!JoinNew,
       Chans!JoinFound, Chans!Part, Chans!ClientDelete, Chans!DeleteNext,
       Chans!DeleteDone

LEMMA AlwaysViewInv == Spec /\ AfterQuit = FALSE => [](~Crowded => ViewInv)
<1>1. CASE AfterQuit = FALSE
  <2>1. ASSUME Tables, Tables', UserInv, DeletingQuits,
               ~Crowded => ViewInv, [Next]_vars, ~Crowded'
        PROVE  ViewInv'
    <3>1. ~Crowded
      BY <2>1, CrowdedStays
    <3>2. Exact
      BY <2>1, <3>1 DEF Tables
    <3> QED
      BY <1>1, <2>1, <3>1, <3>2, NextViewInv
  <2>2. Tables /\ Tables' /\ UserInv /\ DeletingQuits /\
        (~Crowded => ViewInv) /\ [Next]_vars => (~Crowded => ViewInv)'
    BY <2>1
  <2> QED
    BY <2>2, InitViewInv, AlwaysTables, AlwaysUserInv, AlwaysDeletingQuits,
       PTL DEF Spec
<1> QED
  BY <1>1

(***************************************************************************)
(* Every client's view of its channels is right until two names in use     *)
(* share a bucket: the notices of JOIN, PART, QUIT and NICK reach all whom *)
(* they concern, once the handlers serve nothing a client sends after its  *)
(* QUIT.                                                                   *)
(***************************************************************************)
THEOREM ViewsCorrect == Spec /\ AfterQuit = FALSE => []ViewsAgree
<1>1. ASSUME Tables, UserInv, ~Crowded => ViewInv PROVE ViewsAgree
  <2> SUFFICES ASSUME ~Crowded PROVE ViewsAgree
    BY DEF ViewsAgree
  <2> Exact /\ ViewInv
    BY <1>1 DEF Tables
  <2> SUFFICES ASSUME NEW c \in clients \ quitting, NEW n \in Name
               PROVE  \/ /\ \A ch \in channels :
                               name[ch] = n => members[ch][c] = 0
                         /\ view[c][n] = {}
                      \/ \E ch \in channels : /\ name[ch] = n
                                              /\ members[ch][c] > 0
                                              /\ view[c][n] = Actual(ch)
    BY DEF ViewsAgree
  <2>1. c \in Client /\ view[c][n] = Expected(c, n)
    BY <1>1 DEF ViewInv, Tables, Chans!TypeOK
  <2>2. CASE c \in Audience(n)
    <3>1. PICK ch \in channels : name[ch] = n /\ members[ch][c] = 1
      BY <1>1, <2>1, <2>2, OnSomeChannel
    <3>2. Audience(n) = On(ch)
      BY <1>1, <3>1, AudienceOfRecord
    <3> QED
      BY <2>1, <2>2, <3>1, <3>2 DEF Expected, Actual
  <2>3. CASE c \notin Audience(n)
    <3>1. \A ch \in channels : name[ch] = n => ~(members[ch][c] > 0)
      BY <2>1, <2>3 DEF Audience, On
    <3> QED
      BY <1>1, <2>1, <2>3, <3>1
         DEF Expected, Tables, Lists, Chans!TypeOK, Chans!MembershipMirrored
  <2> QED
    BY <2>2, <2>3
<1>2. Tables /\ UserInv /\ (~Crowded => ViewInv) => ViewsAgree
  BY <1>1
<1> QED
  BY <1>2, AlwaysTables, AlwaysUserInv, AlwaysViewInv, PTL

-----------------------------------------------------------------------------
(***************************************************************************)
(* The server implements Irc: each action of the one is an action of the   *)
(* other.                                                                  *)
(***************************************************************************)
LEMMA SameNotices ==
    /\ \A kind, from, arg, to :
          Notice(kind, from, arg, to) = Service!Notice(kind, from, arg, to)
    /\ Quiet = Service!Quiet
    /\ \A c : Serves(c) => Service!Serves(c)
BY DEF Notice, Service!Notice, Quiet, Service!Quiet, Nobody, Service!Nobody,
       Serves, Service!Serves

\* Irc's Registered, Sharers and the question whether a client is on any
\* channel say what the server finds in its records and lists.
LEMMA SameUsers ==
    ASSUME Tables, Exact, UserInv, NEW c \in Client
    PROVE  /\ Service!Registered(c) <=> c \in registered
           /\ Service!Sharers(c) = ToChannelsOf(c)
           /\ (\E n \in Name : c \in Audiences[n]) <=> OnChannels(c)
<1>1. Service!Registered(c) <=> c \in registered
  BY DEF Service!Registered, UserInv
<1>2. \A n \in Name : Audiences[n] = Audience(n)
  BY DEF Audiences
<1>3. (\E n \in Name : c \in Audiences[n]) <=> OnChannels(c)
  BY <1>2, OnSomeChannel
<1>4. ASSUME NEW d \in Client
      PROVE  Service!Sharers(c)[d] = ToChannelsOf(c)[d]
  <2>1. {n \in Name : {c, d} \subseteq Audiences[n]} =
           {n \in Name : {c, d} \subseteq Audience(n)}
    BY <1>2
  <2>2. Service!Sharers(c)[d] =
           Cardinality({n \in Name : {c, d} \subseteq Audiences[n]})
    BY DEF Service!Sharers, Service!Cardinality, Cardinality
  <2> QED
    BY <2>1, <2>2, CopiesOfChannels
<1>5. /\ Service!Sharers(c) = [d \in Client |-> Service!Sharers(c)[d]]
      /\ ToChannelsOf(c) = [d \in Client |-> ToChannelsOf(c)[d]]
  BY DEF Service!Sharers, ToChannelsOf
<1> QED
  BY <1>1, <1>3, <1>4, <1>5

\* The nodes of a channel's list are one copy for everybody on it.
LEMMA OnceEach ==
    ASSUME Tables, NEW ch \in Channel
    PROVE  ToChannel(ch) = Service!Once(On(ch))
BY DEF Tables, Lists, Chans!TypeOK, Chans!MembershipMirrored, ToChannel,
       On, Service!Once

LEMMA SameAudiences ==
    ASSUME UNCHANGED <<channels, name, members>>
    PROVE  Audiences' = Audiences
BY SameAudience DEF Audiences

LEMMA ConnectIrc ==
    ASSUME Tables, UserInv, NEW c \in Client, Connect(c)
    PROVE  Service!Connect(c)
<1>1. c \notin clients /\ clients' = clients \cup {c} /\ quitting' = quitting
  BY DEF Connect, Nicks!AllocateNew
<1>2. UNCHANGED <<channels, name, members>> /\ out' = Quiet
  BY DEF Connect, Chans!ClientNew, Chans!index, Answered
<1>3. nickname' = nickname
  BY <1>1 DEF Connect, Nicks!AllocateNew, UserInv, Tables, Nicks!TypeOK
<1> QED
  BY <1>1, <1>2, <1>3, SameAudiences, SameNotices DEF Service!Connect

LEMMA AnsweredIrc ==
    ASSUME NEW c \in Client, NEW n, NickTaken(c, n) \/ Refused(c)
    PROVE  Service!Answered(c)
BY SameAudiences, SameNotices
   DEF NickTaken, Refused, Answered, Commands, nicks, chans,
       Service!Answered

LEMMA NickIrc ==
    ASSUME Tables, Exact, UserInv, NEW c \in Client, NEW n \in Nick,
           NickFirst(c, n) \/ NickChange(c, n)
    PROVE  Service!TakeNick(c, n)
<1>1. /\ Serves(c) /\ clients' = clients /\ quitting' = quitting
      /\ Nicks!FindsNone(n)
      /\ nickname' = [nickname EXCEPT ![c] = n]
      /\ UNCHANGED <<channels, name, members>>
  BY DEF NickFirst, NickChange, Nicks!SetNickname, chans, Commands
<1>2. Service!Free(n)
  BY <1>1 DEF Service!Free, Exact, NicksExact
<1>3. out' = IF c \in registered /\ OnChannels(c)
               THEN Notice("NICK", nickname[c], n, ToChannelsOf(c))
               ELSE Quiet
  BY DEF NickFirst, NickChange, Heard, Answered
<1>4. out' = IF /\ Service!Registered(c)
                /\ \E ch \in Name : c \in Audiences[ch]
               THEN Service!Notice("NICK", nickname[c], n, Service!Sharers(c))
               ELSE Service!Quiet
  BY <1>3, SameUsers, SameNotices
<1> QED
  BY <1>1, <1>2, <1>4, SameAudiences, SameNotices DEF Service!TakeNick

LEMMA JoinIrc ==
    ASSUME Tables, Tables', Exact, UserInv, NEW c \in Client,
           NEW n \in Name, NEW ch \in Channel, Join(c, n, ch)
    PROVE  Service!Join(c, n)
<1>1. /\ Serves(c) /\ c \in registered
      /\ UNCHANGED <<clients, nickname, quitting>>
      /\ out' = Notice("JOIN", nickname[c], n, members'[ch])
  BY JoinMembers
     DEF Join, Commands, Registered, nicks, JoinAnnounced, Heard
<1>2. /\ \A m : Audience(m)' = IF m = n THEN Audience(m) \cup {c}
                                        ELSE Audience(m)
      /\ c \notin Audience(n)
      /\ \A d \in Client :
            members'[ch][d] = IF d \in Audience(n)' THEN 1 ELSE 0
  BY JoinAudience
<1>3. Audiences' = [Audiences EXCEPT ![n] = @ \cup {c}]
  BY <1>2 DEF Audiences
<1>4. members'[ch] = Service!Once(Audience(n)')
  BY <1>2 DEF Service!Once, Tables, Chans!TypeOK
<1>5. Audiences[n] = Audience(n) /\ Audiences'[n] = Audience(n)'
  BY DEF Audiences
<1> QED
  BY <1>1, <1>2, <1>3, <1>4, <1>5, SameUsers, SameNotices DEF Service!Join

LEMMA PartIrc ==
    ASSUME Tables, Tables', Exact, UserInv, NEW c \in Client,
           NEW n \in Name, NEW ch \in Channel, Part(c, n, ch)
    PROVE  Service!Part(c, n)
<1>1. /\ Serves(c) /\ c \in registered
      /\ UNCHANGED <<clients, nickname, quitting>>
      /\ out' = Notice("PART", nickname[c], n, ToChannel(ch))
  BY PartMembers DEF Part, Commands, Registered, nicks, Heard
<1>2. /\ \A m : Audience(m)' = IF m = n THEN Audience(m) \ {c}
                                        ELSE Audience(m)
      /\ Audience(n) = On(ch) /\ Audience(n) # {}
  BY PartAudience
<1>3. Audiences' = [Audiences EXCEPT ![n] = @ \ {c}]
  BY <1>2 DEF Audiences
<1>4. Audiences[n] = Audience(n)
  BY DEF Audiences
<1> QED
  BY <1>1, <1>2, <1>3, <1>4, OnceEach, SameUsers, SameNotices
     DEF Service!Part

LEMMA TellChannelIrc ==
    ASSUME Tables, Exact, UserInv, NEW c \in Client, NEW n \in Name,
           NEW ch \in Channel, PrivmsgChannel(c, n, ch)
    PROVE  Service!TellChannel(c, n)
<1>1. /\ Serves(c) /\ c \in registered
      /\ UNCHANGED <<clients, nickname, quitting, channels, name, members>>
      /\ out' = Notice("PRIVMSG", nickname[c], n,
                       [ToChannel(ch) EXCEPT ![c] = 0])
      /\ ch \in channels /\ name[ch] = n
  BY DEF PrivmsgChannel, Commands, Registered, nicks, chans, SkipSender,
         Chans!Finds
<1>2. Audiences[n] = On(ch) /\ On(ch) # {}
  BY <1>1, AudienceOfRecord
     DEF Audiences, Tables, Lists, Chans!NoEmptyChannel, Chans!IsEmpty,
         Chans!TypeOK, On
<1>3. [ToChannel(ch) EXCEPT ![c] = 0] = Service!Once(On(ch) \ {c})
  BY OnceEach DEF Service!Once
<1> QED
  BY <1>1, <1>2, <1>3, SameAudiences, SameUsers, SameNotices
     DEF Service!TellChannel

LEMMA TellUserIrc ==
    ASSUME Tables, Exact, UserInv, NEW c \in Client, NEW n \in Nick,
           NEW d \in Client, PrivmsgUser(c, n, d)
    PROVE  Service!TellUser(c, d)
<1>1. /\ Serves(c) /\ c \in registered
      /\ UNCHANGED <<clients, nickname, quitting, channels, name, members>>
      /\ out' = Notice("PRIVMSG", nickname[c], n, [Nobody EXCEPT ![d] = 1])
      /\ d \in clients /\ nickname[d] = n
  BY DEF PrivmsgUser, Commands, Registered, nicks, chans, Nicks!Finds
<1>2. [Nobody EXCEPT ![d] = 1] = Service!Once({d})
  BY DEF Nobody, Service!Once
<1>3. d \in registered
  BY <1>1, ServerAssumption DEF UserInv, ServerAssumption
<1> QED
  BY <1>1, <1>2, <1>3, SameAudiences, SameUsers, SameNotices
     DEF Service!TellUser

LEMMA DisconnectIrc ==
    ASSUME Tables, Exact, UserInv, NEW c \in Client, Disconnect(c)
    PROVE  Service!Disconnect(c)
<1>1. /\ Serves(c) /\ quitting' = {c}
      /\ UNCHANGED <<clients, nickname, channels, name, members>>
  BY DEF Disconnect, nicks, chans
<1>2. out' = IF c \in registered /\ OnChannels(c)
               THEN Notice("QUIT", nickname[c], NULL, ToChannelsOf(c))
               ELSE Quiet
  BY DEF Disconnect, Heard, Answered
<1>3. out' = IF /\ Service!Registered(c)
                /\ \E ch \in Name : c \in Audiences[ch]
               THEN Service!Notice("QUIT", nickname[c], NULL,
                                   Service!Sharers(c))
               ELSE Service!Quiet
  BY <1>2, SameUsers, SameNotices
<1> QED
  BY <1>1, <1>3, SameAudiences, SameNotices DEF Service!Disconnect

LEMMA DeletePartIrc ==
    ASSUME Tables, Tables', Exact, DeletingQuits, NEW c \in Client,
           NEW ch \in Channel, DeletePart(c, ch)
    PROVE  name[ch] \in Name /\ Service!Leaves(c, name[ch])
<1>1. /\ quitting = {c} /\ out' = Quiet
      /\ UNCHANGED <<clients, nickname, quitting>>
  BY ServerAssumption
     DEF DeletePart, Chans!DeleteNext, DeletingQuits, ServerAssumption, nicks
<1>2. /\ \A m : Audience(m)' = IF m = name[ch] THEN Audience(m) \ {c}
                                               ELSE Audience(m)
      /\ name[ch] \in Name
  BY DeletePartAudience
<1>3. Audiences' = [Audiences EXCEPT ![name[ch]] = @ \ {c}]
  BY <1>2 DEF Audiences
<1> QED
  BY <1>1, <1>2, <1>3, SameNotices DEF Service!Leaves

LEMMA DeleteDoneIrc ==
    ASSUME Tables, DeletingQuits, NEW c \in Client, DeleteDone(c)
    PROVE  Service!Gone(c)
<1>1. /\ quitting = {c} /\ quitting' = {} /\ out' = Quiet
      /\ clients' = clients \ {c}
      /\ nickname' = [nickname EXCEPT ![c] = NULL]
  BY DeleteDoneMembers, ServerAssumption
     DEF DeleteDone, Chans!DeleteDone, DeletingQuits, ServerAssumption
<1>2. \A m : Audience(m)' = Audience(m) /\ c \notin Audience(m)
  BY DeleteDoneAudience
<1>3. Audiences' = Audiences /\ \A m \in Name : c \notin Audiences[m]
  BY <1>2 DEF Audiences
<1> QED
  BY <1>1, <1>3, SameNotices DEF Service!Gone

LEMMA InitIrc == Init => Service!Init
BY SameNotices
   DEF Init, Nicks!Init, Chans!Init, Service!Init, Audiences, Audience

LEMMA NextIrc ==
    Tables /\ Tables' /\ UserInv /\ DeletingQuits /\ [Next]_vars
       => [~Crowded => Service!Next]_(Service!vars)
<1> SUFFICES ASSUME Tables, Tables', UserInv, DeletingQuits, [Next]_vars,
                    ~Crowded
             PROVE  [Service!Next]_(Service!vars)
  OBVIOUS
<1> Exact
  BY DEF Tables
<1>1. ASSUME NEW c \in Client, Connect(c) \/ Disconnect(c) \/ DeleteDone(c)
      PROVE  Service!Next
  BY <1>1, ConnectIrc, DisconnectIrc, DeleteDoneIrc DEF Service!Next
<1>2. ASSUME NEW c \in Client, NEW n, NickTaken(c, n) \/ Refused(c)
      PROVE  Service!Next
  BY <1>2, AnsweredIrc DEF Service!Next
<1>3. ASSUME NEW c \in Client, NEW n \in Nick,
             NickFirst(c, n) \/ NickChange(c, n)
      PROVE  Service!Next
  BY <1>3, NickIrc DEF Service!Next
<1>4. ASSUME NEW c \in Client, NEW n \in Name, NEW ch \in Channel,
             Join(c, n, ch) \/ Part(c, n, ch) \/ PrivmsgChannel(c, n, ch)
      PROVE  Service!Next
  BY <1>4, JoinIrc, PartIrc, TellChannelIrc DEF Service!Next
<1>5. ASSUME NEW c \in Client, NEW n \in Nick, NEW d \in Client,
             PrivmsgUser(c, n, d)
      PROVE  Service!Next
  BY <1>5, TellUserIrc DEF Service!Next
<1>6. ASSUME NEW c \in Client, NEW ch \in Channel, DeletePart(c, ch)
      PROVE  Service!Next
  BY <1>6, DeletePartIrc DEF Service!Next
<1>7. ASSUME NEW c \in Client, Delete(c) PROVE UNCHANGED Service!vars
  BY <1>7, SameAudiences
     DEF Delete, Chans!ClientDelete, Chans!index, nicks, Service!vars
<1>8. CASE UNCHANGED vars
  BY <1>8, SameAudiences DEF vars, nicks, chans, Service!vars
<1> QED
  BY <1>1, <1>2, <1>3, <1>4, <1>5, <1>6, <1>7, <1>8 DEF Next

(***************************************************************************)
(* The refinement, for any numbers of clients, channels, names and         *)
(* buckets: up to the step that first puts two names into one bucket, what *)
(* the handlers do through the hash tables and the two lists of every      *)
(* membership is what Irc says of a server that has neither.               *)
(***************************************************************************)
THEOREM ServesIrc == Spec => IrcSpec
BY InitIrc, NextIrc, AlwaysTables, AlwaysUserInv, AlwaysDeletingQuits, PTL
   DEF Spec, IrcSpec

=============================================================================
