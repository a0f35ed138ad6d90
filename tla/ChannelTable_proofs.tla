------------------------ MODULE ChannelTable_proofs ------------------------
(***************************************************************************)
(* Memberships are recorded on both sides and no channel is left without a *)
(* client, whatever the channel names, the hash function and the number of *)
(* buckets: none of this depends on the hash table.  The table itself is   *)
(* exact until two channels share a bucket.                                *)
(***************************************************************************)
EXTENDS ChannelTable, Lemmas, TLAPS

LEMMA InitType == Init => TypeOK
<1> SUFFICES ASSUME Init PROVE TypeOK
  OBVIOUS
<1>1. crowded \in BOOLEAN
  BY DEF Init
<1>2. members \in [Channel -> [Client -> Nat]]
  BY DEF Init
<1>3. joined \in [Client -> [Channel -> Nat]]
  BY DEF Init, NoNodes
<1>4. name \in [Channel -> Name \cup {NULL}]
  BY DEF Init
<1>5. name_next \in [Channel -> Channel \cup {NULL}]
  BY DEF Init
<1>6. channel_name \in [Bucket -> Channel \cup {NULL}]
  BY DEF Init
<1>7. clients \subseteq Client /\ channels \subseteq Channel
  BY DEF Init
<1>8. deleting \in clients \cup {NULL} /\ ahead \in [Channel -> Nat]
  BY DEF Init, NoNodes
<1> QED BY <1>1, <1>2, <1>3, <1>4, <1>5, <1>6, <1>7, <1>8 DEF TypeOK

\* channel_client_part leaves the channels and their lists well typed.
LEMMA PartType ==
    ASSUME TypeOK, NEW c \in Client, NEW ch \in Channel,
           ChannelClientPart(ch, c)
    PROVE  /\ channels' \subseteq Channel
           /\ name' \in [Channel -> Name \cup {NULL}]
           /\ name_next' \in [Channel -> Channel \cup {NULL}]
           /\ channel_name' \in [Bucket -> Channel \cup {NULL}]
           /\ members' \in [Channel -> [Client -> Nat]]
           /\ joined' \in [Client -> [Channel -> Nat]]
<1> USE DEF TypeOK
<1>1. CASE members[ch][c] = 0
  BY <1>1 DEF ChannelClientPart, index
<1>2. CASE members[ch][c] # 0
  <2>1. /\ members' = [members EXCEPT ![ch][c] = @ - 1]
        /\ joined' = [joined EXCEPT ![c][ch] = IF @ > 0 THEN @ - 1 ELSE 0]
        /\ ChannelDelete(ch) \/ UNCHANGED index
    BY <1>2 DEF ChannelClientPart
  <2>2. members' \in [Channel -> [Client -> Nat]]
    <3>1. members[ch][c] - 1 \in Nat
      BY <1>2
    <3>2. [members[ch] EXCEPT ![c] = @ - 1] \in [Client -> Nat]
      BY <3>1
    <3> QED BY <2>1, <3>2
  <2>3. joined' \in [Client -> [Channel -> Nat]]
    BY <2>1
  <2>4. CASE ChannelDelete(ch)
    BY <2>2, <2>3, <2>4 DEF ChannelDelete
  <2>5. CASE UNCHANGED index
    BY <2>2, <2>3, <2>5 DEF index
  <2> QED BY <2>1, <2>4, <2>5
<1> QED BY <1>1, <1>2

(***************************************************************************)
(* The records, the table and the node counts hold what they are declared  *)
(* to hold, and only a client in use is ever at hand in client_delete.     *)
(***************************************************************************)
THEOREM TypeCorrect == Spec => []TypeOK
<1>1. Init => TypeOK
  BY InitType
<1>2. TypeOK /\ [Next]_vars => TypeOK'
  <2> SUFFICES ASSUME TypeOK, [Next]_vars PROVE TypeOK'
    OBVIOUS
  <2>1. ASSUME NEW c \in Client, ClientNew(c) PROVE TypeOK'
    BY <2>1 DEF TypeOK, ClientNew, NoNodes, index, walk
  <2>2. ASSUME NEW c \in Client, NEW n \in Name, NEW ch \in Channel,
               JoinNew(c, n, ch)
        PROVE  TypeOK'
    BY <2>2, ChannelTableAssumption DEF TypeOK, JoinNew, AddMember, walk
  <2>3. ASSUME NEW c \in Client, NEW n \in Name, NEW ch \in Channel,
               JoinFound(c, n, ch)
        PROVE  TypeOK'
    BY <2>3 DEF TypeOK, JoinFound, AddMember, index, walk
  <2>4. ASSUME NEW c \in Client, NEW n \in Name, NEW ch \in Channel,
               Part(c, n, ch)
        PROVE  TypeOK'
    <3>1. /\ clients' = clients /\ deleting' = deleting
          /\ ahead' = ahead /\ crowded' = crowded
      BY <2>4 DEF Part, walk
    <3>2. ChannelClientPart(ch, c)
      BY <2>4 DEF Part
    <3> QED BY <3>1, <3>2, PartType DEF TypeOK
  <2>5. ASSUME NEW c \in Client, ClientDelete(c) PROVE TypeOK'
    BY <2>5 DEF TypeOK, ClientDelete, index
  <2>6. ASSUME NEW c \in Client, NEW ch \in Channel, DeleteNext(c, ch)
        PROVE  TypeOK'
    <3>1. /\ clients' = clients /\ deleting' = deleting
          /\ crowded' = crowded
      BY <2>6 DEF DeleteNext
    <3>2. ahead' \in [Channel -> Nat]
      BY <2>6 DEF DeleteNext, Behind, TypeOK
    <3>3. ChannelClientPart(ch, c)
      BY <2>6 DEF DeleteNext
    <3> QED BY <3>1, <3>2, <3>3, PartType DEF TypeOK
  <2>7. ASSUME NEW c \in Client, DeleteDone(c) PROVE TypeOK'
    BY <2>7 DEF TypeOK, DeleteDone, index
  <2>8. CASE UNCHANGED vars
    BY <2>8 DEF TypeOK, vars, index, walk
  <2> QED BY <2>1, <2>2, <2>3, <2>4, <2>5, <2>6, <2>7, <2>8 DEF Next
<1> QED BY <1>1, <1>2, PTL DEF Spec

-----------------------------------------------------------------------------
(***************************************************************************)
(* What client_delete's walk has yet to come to is what is left of the     *)
(* list it walks over, although nodes of that list are freed meanwhile.    *)
(***************************************************************************)
WalkComplete == deleting # NULL => ahead = joined[deleting]

\* A channel has a name as long as it exists.
ChannelsNamed == \A ch \in channels : name[ch] \in Name

Lists == MembershipMirrored /\ NoEmptyChannel /\ ChannelsNamed

IInv == TypeOK /\ Lists /\ WalkComplete

LEMMA InitIInv == Init => IInv
BY InitType DEF Init, IInv, Lists, MembershipMirrored, NoEmptyChannel,
                ChannelsNamed, WalkComplete, NoNodes

\* A node added on either side for a client that is not on the channel
LEMMA JoinLists ==
    ASSUME IInv, TypeOK', NEW c \in clients, NEW ch \in Channel,
           members[ch][c] = 0, AddMember(ch, c), clients' = clients,
           channels' = channels \cup {ch},
           \A h \in channels' : name'[h] \in Name
    PROVE  Lists'
<1> USE DEF IInv, Lists
<1> c \in Client
  BY DEF TypeOK
<1>1. ASSUME NEW d \in Client, NEW h \in Channel
      PROVE  /\ members'[h][d] = IF h = ch /\ d = c THEN 1
                                                    ELSE members[h][d]
             /\ joined'[d][h] = IF h = ch /\ d = c THEN 1 ELSE joined[d][h]
  BY DEF AddMember, TypeOK, MembershipMirrored
<1>2. MembershipMirrored'
  BY <1>1 DEF MembershipMirrored
<1>3. NoEmptyChannel'
  <2> SUFFICES ASSUME NEW h \in channels', IsEmpty(members'[h])
               PROVE  FALSE
    BY DEF NoEmptyChannel, IsEmpty
  <2>1. CASE h = ch
    BY <1>1, <2>1 DEF IsEmpty
  <2>2. CASE h # ch
    BY <1>1, <2>2 DEF IsEmpty, NoEmptyChannel, TypeOK
  <2> QED BY <2>1, <2>2
<1> QED BY <1>2, <1>3 DEF ChannelsNamed

(***************************************************************************)
(* What channel_client_part does to the nodes and to the channels: the     *)
(* node of the client goes on either side if there is one, and a channel   *)
(* that is left without any goes with it.                                  *)
(***************************************************************************)
LEMMA PartNodes ==
    ASSUME TypeOK, MembershipMirrored, NEW c \in Client, NEW ch \in Channel,
           ChannelClientPart(ch, c)
    PROVE  /\ \A d \in Client, h \in Channel :
                 /\ members'[h][d] = IF h = ch /\ d = c THEN 0
                                                        ELSE members[h][d]
                 /\ joined'[d][h] = IF h = ch /\ d = c THEN 0
                                                       ELSE joined[d][h]
           /\ joined'[c] = [joined[c] EXCEPT ![ch] = 0]
           /\ \/ UNCHANGED index /\ (IsEmpty(members'[ch])
                                       => members[ch][c] = 0)
              \/ ChannelDelete(ch) /\ IsEmpty(members'[ch])
                 /\ ch \in channels
<1> USE DEF TypeOK
<1>1. CASE members[ch][c] = 0
  <2>1. UNCHANGED <<index, members, joined>>
    BY <1>1 DEF ChannelClientPart
  <2>2. joined[c][ch] = 0
    BY <1>1 DEF MembershipMirrored
  <2>3. joined'[c] = [joined[c] EXCEPT ![ch] = 0]
    BY <2>1, <2>2
  <2> QED BY <1>1, <2>1, <2>2, <2>3
<1>2. CASE members[ch][c] # 0
  <2>1. members[ch][c] = 1 /\ joined[c][ch] = 1 /\ ch \in channels
    BY <1>2 DEF MembershipMirrored
  <2>2. /\ members' = [members EXCEPT ![ch][c] = 0]
        /\ joined' = [joined EXCEPT ![c][ch] = 0]
        /\ IF IsEmpty(members'[ch]) THEN ChannelDelete(ch)
                                    ELSE UNCHANGED index
    BY <1>2, <2>1 DEF ChannelClientPart
  <2>3. joined'[c] = [joined[c] EXCEPT ![ch] = 0]
    BY <2>2
  <2> QED BY <2>1, <2>2, <2>3
<1> QED BY <1>1, <1>2

\* channel_client_part keeps the two lists mirrored and no channel empty.
LEMMA PartLists ==
    ASSUME TypeOK, Lists, NEW c \in Client, NEW ch \in Channel,
           ChannelClientPart(ch, c), clients' = clients
    PROVE  Lists'
<1> USE DEF Lists
<1>0. /\ \A d \in Client, h \in Channel :
            /\ members'[h][d] = IF h = ch /\ d = c THEN 0 ELSE members[h][d]
            /\ joined'[d][h] = IF h = ch /\ d = c THEN 0 ELSE joined[d][h]
      /\ \/ UNCHANGED index /\ (IsEmpty(members'[ch]) => members[ch][c] = 0)
         \/ ChannelDelete(ch) /\ IsEmpty(members'[ch]) /\ ch \in channels
  BY PartNodes
<1>1. ASSUME NEW d \in Client, NEW h \in Channel
      PROVE  /\ members'[h][d] = IF h = ch /\ d = c THEN 0
                                                    ELSE members[h][d]
             /\ joined'[d][h] = IF h = ch /\ d = c THEN 0 ELSE joined[d][h]
  BY <1>0
<1>2. \/ UNCHANGED index /\ (IsEmpty(members'[ch]) => members[ch][c] = 0)
      \/ ChannelDelete(ch) /\ IsEmpty(members'[ch]) /\ ch \in channels
  BY <1>0
<1>3. /\ \/ channels' = channels
         \/ channels' = channels \ {ch} /\ IsEmpty(members'[ch])
      /\ \A h \in channels' : name'[h] = name[h]
  <2>1. CASE UNCHANGED index
    BY <2>1 DEF index
  <2>2. CASE ChannelDelete(ch) /\ IsEmpty(members'[ch])
    BY <2>2 DEF ChannelDelete, TypeOK
  <2> QED BY <1>2, <2>1, <2>2
<1>4. MembershipMirrored'
  <2> SUFFICES ASSUME NEW h \in Channel, NEW d \in Client
               PROVE  /\ members'[h][d] = joined'[d][h]
                      /\ members'[h][d] \in {0, 1}
                      /\ members'[h][d] = 1 =>
                            h \in channels' /\ d \in clients'
    BY DEF MembershipMirrored
  <2>1. members'[h][d] = 1 => h \in channels'
    <3> SUFFICES ASSUME members'[h][d] = 1 PROVE h \in channels'
      OBVIOUS
    <3>1. h \in channels
      BY <1>1 DEF MembershipMirrored
    <3>2. ~IsEmpty(members'[h])
      BY DEF IsEmpty
    <3> QED BY <1>3, <3>1, <3>2
  <2> QED BY <1>1, <2>1 DEF MembershipMirrored
<1>5. NoEmptyChannel'
  <2> SUFFICES ASSUME NEW h \in channels', IsEmpty(members'[h])
               PROVE  FALSE
    BY DEF NoEmptyChannel, IsEmpty
  <2>1. h \in channels /\ h \in Channel
    BY <1>3 DEF TypeOK
  <2>2. h = ch => members[ch][c] = 0
    BY <1>2 DEF ChannelDelete
  <2>3. \A d \in Client : members[h][d] = 0
    BY <1>1, <2>1, <2>2 DEF IsEmpty
  <2> QED BY <2>1, <2>3 DEF IsEmpty, NoEmptyChannel
<1>6. ChannelsNamed'
  BY <1>3 DEF ChannelsNamed
<1> QED BY <1>4, <1>5, <1>6

LEMMA NextIInv == ASSUME IInv, [Next]_vars, TypeOK' PROVE IInv'
<1> USE DEF IInv
<1>1. ASSUME NEW c \in Client, ClientNew(c) PROVE IInv'
  <2>1. \A ch \in Channel : joined[c][ch] = 0
    BY <1>1 DEF ClientNew, Lists, MembershipMirrored, TypeOK
  <2>2. joined' = joined
    BY <1>1, <2>1 DEF ClientNew, NoNodes, TypeOK
  <2>3. Lists'
    BY <1>1, <2>2 DEF ClientNew, Lists, MembershipMirrored, NoEmptyChannel,
                      IsEmpty, ChannelsNamed, index
  <2>4. WalkComplete'
    BY <1>1 DEF ClientNew, WalkComplete, walk
  <2> QED BY <2>3, <2>4
<1>2. ASSUME NEW c \in Client, NEW n \in Name, NEW ch \in Channel,
             JoinNew(c, n, ch)
      PROVE  IInv'
  <2>1. members[ch][c] = 0
    BY <1>2 DEF JoinNew, Lists, MembershipMirrored
  <2>2. \A h \in channels' : name'[h] \in Name
    BY <1>2 DEF JoinNew, Lists, ChannelsNamed, TypeOK
  <2>3. Lists'
    BY <1>2, <2>1, <2>2, JoinLists DEF JoinNew
  <2>4. WalkComplete'
    BY <1>2 DEF JoinNew, WalkComplete, walk
  <2> QED BY <2>3, <2>4
<1>3. ASSUME NEW c \in Client, NEW n \in Name, NEW ch \in Channel,
             JoinFound(c, n, ch)
      PROVE  IInv'
  <2>1. members[ch][c] = 0
    BY <1>3 DEF JoinFound, AlreadyIn, Lists, MembershipMirrored
  <2>2. channels' = channels \cup {ch}
    BY <1>3 DEF JoinFound, Finds, index
  <2>3. \A h \in channels' : name'[h] \in Name
    BY <1>3 DEF JoinFound, Lists, ChannelsNamed, index
  <2>4. Lists'
    BY <1>3, <2>1, <2>2, <2>3, JoinLists DEF JoinFound
  <2>5. WalkComplete'
    BY <1>3 DEF JoinFound, WalkComplete, walk
  <2> QED BY <2>4, <2>5
<1>4. ASSUME NEW c \in Client, NEW n \in Name, NEW ch \in Channel,
             Part(c, n, ch)
      PROVE  IInv'
  <2>1. Lists'
    BY <1>4, PartLists DEF Part
  <2>2. WalkComplete'
    BY <1>4 DEF Part, WalkComplete, walk
  <2> QED BY <2>1, <2>2
<1>5. ASSUME NEW c \in Client, ClientDelete(c) PROVE IInv'
  BY <1>5 DEF ClientDelete, Lists, MembershipMirrored, NoEmptyChannel,
              IsEmpty, ChannelsNamed, WalkComplete, index
<1>6. ASSUME NEW c \in Client, NEW ch \in Channel, DeleteNext(c, ch)
      PROVE  IInv'
  <2>1. Lists'
    BY <1>6, PartLists DEF DeleteNext
  <2>2. deleting = c /\ deleting' = c /\ ahead = joined[c]
    BY <1>6, ChannelTableAssumption DEF DeleteNext, WalkComplete
  <2>3. joined[c][ch] = 1
    BY <1>6, <2>2 DEF DeleteNext, Lists, MembershipMirrored
  <2>4. ahead' = [joined[c] EXCEPT ![ch] = 0]
    BY <1>6, <2>2, <2>3 DEF DeleteNext, Behind, TypeOK
  <2>5. joined'[c] = [joined[c] EXCEPT ![ch] = 0]
    BY <1>6, PartNodes DEF DeleteNext, Lists
  <2> QED BY <2>1, <2>2, <2>4, <2>5 DEF WalkComplete
<1>7. ASSUME NEW c \in Client, DeleteDone(c) PROVE IInv'
  <2>1. joined[c] = NoNodes
    BY <1>7, ChannelTableAssumption DEF DeleteDone, WalkComplete
  <2>2. \A ch \in Channel : members[ch][c] = 0
    BY <2>1 DEF NoNodes, Lists, MembershipMirrored
  <2>3. Lists'
    BY <1>7, <2>2 DEF DeleteDone, Lists, MembershipMirrored, NoEmptyChannel,
                      IsEmpty, ChannelsNamed, index
  <2>4. WalkComplete'
    BY <1>7 DEF DeleteDone, WalkComplete
  <2> QED BY <2>3, <2>4
<1>8. CASE UNCHANGED vars
  BY <1>8 DEF vars, index, walk, Lists, MembershipMirrored, NoEmptyChannel,
              IsEmpty, ChannelsNamed, WalkComplete
<1> QED BY <1>1, <1>2, <1>3, <1>4, <1>5, <1>6, <1>7, <1>8 DEF Next

LEMMA AlwaysIInv == Spec => []IInv
<1>1. IInv /\ TypeOK' /\ [Next]_vars => IInv'
  BY NextIInv
<1> QED BY <1>1, InitIInv, TypeCorrect, PTL DEF Spec

(***************************************************************************)
(* channel->clients and client->channels always mirror one another, with   *)
(* one node on either side, and point to records in use: the walk of       *)
(* client_delete comes to every node, although channel_client_part frees   *)
(* the nodes under it, and leaves no trace of the client that is freed.    *)
(***************************************************************************)
THEOREM MirrorCorrect == Spec => []MembershipMirrored
<1>1. IInv => MembershipMirrored
  BY DEF IInv, Lists
<1> QED BY <1>1, AlwaysIInv, PTL

(***************************************************************************)
(* Every channel has a client on it: channel_client_part deletes a channel *)
(* with its last client, also in the midst of the walk of client_delete.   *)
(***************************************************************************)
THEOREM ChannelsInhabited == Spec => []NoEmptyChannel
<1>1. IInv => NoEmptyChannel
  BY DEF IInv, Lists
<1> QED BY <1>1, AlwaysIInv, PTL
-----------------------------------------------------------------------------
\* The head of a bucket is a channel whose name falls into that bucket.
HeadsLive ==
    \A b \in Bucket :
       channel_name[b] # NULL =>
          channel_name[b] \in channels /\ Hash[name[channel_name[b]]] = b

\* A channel has a name and is the head of the bucket.
Filed ==
    \A ch \in channels :
       name[ch] \in Name /\ channel_name[Hash[name[ch]]] = ch

\* Nothing follows a channel in its bucket.
NoChains == \A ch \in Channel : name_next[ch] = NULL

Shape == HeadsLive /\ Filed /\ NoChains

IndexInv == ~crowded => Shape

(***************************************************************************)
(* channel_delete empties the bucket of the channel it deletes and does    *)
(* not touch the others.                                                   *)
(***************************************************************************)
LEMMA DeleteShape ==
    ASSUME TypeOK, Shape, NEW ch \in channels, ChannelDelete(ch)
    PROVE  Shape'
<1> USE DEF TypeOK
<1> DEFINE b == Hash[name[ch]]
<1>1. ch \in Channel /\ b \in Bucket /\ channel_name[b] = ch
  BY ChannelTableAssumption DEF Shape, Filed
<1>2. /\ channels' = channels \ {ch}
      /\ channel_name' = [channel_name EXCEPT ![b] = NULL]
      /\ name' = [name EXCEPT ![ch] = NULL]
      /\ name_next' = [name_next EXCEPT ![ch] = NULL]
  BY <1>1 DEF ChannelDelete, Shape, NoChains
<1>3. ASSUME NEW d \in channels, d # ch
      PROVE  /\ name[d] \in Name /\ Hash[name[d]] \in Bucket
             /\ channel_name[Hash[name[d]]] = d /\ Hash[name[d]] # b
  BY <1>1, <1>3, ChannelTableAssumption DEF Shape, Filed
<1> HIDE DEF b
<1>4. HeadsLive'
  <2> SUFFICES ASSUME NEW a \in Bucket, channel_name'[a] # NULL
               PROVE  /\ channel_name'[a] \in channels'
                      /\ Hash[name'[channel_name'[a]]] = a
    BY DEF HeadsLive
  <2>1. a # b /\ channel_name'[a] = channel_name[a]
    BY <1>1, <1>2
  <2>2. channel_name[a] \in channels /\ Hash[name[channel_name[a]]] = a
    BY <2>1 DEF Shape, HeadsLive
  <2>3. channel_name[a] # ch
    BY <2>1, <2>2 DEF b
  <2> QED BY <1>2, <2>1, <2>2, <2>3
<1>5. Filed'
  BY <1>1, <1>2, <1>3 DEF Filed
<1>6. NoChains'
  BY <1>2 DEF Shape, NoChains
<1> QED BY <1>4, <1>5, <1>6 DEF Shape

\* channel_client_part only deletes a channel that is in use.
LEMMA PartShape ==
    ASSUME TypeOK, MembershipMirrored, Shape, NEW c \in Client,
           NEW ch \in Channel, ChannelClientPart(ch, c)
    PROVE  Shape'
<1>1. CASE UNCHANGED index
  BY <1>1 DEF index, Shape, HeadsLive, Filed, NoChains
<1>2. CASE ChannelDelete(ch) /\ ch \in channels
  BY <1>2, DeleteShape
<1> QED BY <1>1, <1>2, PartNodes

LEMMA NextIndexInv == ASSUME IInv, IndexInv, [Next]_vars PROVE IndexInv'
<1> SUFFICES ASSUME ~crowded' PROVE Shape'
  BY DEF IndexInv
<1> USE DEF IndexInv, IInv
<1>1. ~crowded
  BY DEF Next, ClientNew, JoinNew, JoinFound, Part, ClientDelete,
         DeleteNext, DeleteDone, vars
<1>2. ASSUME UNCHANGED index PROVE Shape'
  BY <1>1, <1>2 DEF index, Shape, HeadsLive, Filed, NoChains
<1>3. ASSUME NEW c \in Client, NEW n \in Name, NEW ch \in Channel,
             JoinNew(c, n, ch)
      PROVE  Shape'
  <2> Hash[n] \in Bucket
    BY ChannelTableAssumption
  <2> USE DEF TypeOK
  <2>1. \A d \in channels : Hash[name[d]] # Hash[n]
    BY <1>3 DEF JoinNew
  <2>2. channel_name[Hash[n]] = NULL
    BY <1>1, <2>1 DEF Shape, HeadsLive
  <2>3. /\ channels' = channels \cup {ch} /\ ch \notin channels
        /\ name' = [name EXCEPT ![ch] = n]
        /\ name_next' = [name_next EXCEPT ![ch] = NULL]
        /\ channel_name' = [channel_name EXCEPT ![Hash[n]] = ch]
    BY <1>3, <2>2 DEF JoinNew
  <2>4. HeadsLive'
    BY <1>1, <2>3 DEF Shape, HeadsLive
  <2>5. Filed'
    BY <1>1, <2>1, <2>3, ChannelTableAssumption DEF Shape, Filed
  <2>6. NoChains'
    BY <1>1, <2>3 DEF Shape, NoChains
  <2> QED BY <2>4, <2>5, <2>6 DEF Shape
<1>4. ASSUME NEW c \in Client, NEW n \in Name, NEW ch \in Channel,
             Part(c, n, ch)
      PROVE  Shape'
  BY <1>1, <1>4, PartShape DEF Part, Lists
<1>5. ASSUME NEW c \in Client, NEW ch \in Channel, DeleteNext(c, ch)
      PROVE  Shape'
  BY <1>1, <1>5, PartShape DEF DeleteNext, Lists
<1>6. ASSUME NEW c \in Client,
             ClientNew(c) \/ ClientDelete(c) \/ DeleteDone(c)
      PROVE  Shape'
  BY <1>2, <1>6 DEF ClientNew, ClientDelete, DeleteDone
<1>7. ASSUME NEW c \in Client, NEW n \in Name, NEW ch \in Channel,
             JoinFound(c, n, ch)
      PROVE  Shape'
  BY <1>2, <1>7 DEF JoinFound
<1>8. CASE UNCHANGED vars
  BY <1>2, <1>8 DEF vars
<1> QED BY <1>3, <1>4, <1>5, <1>6, <1>7, <1>8 DEF Next

\* In that shape of the table every lookup is answered, and rightly.
LEMMA ShapeMakesExact ==
    ASSUME TypeOK, Shape PROVE \A n \in Name : Answers(n)
<1> SUFFICES ASSUME NEW n \in Name PROVE Answers(n)
  OBVIOUS
<1> DEFINE head == channel_name[Hash[n]]
           Past == {q \in channels : name[q] # n}
<1> Hash[n] \in Bucket /\ NULL \notin channels
  BY ChannelTableAssumption DEF TypeOK
<1>1. CASE \E ch \in channels : name[ch] = n
  <2>1. PICK ch \in channels : name[ch] = n
    BY <1>1
  <2>2. head = ch /\ ch \notin Past
    BY <2>1 DEF Shape, Filed
  <2>3. Ends(n) = {ch}
    BY <2>2, WalkStopsAtOnce DEF Ends
  <2>4. \A d \in channels : name[d] = n => d = ch
    BY <2>2 DEF Shape, Filed
  <2> QED BY <2>1, <2>3, <2>4 DEF Finds, Answers
<1>2. CASE \A ch \in channels : name[ch] # n
  <2>1. CASE head = NULL
    <3>1. head \notin Past
      BY <2>1
    <3> QED BY <1>2, <2>1, <3>1, WalkStopsAtOnce DEF Ends, FindsNone, Answers
  <2>2. CASE head # NULL
    <3>1. head \in Past /\ name_next[head] = NULL
      BY <1>2, <2>2 DEF TypeOK, Shape, HeadsLive, NoChains
    <3>2. name_next[head] \notin Past
      BY <3>1
    <3> QED BY <1>2, <3>1, <3>2, WalkStopsAtNext
            DEF Ends, FindsNone, Answers
  <2> QED BY <2>1, <2>2
<1> QED BY <1>1, <1>2

LEMMA AlwaysIndexInv == Spec => []IndexInv
<1>1. Init => IndexInv
  BY DEF Init, IndexInv, Shape, HeadsLive, Filed, NoChains
<1>2. IInv /\ IndexInv /\ [Next]_vars => IndexInv'
  BY NextIndexInv
<1> QED BY <1>1, <1>2, AlwaysIInv, PTL DEF Spec

(***************************************************************************)
(* Until two channels share a bucket, a lookup returns the one channel of  *)
(* the name or NULL: channel_create_new and channel_delete keep the index  *)
(* exact, also in the midst of the walk of client_delete.                  *)
(***************************************************************************)
THEOREM IndexCorrect == Spec => []IndexExact
<1>1. TypeOK /\ IndexInv => IndexExact
  BY ShapeMakesExact DEF IndexInv, IndexExact
<1> QED BY <1>1, TypeCorrect, AlwaysIndexInv, PTL

=============================================================================
