---------------------------- MODULE ChannelTable ----------------------------
(***************************************************************************)
(* Channels and who is on them (channel.c, and client_channel_join,        *)
(* client_channel_part and client_delete of client.c): the channel_data    *)
(* records, the hash table channel_name that chains them, and the two      *)
(* lists that record a membership, channel->clients and client->channels.  *)
(*                                                                         *)
(* A list is modelled by the number of its nodes that point to each        *)
(* record, so that a node added twice or left behind shows; its order is   *)
(* left out.  As in NickTable a record is an address, an address that was  *)
(* freed can be allocated again, and name_prev is always NULL.             *)
(*                                                                         *)
(* client_delete walks over client->channels while channel_client_part     *)
(* takes nodes off that list and off others and frees them.  Each round of *)
(* the loop is a step; the program has one thread, so that nothing else    *)
(* happens until the walk is over.                                         *)
(***************************************************************************)
EXTENDS Naturals, BucketChain

CONSTANTS
    Client,     \* addresses a client_data record can have
    Channel,    \* addresses a channel_data record can have
    Name,       \* the channel names
    Bucket,     \* indices of the table: CHANNEL_HASHTABLE_SIZE of them
    Hash,       \* hash(name) % CHANNEL_HASHTABLE_SIZE
    NULL

ASSUME ChannelTableAssumption ==
    /\ Hash \in [Name -> Bucket]
    /\ NULL \notin Client \cup Channel \cup Name

VARIABLES
    clients,       \* the client records allocated and not yet freed
    channels,      \* the channel records allocated and not yet freed
    name,          \* channel->name
    name_next,     \* channel->name_next
    channel_name,  \* the table: the head of each bucket
    members,       \* members[ch][c]: nodes for c in channel->clients
    joined,        \* joined[c][ch]: nodes for ch in client->channels
    deleting,      \* the client that client_delete is at work on, or NULL
    ahead,         \* ahead[ch]: nodes for ch that its walk will come to
    crowded        \* history: two channels have shared a bucket

index == <<channels, name, name_next, channel_name>>

walk == <<deleting, ahead>>

vars == <<clients, index, members, joined, walk, crowded>>

NoNodes == [ch \in Channel |-> 0]

Init ==
    /\ clients = {}
    /\ channels = {}
    /\ name = [ch \in Channel |-> NULL]
    /\ name_next = [ch \in Channel |-> NULL]
    /\ channel_name = [b \in Bucket |-> NULL]
    /\ members = [ch \in Channel |-> [c \in Client |-> 0]]
    /\ joined = [c \in Client |-> NoNodes]
    /\ deleting = NULL
    /\ ahead = NoNodes
    /\ crowded = FALSE

-----------------------------------------------------------------------------
(***************************************************************************)
(* Variants with a fault.  Nothing uses them: each one put in the place of *)
(* the definition it varies violates a property of this module.            *)
(***************************************************************************)
ChannelDeleteNever(ch) == UNCHANGED index

ChannelDeleteLinked(ch) ==
    /\ channels' = channels \ {ch}
    /\ UNCHANGED <<name, name_next, channel_name>>

BehindFreed(ch) == NoNodes

ClientNewUnset(c) ==
    /\ deleting = NULL
    /\ c \notin clients
    /\ clients' = clients \cup {c}
    /\ joined' = [joined EXCEPT ![c] = NULL]
    /\ crowded' = crowded
    /\ UNCHANGED <<index, members, walk>>

-----------------------------------------------------------------------------
(***************************************************************************)
(* Where the loop of channel_hashtable_find stops: it steps past the       *)
(* channels with another name.                                             *)
(***************************************************************************)
Ends(n) ==
    WalkEnds(channel_name[Hash[n]], name_next, {q \in channels : name[q] # n})

\* channel_hashtable_find(n) returns NULL, or it returns ch.
FindsNone(n) == Ends(n) = {NULL}
Finds(n, ch) == ch \in channels /\ name[ch] = n /\ Ends(n) = {ch}

IsEmpty(nodes) == \A c \in Client : nodes[c] = 0

(***************************************************************************)
(* channel_delete: the channel is unlinked from the list of channels and   *)
(* from its bucket, whose head becomes the record that follows it, and is  *)
(* freed.  It is only called for a channel without a node, so that its     *)
(* loop that removes all clients has none to remove.                       *)
(***************************************************************************)
ChannelDelete(ch) ==
    /\ channels' = channels \ {ch}
    /\ channel_name' = [channel_name EXCEPT ![Hash[name[ch]]] = name_next[ch]]
    /\ name' = [name EXCEPT ![ch] = NULL]
    /\ name_next' = [name_next EXCEPT ![ch] = NULL]

(***************************************************************************)
(* channel_client_part: when the client is on the channel, one node goes   *)
(* on either side, and the channel is deleted with its last node.          *)
(***************************************************************************)
ChannelClientPart(ch, c) ==
    IF members[ch][c] = 0
      THEN UNCHANGED <<index, members, joined>>
      ELSE /\ members' = [members EXCEPT ![ch][c] = @ - 1]
           /\ joined' = [joined EXCEPT ![c][ch] = IF @ > 0 THEN @ - 1 ELSE 0]
           /\ IF IsEmpty(members'[ch]) THEN ChannelDelete(ch)
                                       ELSE UNCHANGED index

\* channel_client_join and client_channel_join: a node on either side
AddMember(ch, c) ==
    /\ members' = [members EXCEPT ![ch][c] = @ + 1]
    /\ joined' = [joined EXCEPT ![c][ch] = @ + 1]

-----------------------------------------------------------------------------
\* client_allocate_new
ClientNew(c) ==
    /\ deleting = NULL
    /\ c \notin clients
    /\ clients' = clients \cup {c}
    /\ joined' = [joined EXCEPT ![c] = NoNodes]
    /\ crowded' = crowded
    /\ UNCHANGED <<index, members, walk>>

(***************************************************************************)
(* command_join for a name that is not found: channel_create_new, then     *)
(* channel_client_join.                                                    *)
(***************************************************************************)
JoinNew(c, n, ch) ==
    /\ deleting = NULL
    /\ c \in clients
    /\ FindsNone(n)
    /\ ch \in Channel \ channels
    /\ channels' = channels \cup {ch}
    /\ name' = [name EXCEPT ![ch] = n]
    /\ name_next' = [name_next EXCEPT ![ch] = channel_name[Hash[n]]]
    /\ channel_name' = [channel_name EXCEPT ![Hash[n]] = ch]
    /\ crowded' = (crowded \/ \E d \in channels : Hash[name[d]] = Hash[n])
    /\ AddMember(ch, c)
    /\ UNCHANGED <<clients, walk>>

\* The loop in command_join that looks for the client on the channel
AlreadyIn(ch, c) == members[ch][c] > 0

\* command_join for a channel that is found and that the client is not on
JoinFound(c, n, ch) ==
    /\ deleting = NULL
    /\ c \in clients
    /\ Finds(n, ch)
    /\ ~AlreadyIn(ch, c)
    /\ AddMember(ch, c)
    /\ crowded' = crowded
    /\ UNCHANGED <<clients, index, walk>>

\* command_part for a channel that is found
Part(c, n, ch) ==
    /\ deleting = NULL
    /\ c \in clients
    /\ Finds(n, ch)
    /\ ChannelClientPart(ch, c)
    /\ crowded' = crowded
    /\ UNCHANGED <<clients, walk>>

(***************************************************************************)
(* client_delete, as far as it concerns channels: the walk begins at the   *)
(* first node of client->channels ...                                      *)
(***************************************************************************)
ClientDelete(c) ==
    /\ deleting = NULL
    /\ c \in clients
    /\ deleting' = c
    /\ ahead' = joined[c]
    /\ crowded' = crowded
    /\ UNCHANGED <<clients, index, members, joined>>

\* What follows the node at hand, which the loop reads before it goes on to
\* free the node
Behind(ch) == [ahead EXCEPT ![ch] = @ - 1]

\* ... channel_client_part is called for the channel of each node ...
DeleteNext(c, ch) ==
    /\ deleting = c
    /\ ahead[ch] > 0
    /\ ahead' = Behind(ch)
    /\ ChannelClientPart(ch, c)
    /\ crowded' = crowded
    /\ UNCHANGED <<clients, deleting>>

\* ... and when the walk has come to the end the client is freed.
DeleteDone(c) ==
    /\ deleting = c
    /\ ahead = NoNodes
    /\ clients' = clients \ {c}
    /\ deleting' = NULL
    /\ crowded' = crowded
    /\ UNCHANGED <<index, members, joined, ahead>>

Next ==
    \/ \E c \in Client : ClientNew(c)
    \/ \E c \in Client, n \in Name, ch \in Channel : JoinNew(c, n, ch)
    \/ \E c \in Client, n \in Name, ch \in Channel : JoinFound(c, n, ch)
    \/ \E c \in Client, n \in Name, ch \in Channel : Part(c, n, ch)
    \/ \E c \in Client : ClientDelete(c)
    \/ \E c \in Client, ch \in Channel : DeleteNext(c, ch)
    \/ \E c \in Client : DeleteDone(c)

Spec == Init /\ [][Next]_vars

-----------------------------------------------------------------------------
TypeOK ==
    /\ clients \subseteq Client
    /\ channels \subseteq Channel
    /\ name \in [Channel -> Name \cup {NULL}]
    /\ name_next \in [Channel -> Channel \cup {NULL}]
    /\ channel_name \in [Bucket -> Channel \cup {NULL}]
    /\ members \in [Channel -> [Client -> Nat]]
    /\ joined \in [Client -> [Channel -> Nat]]
    /\ deleting \in clients \cup {NULL}
    /\ ahead \in [Channel -> Nat]
    /\ crowded \in BOOLEAN

(***************************************************************************)
(* The two lists of a membership agree: a client is on the list of a       *)
(* channel exactly when the channel is on the list of the client, with one *)
(* node each, and neither list points to a record that was freed - the     *)
(* walk of client_delete over a list that shrinks under it misses nobody.  *)
(***************************************************************************)
MembershipMirrored ==
    \A ch \in Channel, c \in Client :
       /\ members[ch][c] = joined[c][ch]
       /\ members[ch][c] \in {0, 1}
       /\ members[ch][c] = 1 => ch \in channels /\ c \in clients

(***************************************************************************)
(* A channel exists as long as somebody is on it.  command_nick and        *)
(* client_callback_disconnect hand one buffer to several channels and      *)
(* would go on using a freed one if send_enqueue_channel met an empty one. *)
(***************************************************************************)
NoEmptyChannel == \A ch \in channels : ~IsEmpty(members[ch])

\* The lookup of n returns the one record that has n, or NULL for none.
Answers(n) ==
    \/ FindsNone(n) /\ \A ch \in channels : name[ch] # n
    \/ \E ch \in channels :
          /\ Finds(n, ch)
          /\ \A d \in channels : name[d] = n => d = ch

(***************************************************************************)
(* As long as no two channels have shared a bucket, channel_hashtable_find *)
(* answers for every name, it returns the one channel of that name, and    *)
(* NULL when there is none.                                                *)
(***************************************************************************)
IndexExact == ~crowded => \A n \in Name : Answers(n)
=============================================================================
