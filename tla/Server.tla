------------------------------- MODULE Server -------------------------------
(***************************************************************************)
(* The server as its users see it: the command handlers (commands/*.c),    *)
(* client_callback_disconnect and client_delete over the nickname index    *)
(* (NickTable) and the channels (ChannelTable), and the notices they send. *)
(*                                                                         *)
(* Handlers run to completion in one thread.  A client that is quitting is *)
(* deleted before the event loop turns to another one (SelectLoop,         *)
(* QuittingIsCurrent), so no handler serves anybody else meanwhile.        *)
(*                                                                         *)
(* Names may share a bucket, and the tables then forget records, as        *)
(* NickTable shows.  A lookup that goes round for ever or comes to a freed *)
(* record has no step: what the program does next is not defined.          *)
(*                                                                         *)
(* view is what the program at the other end of a connection makes of the  *)
(* notices, which it gets in the order they were sent (SendQueue,          *)
(* StreamSpec): who is on each channel that it is on.                      *)
(***************************************************************************)
EXTENDS Naturals, FiniteSets

CONSTANTS
    Client,       \* client records
    Channel,      \* channel records
    Nick, Name,   \* nicknames and channel names
    NickBucket, NickHash,
    NameBucket, NameHash,
    AfterQuit,    \* may commands follow QUIT in one chunk of input?
    NULL

ASSUME ServerAssumption ==
    /\ NickHash \in [Nick -> NickBucket]
    /\ NameHash \in [Name -> NameBucket]
    /\ AfterQuit \in BOOLEAN
    /\ IsFiniteSet(Channel)
    /\ NULL \notin Client \cup Channel \cup Nick \cup Name

VARIABLES
    clients, nickname, nickname_next, client_nickname,
    nick_crowded,  \* history: two nicknames in use have shared a bucket
    channels, name, name_next, channel_name, members, joined,
    deleting, ahead,
    name_crowded,  \* history: two channels have shared a bucket
    registered,  \* the clients with registered = 1
    quitting,    \* the clients with quitting = 1
    out,         \* the notice the last handler enqueued, and its copies
    view         \* what each client believes of each channel

Nicks == INSTANCE NickTable
           WITH Bucket <- NickBucket, Hash <- NickHash,
                crowded <- nick_crowded
Chans == INSTANCE ChannelTable
           WITH Bucket <- NameBucket, Hash <- NameHash,
                crowded <- name_crowded

nicks == <<nickname, nickname_next, client_nickname, nick_crowded>>
chans == <<channels, name, name_next, channel_name, members, joined,
           deleting, ahead, name_crowded>>

vars == <<clients, nicks, chans, registered, quitting, out, view>>

-----------------------------------------------------------------------------
(***************************************************************************)
(* Variants with a fault.  Nothing uses them: each one put in the place of *)
(* the definition it varies violates a property of this module.            *)
(***************************************************************************)
ToFirstChannel(c) ==
    LET Mine == {ch \in Channel : joined[c][ch] > 0}
    IN  IF Mine = {} THEN [d \in Client |-> 0]
        ELSE members[CHOOSE ch \in Mine : TRUE]

RegisteredUnchecked(c) == TRUE

SkipNobody(c, to) == to

-----------------------------------------------------------------------------
Notice(kind, from, arg, to) ==
    [kind |-> kind, from |-> from, arg |-> arg, to |-> to]

Nobody == [c \in Client |-> 0]
Quiet == Notice("none", NULL, NULL, Nobody)

\* send_enqueue_channel: one copy for every node of the channel
ToChannel(ch) == members[ch]

\* One buffer for every channel on the list of the client: d gets a copy for
\* each node for a channel on that list and each node for d on the channel.
ToChannelsOf(c) ==
    [d \in Client |->
       Cardinality(UNION {{ch} \X (1..joined[c][ch]) \X (1..members[ch][d]) :
                            ch \in Channel})]

OnChannels(c) == \E ch \in Channel : joined[c][ch] > 0

On(ch) == {c \in Client : members[ch][c] > 0}

-----------------------------------------------------------------------------
(***************************************************************************)
(* What the clients make of a notice they get.                             *)
(***************************************************************************)
Replaced(set, old, new) ==
    IF old \in set THEN (set \ {old}) \cup {new} ELSE set

SeenByOther(seen, notice, n) ==
    CASE notice.kind = "JOIN" /\ notice.arg = n -> seen \cup {notice.from}
      [] notice.kind = "PART" /\ notice.arg = n -> seen \ {notice.from}
      [] notice.kind = "QUIT" -> seen \ {notice.from}
      [] notice.kind = "NICK" -> Replaced(seen, notice.from, notice.arg)
      [] OTHER -> seen

\* The one who joins is sent the names on the channel, who parts drops it.
SeenBySelf(seen, notice, n, listed) ==
    CASE notice.kind = "JOIN" /\ notice.arg = n -> listed
      [] notice.kind = "PART" /\ notice.arg = n -> {}
      [] notice.kind = "NICK" -> Replaced(seen, notice.from, notice.arg)
      [] OTHER -> seen

Heard(c, notice, listed) ==
    /\ out' = notice
    /\ view' = [d \in Client |-> [n \in Name |->
                  IF notice.to[d] = 0 THEN view[d][n]
                  ELSE IF d = c THEN SeenBySelf(view[d][n], notice, n, listed)
                  ELSE SeenByOther(view[d][n], notice, n)]]

\* A handler that enqueues only replies to its client, or nothing
Answered == out' = Quiet /\ UNCHANGED view

-----------------------------------------------------------------------------
Init ==
    /\ Nicks!Init
    /\ Chans!Init
    /\ registered = {}
    /\ quitting = {}
    /\ out = Quiet
    /\ view = [c \in Client |-> [n \in Name |-> {}]]

\* A handler of the client may run: nobody else is quitting, and
\* client_delete is not at work.
Serves(c) == c \in clients /\ quitting \subseteq {c} /\ deleting = NULL

Commands(c) == Serves(c) /\ (AfterQuit \/ c \notin quitting)

\* client_allocate_new
Connect(c) ==
    /\ quitting = {}
    /\ Nicks!AllocateNew(c)
    /\ Chans!ClientNew(c)
    /\ Answered
    /\ UNCHANGED <<registered, quitting>>

(***************************************************************************)
(* command_nick.  433 for a nickname in use; the first one registers the   *)
(* client, a later one is announced to the channels of the client under    *)
(* the old nickname.  Its other early returns only reply.                  *)
(***************************************************************************)
NickTaken(c, n) ==
    /\ Commands(c)
    /\ \E d \in Client : Nicks!Finds(n, d)
    /\ Answered
    /\ UNCHANGED <<clients, nicks, chans, registered, quitting>>

NickFirst(c, n) ==
    /\ Commands(c)
    /\ c \notin registered
    /\ Nicks!SetNickname(c, n)
    /\ registered' = registered \cup {c}
    /\ Answered
    /\ UNCHANGED <<chans, quitting>>

NickChange(c, n) ==
    /\ Commands(c)
    /\ c \in registered
    /\ Nicks!SetNickname(c, n)
    /\ IF OnChannels(c)
         THEN Heard(c, Notice("NICK", nickname[c], n, ToChannelsOf(c)), {})
         ELSE Answered
    /\ UNCHANGED <<chans, registered, quitting>>

(***************************************************************************)
(* command_join: after the client is on the channel, which may be new, the *)
(* notice goes to everybody on it, and the client is sent their nicknames  *)
(* (353).                                                                  *)
(***************************************************************************)
JoinAnnounced(c, n, ch) ==
    Heard(c, Notice("JOIN", nickname[c], n, members'[ch]),
          {nickname[d] : d \in {e \in Client : members'[ch][e] > 0}})

\* The first check of command_join, command_part and command_privmsg (451)
Registered(c) == c \in registered

Join(c, n, ch) ==
    /\ Commands(c)
    /\ Registered(c)
    /\ Chans!JoinNew(c, n, ch) \/ Chans!JoinFound(c, n, ch)
    /\ JoinAnnounced(c, n, ch)
    /\ UNCHANGED <<nicks, registered, quitting>>

\* 451, 403, 401, the list of command_who, a JOIN of a client that is on
Refused(c) ==
    /\ Commands(c)
    /\ Answered
    /\ UNCHANGED <<clients, nicks, chans, registered, quitting>>

(***************************************************************************)
(* command_part: the notice is enqueued before the client is taken off the *)
(* channel, and also when it turns out not to be on it (442).              *)
(***************************************************************************)
Part(c, n, ch) ==
    /\ Commands(c)
    /\ Registered(c)
    /\ Chans!Part(c, n, ch)
    /\ Heard(c, Notice("PART", nickname[c], n, ToChannel(ch)), {})
    /\ UNCHANGED <<nicks, registered, quitting>>

\* command_privmsg to a channel that is found skips the sender.
SkipSender(c, to) == [to EXCEPT ![c] = 0]

PrivmsgChannel(c, n, ch) ==
    /\ Commands(c)
    /\ Registered(c)
    /\ Chans!Finds(n, ch)
    /\ out' = Notice("PRIVMSG", nickname[c], n, SkipSender(c, ToChannel(ch)))
    /\ UNCHANGED <<clients, nicks, chans, registered, quitting, view>>

\* command_privmsg to a nickname that is found
PrivmsgUser(c, n, d) ==
    /\ Commands(c)
    /\ Registered(c)
    /\ Nicks!Finds(n, d)
    /\ out' = Notice("PRIVMSG", nickname[c], n, [Nobody EXCEPT ![d] = 1])
    /\ UNCHANGED <<clients, nicks, chans, registered, quitting, view>>

(***************************************************************************)
(* event_disconnect_client for QUIT, the end of the connection or an       *)
(* error: client_callback_disconnect tells the channels of a registered    *)
(* client.  It may run again before the client is deleted.                 *)
(***************************************************************************)
Disconnect(c) ==
    /\ Serves(c)
    /\ quitting' = {c}
    /\ IF c \in registered /\ OnChannels(c)
         THEN Heard(c, Notice("QUIT", nickname[c], NULL, ToChannelsOf(c)), {})
         ELSE Answered
    /\ UNCHANGED <<clients, nicks, chans, registered>>

(***************************************************************************)
(* client_delete, at the end of the iteration of the event loop: the       *)
(* client leaves its channels one by one, nobody is told, and then goes    *)
(* out of the nickname index and is freed.                                 *)
(***************************************************************************)
Delete(c) ==
    /\ quitting = {c}
    /\ Chans!ClientDelete(c)
    /\ UNCHANGED <<nicks, registered, quitting, out, view>>

DeletePart(c, ch) ==
    /\ Chans!DeleteNext(c, ch)
    /\ out' = Quiet
    /\ UNCHANGED <<nicks, registered, quitting, view>>

DeleteDone(c) ==
    /\ Chans!DeleteDone(c)
    /\ Nicks!Delete(c)
    /\ registered' = registered \ {c}
    /\ quitting' = {}
    /\ out' = Quiet
    /\ view' = [view EXCEPT ![c] = [n \in Name |-> {}]]

Next ==
    \/ \E c \in Client : Connect(c)
    \/ \E c \in Client, n \in Nick : NickTaken(c, n)
    \/ \E c \in Client, n \in Nick : NickFirst(c, n)
    \/ \E c \in Client, n \in Nick : NickChange(c, n)
    \/ \E c \in Client, n \in Name, ch \in Channel : Join(c, n, ch)
    \/ \E c \in Client : Refused(c)
    \/ \E c \in Client, n \in Name, ch \in Channel : Part(c, n, ch)
    \/ \E c \in Client, n \in Name, ch \in Channel : PrivmsgChannel(c, n, ch)
    \/ \E c \in Client, n \in Nick, d \in Client : PrivmsgUser(c, n, d)
    \/ \E c \in Client : Disconnect(c)
    \/ \E c \in Client : Delete(c)
    \/ \E c \in Client, ch \in Channel : DeletePart(c, ch)
    \/ \E c \in Client : DeleteDone(c)

Spec == Init /\ [][Next]_vars

-----------------------------------------------------------------------------
TypeOK ==
    /\ Nicks!TypeOK
    /\ Chans!TypeOK
    /\ registered \subseteq clients
    /\ quitting \subseteq clients
    /\ view \in [Client -> [Name -> SUBSET Nick]]

Crowded == nick_crowded \/ name_crowded

(***************************************************************************)
(* Until two names in use have shared a bucket, every client believes that *)
(* those are on its channels who are, under the nicknames they have now,   *)
(* whatever else happened since it joined.                                 *)
(***************************************************************************)
Actual(ch) == {nickname[d] : d \in On(ch) \ quitting}

ViewsAgree ==
    ~Crowded =>
       \A c \in clients \ quitting, n \in Name :
          \/ /\ \A ch \in channels : name[ch] = n => members[ch][c] = 0
             /\ view[c][n] = {}
          \/ \E ch \in channels : /\ name[ch] = n
                                  /\ members[ch][c] > 0
                                  /\ view[c][n] = Actual(ch)

(***************************************************************************)
(* Whoever is on a channel is registered and has a nickname, which 353,    *)
(* 352 and the notices print without a check - also when the table of      *)
(* nicknames has lost the client.                                          *)
(***************************************************************************)
MembersNamed ==
    \A ch \in Channel, c \in Client :
       members[ch][c] > 0 => c \in registered /\ nickname[c] # NULL

(***************************************************************************)
(* Through all its hash tables and lists the server does what Irc says:    *)
(* unique nicknames, and every notice to exactly its audience.  That holds *)
(* up to the step that first puts two names into one bucket; after it the  *)
(* tables lose records, a nickname can be taken twice, and Irc is not      *)
(* promised any more.                                                      *)
(***************************************************************************)
Audience(n) == UNION {On(ch) : ch \in {h \in channels : name[h] = n}}
Audiences == [n \in Name |-> Audience(n)]

Service ==
    INSTANCE Irc
      WITH users <- clients, leaving <- quitting, nick <- nickname,
           on <- Audiences

IrcSpec == Service!Init /\ [][~Crowded => Service!Next]_(Service!vars)
=============================================================================
