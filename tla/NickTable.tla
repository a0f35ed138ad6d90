----------------------------- MODULE NickTable -----------------------------
(***************************************************************************)
(* The nickname index of the server (client.c): the client_data records,   *)
(* their nickname and nickname_next fields, and the hash table             *)
(* client_nickname that chains them.                                       *)
(*                                                                         *)
(* A record is an address.  malloc may return an address that was freed,   *)
(* and a pointer to a freed record stays where it is.  The field           *)
(* nickname_prev is NULL from client_allocate_new on, nothing in the       *)
(* program ever assigns it, so the first branch of                         *)
(* client_nickname_hashtable_remove is the only one that runs.             *)
(***************************************************************************)
EXTENDS BucketChain

CONSTANTS
    Client,     \* addresses a client_data record can have
    Nick,       \* the nicknames
    Bucket,     \* indices of the table: CLIENT_NICKNAME_HASHTABLE_SIZE of them
    Hash,       \* hash(nickname) % CLIENT_NICKNAME_HASHTABLE_SIZE
    NULL

ASSUME NickTableAssumption ==
    /\ Hash \in [Nick -> Bucket]
    /\ NULL \notin Client \cup Nick

VARIABLES
    clients,         \* the records allocated and not yet freed
    nickname,        \* client->nickname
    nickname_next,   \* client->nickname_next
    client_nickname, \* the table: the head of each bucket
    crowded          \* history: two nicknames in use have shared a bucket

vars == <<clients, nickname, nickname_next, client_nickname, crowded>>

Init ==
    /\ clients = {}
    /\ nickname = [c \in Client |-> NULL]
    /\ nickname_next = [c \in Client |-> NULL]
    /\ client_nickname = [b \in Bucket |-> NULL]
    /\ crowded = FALSE

-----------------------------------------------------------------------------
(***************************************************************************)
(* Variants with a fault.  Nothing uses them: each one put in the place of *)
(* the definition it varies violates a property of this module.            *)
(***************************************************************************)
UnlinkedNever(c) == client_nickname

NextOfDropped(table, c, n) == nickname_next

AllocateNewUnset(c) ==
    /\ c \notin clients
    /\ clients' = clients \cup {c}
    /\ nickname' = [nickname EXCEPT ![c] = c]
    /\ crowded' = crowded
    /\ UNCHANGED <<nickname_next, client_nickname>>

-----------------------------------------------------------------------------
(***************************************************************************)
(* Where the loop of client_nickname_hashtable_find stops.  It steps past  *)
(* the records whose nickname is another one; strcmp cannot be called on a *)
(* record that was freed or whose nickname is NULL.                        *)
(***************************************************************************)
Ends(n) ==
    WalkEnds(client_nickname[Hash[n]], nickname_next,
             {q \in clients : nickname[q] \notin {n, NULL}})

\* client_nickname_hashtable_find(n) returns NULL, or it returns c.
FindsNone(n) == Ends(n) = {NULL}
Finds(n, c) == c \in clients /\ nickname[c] = n /\ Ends(n) = {c}

(***************************************************************************)
(* client_nickname_hashtable_remove: the head of the bucket becomes the    *)
(* record that follows client, whatever was in front of client.            *)
(***************************************************************************)
Unlinked(c) ==
    IF nickname[c] = NULL
      THEN client_nickname
      ELSE [client_nickname EXCEPT ![Hash[nickname[c]]] = nickname_next[c]]

(***************************************************************************)
(* client_nickname_hashtable_add, on a table the record was removed from:  *)
(* client becomes the head; its nickname_next is set only when the bucket  *)
(* is not empty, and keeps its old value otherwise.                        *)
(***************************************************************************)
Linked(table, c, n) == [table EXCEPT ![Hash[n]] = c]

NextOf(table, c, n) ==
    IF table[Hash[n]] = NULL
      THEN nickname_next
      ELSE [nickname_next EXCEPT ![c] = table[Hash[n]]]

-----------------------------------------------------------------------------
\* client_allocate_new
AllocateNew(c) ==
    /\ c \notin clients
    /\ clients' = clients \cup {c}
    /\ nickname' = [nickname EXCEPT ![c] = NULL]
    /\ nickname_next' = [nickname_next EXCEPT ![c] = NULL]
    /\ crowded' = crowded
    /\ UNCHANGED client_nickname

\* Another client has a nickname of the bucket of n.
Shared(c, n) ==
    \E d \in clients \ {c} : nickname[d] # NULL /\ Hash[nickname[d]] = Hash[n]

(***************************************************************************)
(* client_set_nickname, called by command_nick: only for a nickname that   *)
(* client_nickname_hashtable_find does not find.                           *)
(***************************************************************************)
SetNickname(c, n) ==
    /\ c \in clients
    /\ FindsNone(n)
    /\ nickname' = [nickname EXCEPT ![c] = n]
    /\ nickname_next' = NextOf(Unlinked(c), c, n)
    /\ client_nickname' = Linked(Unlinked(c), c, n)
    /\ crowded' = (crowded \/ Shared(c, n))
    /\ UNCHANGED clients

(***************************************************************************)
(* client_delete, as far as it concerns the index.  The record is freed:   *)
(* its fields are reset here because no step reads them any more, a walk   *)
(* that reaches the address stops.                                         *)
(***************************************************************************)
Delete(c) ==
    /\ c \in clients
    /\ clients' = clients \ {c}
    /\ client_nickname' = Unlinked(c)
    /\ nickname' = [nickname EXCEPT ![c] = NULL]
    /\ nickname_next' = [nickname_next EXCEPT ![c] = NULL]
    /\ crowded' = crowded

Next ==
    \/ \E c \in Client : AllocateNew(c)
    \/ \E c \in Client, n \in Nick : SetNickname(c, n)
    \/ \E c \in Client : Delete(c)

Spec == Init /\ [][Next]_vars

-----------------------------------------------------------------------------
TypeOK ==
    /\ clients \subseteq Client
    /\ nickname \in [Client -> Nick \cup {NULL}]
    /\ nickname_next \in [Client -> Client \cup {NULL}]
    /\ client_nickname \in [Bucket -> Client \cup {NULL}]
    /\ crowded \in BOOLEAN

\* The lookup of n returns the one record that has n, or NULL for none.
Answers(n) ==
    \/ FindsNone(n) /\ \A c \in clients : nickname[c] # n
    \/ \E c \in clients :
          /\ Finds(n, c)
          /\ \A d \in clients : nickname[d] = n => d = c

(***************************************************************************)
(* As long as no two nicknames in use have shared a bucket,                *)
(* client_nickname_hashtable_find answers for every nickname, it returns   *)
(* the one client that has the nickname, and NULL when there is none: no   *)
(* nickname is held twice, no client is missing from the table, and no     *)
(* walk meets a freed record or turns in circles.  command_nick and        *)
(* command_privmsg rely on it.                                             *)
(***************************************************************************)
IndexExact == ~crowded => \A n \in Nick : Answers(n)

(***************************************************************************)
(* A client that takes a nickname is found under it at once, and when it   *)
(* is the client's first nickname, everybody who could be found before can *)
(* still be found: client_nickname_hashtable_add loses no entry.           *)
(***************************************************************************)
AddHidesNobody ==
    [][\A c \in Client, n \in Nick :
          SetNickname(c, n) =>
             /\ Finds(n, c)'
             /\ nickname[c] = NULL =>
                   \A m \in Nick, d \in clients :
                      Finds(m, d) => Finds(m, d)']_vars

(***************************************************************************)
(* Deleting a client takes that client out of the index and nobody else:   *)
(* client.c:87 calls the step "Remove from nickname hashtable".            *)
(***************************************************************************)
RemovalKeepsOthers ==
    [][\A c \in Client :
          Delete(c) =>
             \A m \in Nick, d \in clients \ {c} :
                Finds(m, d) => Finds(m, d)']_vars
=============================================================================
