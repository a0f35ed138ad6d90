-------------------------------- MODULE Irc --------------------------------
(***************************************************************************)
(* What the server promises its users, without records, lists and hash     *)
(* tables: nicknames are held by one client each, a channel is the set of  *)
(* clients on it, and every command has a definite audience.               *)
(***************************************************************************)
EXTENDS Naturals, FiniteSets

CONSTANTS Client, Nick, Name, NULL

VARIABLES
    users,    \* the clients connected
    leaving,  \* those that are being disconnected
    nick,     \* the nickname of each client, or NULL
    on,       \* the clients on each channel
    out       \* the notice the last command sent, and its audience

vars == <<users, leaving, nick, on, out>>

Nobody == [c \in Client |-> 0]
Once(S) == [c \in Client |-> IF c \in S THEN 1 ELSE 0]

Notice(kind, from, arg, to) ==
    [kind |-> kind, from |-> from, arg |-> arg, to |-> to]

Quiet == Notice("none", NULL, NULL, Nobody)

Init ==
    /\ users = {}
    /\ leaving = {}
    /\ nick = [c \in Client |-> NULL]
    /\ on = [n \in Name |-> {}]
    /\ out = Quiet

Registered(c) == nick[c] # NULL
Free(n) == \A c \in users : nick[c] # n

\* One copy for every channel shared with c
Sharers(c) ==
    [d \in Client |-> Cardinality({n \in Name : {c, d} \subseteq on[n]})]

\* Commands of one client are served at a time.
Serves(c) == c \in users /\ leaving \subseteq {c}

Connect(c) ==
    /\ c \notin users
    /\ users' = users \cup {c}
    /\ out' = Quiet
    /\ UNCHANGED <<leaving, nick, on>>

TakeNick(c, n) ==
    /\ Serves(c)
    /\ Free(n)
    /\ nick' = [nick EXCEPT ![c] = n]
    /\ out' = IF Registered(c) /\ \E ch \in Name : c \in on[ch]
                THEN Notice("NICK", nick[c], n, Sharers(c))
                ELSE Quiet
    /\ UNCHANGED <<users, leaving, on>>

\* A command that only gets its sender a reply
Answered(c) ==
    /\ Serves(c)
    /\ out' = Quiet
    /\ UNCHANGED <<users, leaving, nick, on>>

Join(c, n) ==
    /\ Serves(c) /\ Registered(c)
    /\ c \notin on[n]
    /\ on' = [on EXCEPT ![n] = @ \cup {c}]
    /\ out' = Notice("JOIN", nick[c], n, Once(on'[n]))
    /\ UNCHANGED <<users, leaving, nick>>

\* The clients on a channel hear of a PART, also when c is not on it.
Part(c, n) ==
    /\ Serves(c) /\ Registered(c)
    /\ on[n] # {}
    /\ on' = [on EXCEPT ![n] = @ \ {c}]
    /\ out' = Notice("PART", nick[c], n, Once(on[n]))
    /\ UNCHANGED <<users, leaving, nick>>

TellChannel(c, n) ==
    /\ Serves(c) /\ Registered(c)
    /\ on[n] # {}
    /\ out' = Notice("PRIVMSG", nick[c], n, Once(on[n] \ {c}))
    /\ UNCHANGED <<users, leaving, nick, on>>

TellUser(c, d) ==
    /\ Serves(c) /\ Registered(c)
    /\ d \in users /\ Registered(d)
    /\ out' = Notice("PRIVMSG", nick[c], nick[d], Once({d}))
    /\ UNCHANGED <<users, leaving, nick, on>>

Disconnect(c) ==
    /\ Serves(c)
    /\ leaving' = {c}
    /\ out' = IF Registered(c) /\ \E ch \in Name : c \in on[ch]
                THEN Notice("QUIT", nick[c], NULL, Sharers(c))
                ELSE Quiet
    /\ UNCHANGED <<users, nick, on>>

\* A client that is being disconnected leaves its channels one by one, ...
Leaves(c, n) ==
    /\ leaving = {c}
    /\ on' = [on EXCEPT ![n] = @ \ {c}]
    /\ out' = Quiet
    /\ UNCHANGED <<users, leaving, nick>>

\* ... and is gone when it is on none.
Gone(c) ==
    /\ leaving = {c}
    /\ \A n \in Name : c \notin on[n]
    /\ leaving' = {}
    /\ users' = users \ {c}
    /\ nick' = [nick EXCEPT ![c] = NULL]
    /\ out' = Quiet
    /\ UNCHANGED on

Next ==
    \E c \in Client :
       \/ Connect(c) \/ Answered(c) \/ Disconnect(c) \/ Gone(c)
       \/ \E n \in Nick : TakeNick(c, n)
       \/ \E n \in Name : \/ Join(c, n) \/ Part(c, n) \/ Leaves(c, n)
                          \/ TellChannel(c, n)
       \/ \E d \in Client : TellUser(c, d)

Spec == Init /\ [][Next]_vars
=============================================================================
