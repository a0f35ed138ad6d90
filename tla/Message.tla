------------------------------- MODULE Message -------------------------------
(***************************************************************************)
(* Lines, messages and handlers (message.c, command_register_handlers, and *)
(* hash of util.c): a line is parsed into a prefix, a command and          *)
(* arguments, and the handlers registered for the command are called.      *)
(*                                                                         *)
(* A string is a sequence of characters.  command_numeric, which nothing   *)
(* reads, is left out.  The specification's own names start with Message:  *)
(* Input_proofs extends this module and LineBuffer.                        *)
(***************************************************************************)
EXTENDS Integers, SequencesExt, Sublist

CONSTANTS
    Char,          \* characters
    Space, Colon,  \* the two that separate the parts of a message
    Code,          \* the code of each character
    Lower,         \* tolower
    Unset,         \* whatever malloc left in message->prefix
    PrefixMax,     \* RFC_PREFIX_MAXLENGTH
    CommandMax,    \* RFC_COMMAND_MAXLENGTH
    ArgumentMax,   \* RFC_MAX_ARGUMENTS
    HashRange,     \* the number of values of an unsigned long
    Buckets,       \* MESSAGE_HANDLER_HASHTABLE_SIZE
    Callback,      \* the handler functions
    Command,       \* the names they are registered for
    MaxHandlers,   \* bound: handlers registered
    MaxLine        \* bound: characters of a line

ASSUME MessageAssumption ==
    /\ {Space, Colon} \subseteq Char /\ Space # Colon
    /\ Code \in [Char -> Nat] /\ Lower \in [Char -> Char]
    /\ \A c \in Char : Lower[c] = Space => c = Space  \* it maps letters only
    /\ Command \subseteq Seq(Char)
    /\ PrefixMax \in Nat /\ CommandMax \in Nat /\ ArgumentMax \in Nat
    /\ HashRange \in Nat \ {0} /\ Buckets \in Nat \ {0}
    /\ MaxHandlers \in Nat /\ MaxLine \in Nat

VARIABLES
    message_handlers,  \* the table: a list of handlers for each bucket
    line,              \* the last line
    called,            \* the handlers the line has called
    too_large,           \* a field of message_data was written past its end
    registered         \* history: the handlers in the order they registered

messageVars == <<message_handlers, line, called, too_large, registered>>

MessageInit ==
    /\ message_handlers = [b \in 0..(Buckets - 1) |-> <<>>]
    /\ line = <<>>
    /\ called = <<>>
    /\ too_large = FALSE
    /\ registered = <<>>

-----------------------------------------------------------------------------
(***************************************************************************)
(* Variants with a fault.  Nothing uses them: each one put in the place of *)
(* the definition it varies violates a property of this module.            *)
(***************************************************************************)
SameBucket(command, handler) == TRUE

BehindTwo(s, i) == IF i < Len(s) THEN i + 2 ELSE Len(s) + 1

HandlerSwapped(command, callback) ==
    [command |-> callback, callback |-> command]

-----------------------------------------------------------------------------
\* strchr(s + i - 1, ' '), or the end of the string, one behind its last
NextSpace(s, i) ==
    LET spaces == {j \in i..Len(s) : s[j] = Space}
    IN  IF spaces = {} THEN Len(s) + 1 ELSE Min(spaces)

\* "Move behind the space, if any"
Behind(s, i) == IF i <= Len(s) THEN i + 1 ELSE i

(***************************************************************************)
(* The arguments from position i of the line on: up to the next space      *)
(* each, and all that is left when it starts with a colon.                 *)
(***************************************************************************)
Arguments(s) ==
    LET args[i \in 1..(Len(s) + 1)] ==
          IF i > Len(s) THEN <<>>
          ELSE IF s[i] = Colon THEN <<SubSeq(s, i + 1, Len(s))>>
          ELSE <<SubSeq(s, i, NextSpace(s, i) - 1)>>
                 \o args[Behind(s, NextSpace(s, i))]
    IN  args

Lowered(s) == [i \in DOMAIN s |-> Lower[s[i]]]

HasPrefix(s) == s # <<>> /\ s[1] = Colon

\* message_parse returns NULL for a prefix that no space ends.
Parses(s) == HasPrefix(s) => NextSpace(s, 2) <= Len(s)

message_parse(s) ==
    LET prefix_end == NextSpace(s, 2)
        start == IF HasPrefix(s) THEN prefix_end + 1 ELSE 1
        end == NextSpace(s, start)
    IN  [prefix |-> IF ~HasPrefix(s) THEN Unset
                    ELSE SubSeq(s, 2, IF prefix_end - 2 > PrefixMax
                                        THEN PrefixMax + 1
                                        ELSE prefix_end - 1),
         command |-> Lowered(SubSeq(s, start, end - 1)),
         argv |-> Arguments(s)[Behind(s, end)]]

\* command and argv are filled without a look at their size.
TooLarge(message) ==
    Len(message.command) > CommandMax \/ Len(message.argv) > ArgumentMax

-----------------------------------------------------------------------------
\* djb2, in an unsigned long
hash(string) ==
    LET h[i \in 0..Len(string)] ==
          IF i = 0 THEN 5381 ELSE (h[i - 1] * 33 + Code[string[i]]) % HashRange
    IN  h[Len(string)]

Bucket(command) == hash(command) % Buckets

Handlers == [command : Command, callback : Callback]

Handler(command, callback) == [command |-> command, callback |-> callback]

\* message_register_handler, before the event loop starts
message_register_handler(command, callback) ==
    /\ line = <<>>
    /\ Len(registered) < MaxHandlers
    /\ message_handlers' =
         [message_handlers EXCEPT ![Bucket(command)] =
            Append(@, Handler(command, callback))]
    /\ registered' = Append(registered, <<command, callback>>)
    /\ UNCHANGED <<line, called, too_large>>

\* strcmp
IsFor(command, handler) == handler.command = command

\* message_dispatch_command: every handler in the bucket with this command
message_dispatch_command(command) ==
    LET bucket == message_handlers[Bucket(command)]
        found == Among(bucket, {h \in Handlers : IsFor(command, h)})
    IN  [k \in DOMAIN found |-> found[k].callback]

(***************************************************************************)
(* client_callback_data_in with a line: the message is parsed, dispatched  *)
(* and deleted.  Nothing is called for a NULL message.  A line leaves      *)
(* nothing behind but what its handlers do: one for each table is enough.  *)
(***************************************************************************)
Handle(s) ==
    /\ line = <<>>
    /\ line' = s
    /\ too_large' = (Parses(s) /\ TooLarge(message_parse(s)))
    /\ called' = IF Parses(s) /\ ~too_large'
                   THEN message_dispatch_command(message_parse(s).command)
                   ELSE <<>>
    /\ UNCHANGED <<message_handlers, registered>>

MessageNext ==
    \/ \E command \in Command, callback \in Callback :
          message_register_handler(command, callback)
    \/ \E n \in 0..MaxLine : \E s \in [1..n -> Char] : Handle(s)

MessageSpec == MessageInit /\ [][MessageNext]_messageVars

-----------------------------------------------------------------------------
MessageTypeOK ==
    /\ message_handlers \in [0..(Buckets - 1) -> Seq(Handlers)]
    /\ line \in Seq(Char)
    /\ called \in Seq(Callback)
    /\ too_large \in BOOLEAN
    /\ registered \in Seq(Command \X Callback)

(***************************************************************************)
(* message_parse takes a line apart into all of its parts: the prefix, if  *)
(* there is one, the command and the arguments, written out again with one *)
(* space in front of each argument, give the line, with or without a last  *)
(* space; and the parts are parts, not pieces or runs of them.  Only the   *)
(* last argument may be written behind a colon and contain spaces.         *)
(*                                                                         *)
(* This is the form of line that the code takes, and not the grammar of    *)
(* RFC 1459, where any number of spaces separates two arguments and none   *)
(* but the last can be empty: here every further space stands for an empty *)
(* argument, and the command and the prefix can be empty too.  Nothing is  *)
(* said of the prefix of a line that has none.                             *)
(***************************************************************************)
Written(args, trailing) ==
    FlattenSeq([k \in DOMAIN args |->
       (IF k = Len(args) /\ trailing THEN <<Space, Colon>> ELSE <<Space>>)
         \o args[k]])

IsWord(s) == Space \notin ToSet(s)
IsMiddle(s) == IsWord(s) /\ (s = <<>> \/ Head(s) # Colon)

\* The parts m stand for the string s.
Derives(s, m) ==
    \E n \in 0..Len(s), trailing \in BOOLEAN, last \in {<<>>, <<Space>>} :
       LET prefix == SubSeq(s, 1, n)
           command_end == n + Len(m.command)
       IN  /\ IF HasPrefix(s)
                THEN /\ n >= 2 /\ s[n] = Space /\ IsWord(SubSeq(s, 1, n - 1))
                     /\ m.prefix =
                          SubSeq(s, 2, IF n > PrefixMax + 2 THEN PrefixMax + 1
                                                            ELSE n - 1)
                ELSE n = 0
           /\ IsWord(m.command)
           /\ m.command = Lowered(SubSeq(s, n + 1, command_end))
           /\ \A k \in DOMAIN m.argv :
                 k < Len(m.argv) \/ ~trailing => IsMiddle(m.argv[k])
           /\ SubSeq(s, command_end + 1, Len(s)) =
                Written(m.argv, trailing) \o last

ParseDerives == Parses(line) => Derives(line, message_parse(line))

(***************************************************************************)
(* A line calls the handlers that were registered for its command, in any  *)
(* case of letters, each as often as and in the order it was registered,   *)
(* and no others, whichever of them share a bucket.                        *)
(***************************************************************************)
HandlersExact ==
    LET wanted ==
          Among(registered, {message_parse(line).command} \X Callback)
    IN  line # <<>> /\ Parses(line) /\ ~too_large =>
           called = [k \in DOMAIN wanted |-> wanted[k][2]]
=============================================================================
