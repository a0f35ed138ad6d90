# BanskaBystrica: TLA+ models, checks and proofs

BanskaBystrica is an IRC server in C: one process, one thread, non-blocking
sockets, an event loop over `select` (or `epoll`), in-memory tables of clients
and channels, and reference-counted outgoing buffers. This directory holds TLA+
models of that code, the TLC configurations that check them on small instances,
and TLAPS proofs of the theorems that hold for every instance.

Paths such as `client.c:249` are relative to the source directory `src/src`.

To run a model: `tlc -config X.cfg MC<module>.tla`; to check the proofs:
`tlapm <module>_proofs.tla`. `PROJECT.json` lists components, runs, the code
every definition translates, the hazards and the theorems.

## 1. The system

| Component | Files | State | Operations |
|---|---|---|---|
| Nickname index | `client.c` | list of `client_data` records, `nickname`, `nickname_next`, `nickname_prev`, table `client_nickname` | `client_allocate_new`, `client_set_nickname`, `client_delete`, hash table add / remove / find |
| Channels and memberships | `channel.c`, `client.c` | list of `channel_data`, table `channel_name`, `channel->clients`, `client->channels` | create, delete, join, part, find |
| Send queues | `send.c` | `send_message_buffer` with `gc_count`, per client `send_queue_start` / `send_queue_end`, `buffer_position` | create, enqueue to client / channel, release, delete queue, write callback |
| Event loop (select), signals | `event_select.c`, `event.c`, `signal.c`, `socket.c` | fd sets, `clients[fd]`, `quitting`, `event_shutting_down` | accept, read, write, disconnect, delete, SIGINT |
| Event loop (epoll) | `event_epoll.c`, `event.c`, `socket.c` | event array, record pointers kept by the kernel, the edge-triggered interest list | accept, read, disconnect, delete, flush of all queues, SIGINT |
| Line assembly | `client_callback_data_in` | `line_buffer`, `line_buffer_pos` | split a byte stream into lines |
| Message parser | `message.c`, `message.h`, `rfc.h` | none | `message_parse`, `message_delete` |
| Command handlers | `commands/*.c`, `client_callback_disconnect` | `registered`, and the tables | NICK, USER, JOIN, PART, WHO, PRIVMSG, QUIT |
| Handler registries | `event.c`, `message.c`, `commands.c`, `util.c` | a hash table of command handlers, a list of event handlers, filled at start | register, dispatch |
| Startup, options | `main.c`, `options.c`, `socket.c` | none after start | parse options, bind, listen |
| Utilities | `util.c`, `common.h` | verbosity | printing, backtraces, `hash` |

**How they interact.** The loop waits for descriptors, accepts connections
(which allocates a client record) and for each ready client reads, writes and,
when the client is `quitting`, deletes it. What is read goes through line
assembly, the parser and the registry to a command handler; handlers change the
two tables and enqueue notices, for one client or for every client of a channel.
The write step hands the queue of one client to its socket. A disconnect (end
of input, error, QUIT) closes the descriptor, marks the record and announces
the departure; the record is deleted at the end of the loop's iteration for it.
SIGINT interrupts any of this, marks every record and closes every descriptor.

**What is hard about it.** There are no threads, and yet four kinds of
interleaving:
1. the SIGINT handler runs between any two instructions of the loop;
2. peers connect, send, close and send out-of-band data between any two system
   calls, and the kernel gives a closed descriptor number out again at once;
3. the socket takes any part of what `send` offers, at a pace of its own for
   each client, while one buffer sits in many queues;
4. records are freed and their addresses reused while raw pointers to them stay
   in hash chains, in the lookup table of the loop and in membership lists.

There are no retries and nothing is persisted: crash recovery and message loss
are not hazards of this code. The hazards are listed in `PROJECT.json`, each at
its line.

**What makes each component correct.**
- *Nickname index*: a lookup returns the one client that has the nickname, or
  NULL; it ends and never touches a freed record.
- *Channels*: the same for channels; both sides of a membership agree; a channel
  goes with its last client.
- *Send queues*: counts are exact, nothing is freed early or used after, the end
  pointer is in step with the queue, and every client is sent its messages
  whole, once and in order.
- *Event loop*: descriptors and records correspond one to one while a client is
  served; the record the loop works for is current; a quitting client is seen by
  nobody; input is served; shutdown ends.
- *Handlers*: the notices suffice for every client to know who is on its
  channels under which nickname; every notice goes to exactly its audience.
- *Event loop (epoll)*: pointers the kernel hands back lead to records in the
  list; no edge is lost, so input is read and queues are flushed.
- *Line assembly*: the lines are those of the stream however it is cut into
  reads, and each fits its buffer.
- *Parser and registry*: prefix, command and arguments of a message are all of its
  line, in the form of line the code takes (not quite that of RFC 1459, see
  section 5); a command calls its handlers, each once and in order, and no others.

## 2. Modules

| Module | Models | Main correspondence |
|---|---|---|
| `BucketChain` | a walk along a hash bucket, over pointers that need not form a list | `Walked` is every address the loop holds, `WalkEnds` where it stops: the record, NULL, a freed record, or nowhere |
| `NickTable` | nickname index | one action per function: `AllocateNew`, `SetNickname` (remove then add), `Delete` |
| `ChannelTable` | channels and memberships | `JoinNew`, `JoinFound`, `Part`, with `ChannelDelete` inside; `client_delete` is `ClientDelete`, a `DeleteNext` for every node its walk comes to, and `DeleteDone`; a list is the number of its nodes per record, `ahead` what the walk has before it |
| `MessageStream` | *abstract*: one FIFO byte stream per client | `StreamSpec` of `SendQueue` |
| `SendQueue` | send queues and counted buffers | `Enqueue` for the create-and-enqueue of every handler, `DataOut` for one call of `send_callback_data_out`, `Delete` |
| `LineBuffer` | `client_callback_data_in` | one action, `DataIn`, for one read of any length: the lines it completes, the rest it keeps |
| `Message` | `message_parse`, `hash`, `message_register_handler`, `message_dispatch_command` | the parser is a function on strings; `Handle` is what becomes of one line |
| `Event` | what both loops share: client records with descriptors, `event_read_available`, `event_disconnect_client`, accept, SIGINT, the kernel's sockets and the peers | actions that a loop completes with the place it goes on at |
| `SelectLoop` | `event_select.c` over `Event` | `pc` is where the loop stands; one action per step between which a signal or a peer can act |
| `EpollLoop` | `event_epoll.c` over `Event` | the same, with the kernel's list of sockets to report (`armed`), the registered pointers (`watch`), sockets in error, and the flush |
| `Irc` | *abstract*: users, nicknames, channels as sets, and the audience of every command | `IrcSpec` of `Server` |
| `Server` | the command handlers over `NickTable` and `ChannelTable` (both instantiated) | one action per outcome of a handler; `out` is the notice and its copies, `view` what the clients make of the notices |
| `Sublist` | what a walk along a list picks out of it | the handlers for a command in a bucket; the sockets the kernel reports |
| `MC*` | values and symmetry for TLC | |
| `Lemmas` | facts about walks along a bucket, sublists and sequences laid end to end, with proofs | |
| `*_proofs` | theorems and proofs about `NickTable`, `ChannelTable`, `SendQueue`, `SelectLoop`, `EpollLoop`, `Server`; `Input_proofs` about `LineBuffer` and `Message` | |

`Server` composes the two tables and conjoins one action of each; each keeps its
own record of whether names have shared a bucket (`nick_crowded`, `name_crowded`). It does not
contain the queues or the loop; it takes from them two facts that are shown
there: a quitting client is deleted before another one is served
(`SelectLoop!QuittingIsCurrent`, and in the epoll build `NobodyStranded`), and
every client gets its messages in the order they were enqueued
(`SendQueue!StreamSpec`).

Each module has a section *Variants with a fault* with operators that nothing
uses. Each is a plausible bug; put in place of the definition it varies (the
list is in `PROJECT.json`, "mutants") it violates the property named there, which
shows that the property can fail.

### Abstractions worth knowing

- A record, a buffer or a channel is an address from a small set; `free` takes it
  out of the allocated set, `malloc` may return it again at any time.
- `hash` is any constant function from names to buckets, except in `Message`,
  where it is computed with the wrap-around of an unsigned integer.
- In the queues, message text is a model value with a length; formatting is left
  out. Handlers of the loop models are reduced to what a loop sees: a line may
  leave something in any queues, QUIT disconnects.
- A walk that reaches a freed record or a NULL nickname is the end of defined
  behaviour: the handler that makes it has no step. Other handlers still have one,
  so that these runs never stop, which TLC checks.
- `crowded` is a history variable of the two tables: two names in use have shared
  a bucket at some time. `IndexExact` is claimed until then, by runs that go on
  beyond. `Server` has one for each table; `ViewsAgree` and `IrcSpec` are claimed
  until either is set.
- `client_delete` is one step for each node of `client->channels`, because it walks
  a list whose nodes `channel_client_part` frees. While it is at work (`deleting`)
  no other action of the tables is possible: the program has one thread.
- The prefix of a message without one is `Unset`: `message_parse` leaves the field
  as `malloc` returned it, and nothing reads it.
- `LineBuffer` has a history, `damaged`: one of the cases has come up that the code
  gets wrong (section 5). `LinesExact` is claimed until then. A copy of length -1
  ends the behaviour (`overrun`).
- `Message` handles one line per filled table: a line leaves nothing behind but what
  its handlers do. A line whose parts do not fit the fields of `message_data` is
  handled no further (`too_large`).
- In both loops accept, the allocation of the record and the assignment of its
  `fd` are one step, and so is `client_delete`: a SIGINT inside them is not
  modelled (listed as a hazard).
- A failed accept (no descriptor left) leaves the connection pending.
- The epoll kernel reports a socket once for everything that happened to it since
  it was last reported, in the order in which they became ready, and forgets a
  socket when it is closed. The end of a batch can be reached with sockets left
  on its list; these come first the next time.

## 3. Runs

| Run | Instance | Shows |
|---|---|---|
| `nick_index` | 3 records, 4 nicknames, 3 buckets | `TypeOK`; `IndexExact`: lookups are exact under every order of connects, changes, deletions and reused addresses, until two nicknames share a bucket; `AddHidesNobody`: adding is right also on a table that removals have damaged |
| `nick_removal` | the same | **violated** `RemovalKeepsOthers`: a deletion loses other clients |
| `chan_index` | 3 clients, 3 channel records, 4 names, 3 buckets | `TypeOK`, `MembershipMirrored`, `NoEmptyChannel` with names that share buckets and at every node of the walk of `client_delete`, and `IndexExact` until they do |
| `send_queues` | 2 clients, 2 buffers, messages of 1 and 2 bytes, queues of at most 3 | `TypeOK`, `CountExact`, `QueueWellFormed`, `FreedWithLast`, and `StreamSpec`: shared and reused buffers implement separate streams |
| `line_buffer` | 3 characters, both buffers of 4, 8 characters sent | `TypeOK`, `LinesExact`: any cut of any stream gives its lines; `LinesFit`: a line that is handled fits its buffer with its terminator, and a copy of length -1 takes one read that fills the buffer |
| `messages` | every line of up to 5 characters over space, colon and a letter in both cases; 2 handlers, 3 commands of which 2 share a bucket | `MessageTypeOK`, `ParseDerives`: the parts are the whole line; `HandlersExact`: the dispatch |
| `select_loop` | 2 records, 2 descriptors, 1 pending connection, 2 lines per connection, no SIGINT, no out-of-band data | `TypeOK`, `SocketsOwned`, `LookupCurrent`, `QuittingIsCurrent`, `SelectSucceeds`, and `InputServed` (liveness) |
| `select_shutdown` | 3 records, 1 descriptor, 2 pending, 2 lines, out-of-band data, up to 2 SIGINTs | `LookupCurrent` also under these, and `ShutdownCompletes` (liveness) |
| `select_urgent` | with out-of-band data | **violated** `SelectSucceeds` |
| `epoll_loop` | 2 records, 2 descriptors, 2 pending, 1 line per connection, batches of 2, up to 2 resets by peers, up to 2 SIGINTs | `TypeOK`, `EventsLive`, `NobodyStranded`, and `InputServed`, `FlushRetried`, `ShutdownCompletes` (liveness) |
| `server_users` | 3 clients, 4 nicknames in 3 buckets, 2 channel records, 3 names in 2 buckets, nothing after QUIT | `TypeOK` and `MembersNamed`, with names that share buckets; until they do, `ViewsAgree`, and `IrcSpec`: the handlers implement `Irc` |
| `server_ghost` | 2 clients, commands may follow QUIT | **violated** `ViewsAgree` |

### Bounds, and why they are enough

- *Names and buckets*: two names share a bucket and two do not, so a removal can
  meet a client in front, behind, and in another bucket; three records make a
  chain with a middle. The theorems below do away with these bounds.
- *Send queues*: two buffers with two contents suffice for a buffer to be freed
  and reused while the other is shared; two copies in one queue arise from NICK
  and QUIT to two shared channels; a message of two bytes can be cut.
  `MaxQueue = 3` limits the elements of a queue and `MaxCopies = 2` the copies of
  one notice. The theorems about the counts hold for any of these.
- *Line buffer*: `ReadMax` and `LineMax` are equal, as in the code (512), and with 4
  a read can hold two line ends, or one with text on both sides; `MaxSent = 8`
  fills the buffer twice, so that a full line buffer meets every kind of chunk.
- *Messages*: `MaxLine = 5` leaves room for a prefix, a command and two arguments, or
  for any three of the characters that matter around an argument; `PrefixMax = 1`,
  `CommandMax = 3` and `ArgumentMax = 2` are exceeded by some lines. `Buckets = 2` and
  the commands `a` and `aaa` make a shared bucket, `aa` is alone. `MaxHandlers = 2`
  suffices for one to hide the other. `HashRange = 65536` lets the hash wrap within a
  command.
- *Select loop*: with two descriptors one can be closed and reused in the same
  scan that still has to come to the other. `MaxLines` limits what a peer sends
  over a connection; with 2, a line can follow a QUIT in one chunk and two QUITs
  can come at once. `MaxPending` limits waiting connections. With one descriptor
  and three records (`select_shutdown`) the table of the loop can name a client
  whose descriptor two later ones have had. `MaxSigInt` is 2, because the second
  SIGINT ends the process.
- *Epoll loop*: two client descriptors and the listening one, for batches of two,
  give batches with the events of two clients, or of a client and a connection,
  in both orders, and a socket that is left over for the next batch; a descriptor
  that is closed in a batch is reused in it. `MaxLines = 1` limits a connection to
  one line, QUIT or other: what two lines in one chunk do, or a line behind a
  QUIT, is in code that both loops share (`Event`) and in `select_loop` and
  `select_shutdown`, with two lines. `MaxResets = 2`: both connections can be reset
  by their peers.
- *Server*: three clients are a speaker, one who shares a channel with it, and
  one who does not; two channels make double copies and partial audiences. Two of
  the four nicknames and two of the three names share a bucket. Once names have
  shared a bucket, the constraint `FewOnceCrowded` follows only states with at
  most two clients and one channel: only types and `MembersNamed` are claimed
  there, which `Server_proofs` proves for any number.
- Symmetry is used over interchangeable model values only, and in runs of
  invariants and of safety refinements, not in the liveness runs.

### Assumptions the runs rest on

- `server_users`: `ViewsAgree` and `IrcSpec` are claimed until two names in use share
  a bucket. The code does not keep them from it, and `Server` goes on beyond; but
  a table that has lost a record lets a nickname be taken twice (`nick_removal`),
  and the refinement is false from then on. A lookup that goes round for ever or
  reads a freed record is not a step.
- `select_loop`: no out-of-band data and no SIGINT; `select_urgent` and section 5
  say what happens with them.
- `server_users`: no command follows QUIT in one chunk of input; `server_ghost`
  drops this.
- `ServerFd` is lower than every client descriptor (standard input, output and
  error are open), and descriptors stay below `FD_SETSIZE`.
- With the build's `-std=c99` and BSD/XOPEN definitions `signal` is taken to keep
  the handler installed; the soft handler installs the hard one itself.
- `main.c:28` names `addr` and `port`, which are not declared, and `options.c`
  lacks includes, so the tree does not compile as it is. The models read
  `opt.addr` and `opt.port` there; nothing modelled depends on it.

### Fairness

`SelectLoop` and `EpollLoop` assume `WF_vars(Loop)`: the process is scheduled and,
as long as its loop can take a step, it takes one. Nothing is assumed of peers,
of SIGINT or of the sockets' readiness to take data, and no action of a loop is
favoured over another.

- `InputServed` holds in the select loop because the scan visits descriptors in
  ascending order and comes round, and in the epoll loop because the read goes
  on until the socket is empty, so that no edge is lost. It needs `MaxLines`:
  because `event_read_available` reads until the socket is empty (`event.c:100`) a
  peer that sends at the speed of the server starves all others.
- `FlushRetried` holds because the flush follows every batch and every timeout of
  `epoll_wait`; nothing is registered for writing. It promises an attempt, not
  success: the socket may refuse for ever.
- `ShutdownCompletes` holds in both loops wherever SIGINT interrupts them.

The other modules have safety properties only and assume no fairness. The loop
runs set `CHECK_DEADLOCK FALSE` because the process really ends; `line_buffer` and
`messages` set it because their behaviours end with the bound on the input.

## 4. What is proved

All theorems hold for every value of the constants that satisfies the named
assumption of the module (`NickTableAssumption`, `ChannelTableAssumption`: the
hash is a function into the buckets, and NULL is no record or name;
`SendQueueAssumption`: finitely many clients, positive lengths;
`EventAssumption`: descriptors are numbers above that of the listening socket;
`LineBufferAssumption`: CR and LF differ, and `line_buffer` is at least as large as
the read buffer;
`MessageAssumption`: space and colon differ, nothing but a space has a space for
its lower case, and there is at least one bucket and one hash value;
`EpollLoopAssumption`: the pointer registered for the listening socket is not
that of a client; `ServerAssumption`: those of the two tables, and finitely many
addresses for channel records, because a notice is counted over them).
Each refers to the specification of its module as it stands; where a theorem has
a hypothesis besides, it is named below.

- `Lemmas`: what several proofs need. For walks along a bucket (`Walked` is a
  least fixed point, and these lemmas are all the other proofs use of it):
  `WalkStopsAtOnce` and `WalkStopsAtNext` for a walk of no step and of one,
  `WalkAway` and `WalkInFront` for one that is the same after a change to a record
  it does not come to, and after a record is put in front. For sequences of
  sequences: `FlattenConcat`, `FlattenSingle`, `FlattenEmpty`, `CutApart`. For sublists:
  `AmongPicked` and `AmongAppend`. They rest on `Induction`, the induction over the
  naturals for a *set* of numbers, which is proved here from `LeastNatural`: any
  property of a recursive function can be put as membership in a set, so no
  operator parameter is needed. `RecursionExists` is that a function defined by
  recursion over the positions of a sequence is defined.
- `NickTable_proofs`: `TypeCorrect` (`[]TypeOK`), `IndexCorrect` (`[]IndexExact`) and
  `AddCorrect` (`AddHidesNobody`).
  `IndexExact` is not inductive: it says nothing of heads of buckets that nobody
  uses and of stale `nickname_next` pointers. The strengthening says, as long as
  no two nicknames have shared a bucket, that the head of each bucket is the one
  client whose nickname falls into it, or NULL, and that the next pointer of
  every client in the index is NULL, so that removing the head empties the
  bucket and adding never inherits a stale pointer. `AddCorrect` has no such
  limit: on any table, however damaged, a first nickname puts its client in
  front of an unchanged chain, and `WalkInFront` does the rest.
- `ChannelTable_proofs`: `TypeCorrect`, `MirrorCorrect` (`[]MembershipMirrored`),
  `ChannelsInhabited` (`[]NoEmptyChannel`) and `IndexCorrect` (`[]IndexExact`). The first
  three hold whatever the buckets are: what the missing prev pointers do to the
  table leaves the membership lists intact. The lists are not inductive by
  themselves: a client freed at the end of the walk of `client_delete` must be on
  no channel. `WalkComplete` says so on the way: what the walk has ahead of it is
  exactly what is left on the list of the client, so that the nodes freed under
  it cost it none. `IndexCorrect` is as for nicknames.
- `SendQueue_proofs`: `TypeCorrect`, `CountsCorrect` (`[]CountExact`), `QueuesCorrect`
  (`[]QueueWellFormed`), `BuffersFreed` (`FreedWithLast`) and `StreamsCorrect`
  (`StreamSpec`). The invariant is the conjunction of the first three with the bound
  on the queues and with "a record that is not in use has an empty queue". The
  count of a buffer is the cardinality of the set of places it is in, so the heart
  are two lemmas that count places by bijections: `RefsAdded` (appending copies of
  a new buffer adds as many places as copies) and `RefsDropped` (taking the front
  of one queue takes the places of a buffer in that front). `ReleaseStep` then
  serves both the write callback and the deletion of a client.
  `StreamsCorrect` is the refinement of `MessageStream`: what a client has yet to be
  sent is the pieces of its queue laid end to end. `EnqueueStream`: a buffer in no
  queue may be overwritten, and the copies appended to a queue append whole
  messages to the stream, to every other queue nothing. `DataOutStream`: the write
  callback cuts the stream into what it sent and the rest, whether it stops in the
  middle of a buffer or not; buffers it frees are in no other queue (from
  `CountsCorrect`), so no other stream changes.
- `SelectLoop_proofs`: `TypeCorrect` and `LookupCorrect` (`[]LookupCurrent`) hold with any
  number of SIGINTs and with out-of-band data. Their invariant, `Safe`, says that
  every descriptor the scan has yet to come to leads to a record in the list
  with that descriptor, and that the scan does not come again to the one the
  loop works at; only the record the loop works for is ever deleted. It says
  nothing of the other entries of the lookup table, which are stale, and nothing
  of open descriptors, which SIGINT closes under the loop. `TypeCorrect` needs in
  addition that the end of a connection is the last that can be read from a
  socket. `SocketsCorrect` (`SocketsOwned`), `QuittingCorrect` (`QuittingIsCurrent`) and
  `SelectCorrect` (`SelectSucceeds`) hold while `Undisturbed`, that is until the first
  SIGINT, in a server that gets no out-of-band data; sections 3 and 5 say what
  happens otherwise. `Calm` is their invariant on top of `Safe`: records in the list
  have descriptors of their own, the open ones are those of the clients that are
  served, and only the current client is quitting.
- `EpollLoop_proofs`: `TypeCorrect`, `EventsCorrect` (`[]EventsLive`) and `ServedCorrect`
  (`[]NobodyStranded`), with any number of SIGINTs and of sockets that fail, at any
  time. `EventsLive` is inductive only with what the kernel has in hand: it holds a
  registered pointer for open client sockets only (`WatchOK`), lists a socket once
  (`ArmedOK`), and the pointers of a batch the loop has yet to come to are different
  records in the list, each with the socket of its event (`BatchOK`, `PlaceOK`). A record is deleted in its own event
  only, so no later pointer of the batch can be to it. The last part, `Settled`,
  holds until the first SIGINT or dropped socket: open descriptors are those of
  the clients, and a client is quitting in its own event only. `AmongKeeps` is the
  lemma about what `epoll_wait` leaves on its list. What `TypeCorrect` needs of the
  streams of the sockets is proved once, in `SelectLoop_proofs`, and taken from
  there by `INSTANCE`.
- `Server_proofs`: `TypeCorrect`, `MembersCorrect` (`[]MembersNamed`), `ViewsCorrect`
  (`[]ViewsAgree`, with the hypothesis `AfterQuit = FALSE` of the run `server_users`) and
  `ServesIrc` (`IrcSpec`), for any hash functions. The first two hold also when names
  share buckets. The other two say nothing from the first step on that puts two
  names in use into one bucket: that is in the formulas (`~Crowded => ...`), not in
  the model, which goes on. First, every step of the server is a step of each
  table or leaves it alone (`NickSteps`, `ChanSteps`), so that the server implements
  both and their theorems carry over by `INSTANCE` (`AlwaysTables`); `Exact`, that a
  lookup answers right, carries over until `Crowded`. On top of that `UserInv`:
  who has a nickname has registered, at most one client is quitting; and
  `DeletingQuits`: the client that `client_delete` is at work on is the one that is
  quitting, so that nobody sees a channel that has half lost it. Then the channels
  are replaced by the set `Audience(n)` of clients on the channel named `n`,
  whatever record stands for it: `JoinAudience`, `PartAudience`,
  `DeletePartAudience` and `DeleteDoneAudience` are all that is used of the lists
  further on. `ViewInv` is `ViewsAgree` for every name, also one no channel has. For
  `ServesIrc`, there is one lemma for each outcome of a handler; the delicate ones
  count the copies of NICK and QUIT (`CopiesOfChannels`: as many as the channels
  shared). It has no hypothesis on `AfterQuit`: exact audiences do not depend on it.

- `Input_proofs`, about `LineBuffer`: `TypeCorrect`, `LinesCorrect` (`[]LinesExact`) and
  `LinesBounded` (`[]LinesFit`), for all sizes of the two buffers and streams of any length.
  `SplitFound` is the loop invariant of `client_callback_data_in` over the positions
  of one chunk: the lines found so far, each with its line end, are the chunk up
  to where the next line starts, and no line end lies behind that; two line ends
  cannot overlap, because CR and LF differ. `NewLinesExact` puts in front of the first
  line what was waiting: unless `Damages` holds the two fit, and no line end arises
  where they meet. The invariant adds that a rest is never longer than the read
  buffer, which `LinesFit` needs.
- `Input_proofs`, about `Message`: `MessageTypeCorrect` (`[]MessageTypeOK`), `ParseCorrect`
  (`[]ParseDerives`) and `HandlersCorrect` (`[]HandlersExact`), for lines of any length
  and any table. `ParseDerives` is about the form of line that the code takes. The module extends both; that is why `Message` calls its
  specification `MessageSpec`. `ArgumentsRead` is an induction from the end of the line: what
  `Arguments` returns at a position, written out behind a space, is the rest of the
  line; there is a lemma for each of the four ways a step of the loop can go
  (`TrailingRead`, `LastRead`, `MiddleRead`, `NothingRead`). `ParsedDerives` puts prefix
  and command in front of it. `HandlersExact` speaks of one line and is not
  inductive; `TableExact` is: for *every* string, what its bucket holds for it is what
  was registered for it, in order. A handler more changes this for the one command
  only, whether others share the bucket or not (`CalledForAppend`,
  `WantedForAppend`). `BucketType` is that `hash` has a value in the table.

**Only model-checked**: all liveness (`InputServed`, `FlushRetried`,
`ShutdownCompletes`), which under fairness is beyond the prover.

## 5. Known deviations

Where the code does something other than its comments or reply texts say. The
first three are runs; the rest was met while modelling, is in the models as the
code has it, and is described here only.

1. `client.c:249`: `nickname_prev` is never assigned, so a removal from a bucket
   drops the clients in front of the removed one (`nick_removal`). `channel.c:143`
   does the same with channels: a client may be told 403 for a channel it is on.
   `client.c:234`, besides, does not reset `nickname_next` when the bucket is empty, so
   that a record can bring an old successor into its new bucket; `NickTable!NextOf`
   has it.
2. `event_select.c:117`: after an exceptional condition the loop continues past
   `client_delete`; the closed descriptor is given to `select`, which fails, and the
   server exits (`select_urgent`).
3. `client.c:178`: a JOIN behind QUIT in one input is announced, and the deletion
   of that client is not (`server_ghost`).
4. `event_select.c:70`: a SIGINT between the test of `event_shutting_down` and
   `select` closes the descriptors that `select` is then given; the process ends by
   an error exit in place of the shutdown (`SelectLoop!SelectFails`).
5. `commands/channels.c:94`: the PART notice goes out before membership is looked
   at, so a PART by a client that is not on the channel is announced to those who
   are. `Irc!Part` states it as the code has it.
6. `commands/messaging.c:26`: a PRIVMSG without a recipient leaves a buffer that is
   in no queue and is never freed. `FreedWithLast` shows that this is the only way
   a buffer leaks.
7. `event_select.c:157`: the write step runs after the read step has closed the
   descriptor; when the queue is not empty it fails and the departure is
   announced a second time (`Event!WriteFails`, `Server!Disconnect` twice).
8. `send.c:144`: `send` without `MSG_NOSIGNAL` while SIGPIPE has its default action:
   a send to a reset connection ends the process (`Event!WriteKills`).
9. `event_select.c:102`: when SIGINT closes the descriptors in the middle of a
   scan, a connection accepted later in the same scan may be read for the client
   the table still names (`select_shutdown` contains these steps).
10. `client.c:192`: the rest of a read without a line end is copied to the start of
    `line_buffer`, over what an earlier read left there; and CR and LF that come in
    different reads do not end a line. A line that is too long together with what
    waits is cut. These are the three cases of `LineBuffer!Damages`.
11. `client.c:161`: when one read has filled `line_buffer` completely, the space left
    for a line is computed as -1 (`LineBuffer!Overruns`). `LinesFit` shows that this
    needs a read of exactly the size of the buffer.
12. `message.c:48` and `message.c:96`: the length of a command and the number of
    arguments are bounded by the line only, not by the fields they are put in
    (`Message!TooLarge`).
13. `message.c:101`: one space is skipped behind an argument, so that two in a row
    make an empty argument, which the handlers count; RFC 1459 takes any number of
    spaces as one separator. A command and a prefix can be empty too, which the RFC
    does not have. `ParseDerives` states the form of line the code takes.
14. `message.c:12`: the prefix of a message without one is whatever `malloc` left
    there (`Message!Unset`). Nothing reads it.
15. `event_epoll.c:63`: for a socket with an error only the descriptor is closed: the
    record stays in the list, on its channels and under its nickname, and what is
    sent to it later goes to whoever gets the number next. A failed send in the
    flush marks the record, and no event comes that would delete it. `EpollLoop`
    has both; `NobodyStranded` says that there is no third way.
16. `event_epoll.c:72`: the listening socket is edge-triggered, so a connection that
    finds no free descriptor waits until the next one arrives.

`USER` has no effect, and the branch of `send_enqueue_channel` for an empty
channel (`send.c:67`) cannot run: that is `NoEmptyChannel`.

## 6. Not modelled

- Startup and socket set-up, options, logging, backtraces and the build:
  straight-line I/O, with an exit on each error, before the loop starts.
- The list of event handlers: three constants registered at start; the loop
  models name the handler that is reached.
- `command_numeric` of a message, which nothing reads; the order of membership
  lists; the text of notices.

## 7. Plan

Done, in this order: `BucketChain`, `NickTable`, `ChannelTable` and their proofs;
`SendQueue` against `MessageStream`; `SelectLoop`; `Server` against `Irc`; `LineBuffer`,
`Message`, `EpollLoop` (with `Event` taken out of `SelectLoop`); the proofs about
`SendQueue`, `SelectLoop`, `EpollLoop`, `Server`, `LineBuffer` and `Message`, and the
refinements of `MessageStream` and `Irc`.

Next: a finer `Event` with SIGINT inside record creation and deletion.
