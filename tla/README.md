# A verification development for the topic server and its subscribers

The program is a publish/subscribe system in C. A **server** (`server.c`) takes
datagrams from publishers on a UDP socket and is to forward each, over TCP, to
the **subscribers** (`TCP_client.c`) of its topic. This directory holds TLA+
modules that model it, TLC configurations that check them on small instances,
and theorems about them that TLAPS checks.

## 1. The system

Each process has one thread around `poll(2)`; all concurrency is between the
processes, through the kernel.

| Component | State | Operations | Interacts through |
|---|---|---|---|
| poller (`poller.c`) | `pollfds[]`, `num_pollfds`, `idx_iterator`, `revents` also in slots no longer used | poll, next event, advance, add, remove | called by `run_server` |
| client list (`clients.c`) | doubly linked list of `(state, fd, id)` | add at head, remove, find by fd / id, update | called by `TCP_server.c`; removing a node closes its descriptor |
| subscription list (`subscriptions.c`) | doubly linked list of `(topic, subscriber_id)`, a cursor `current` | add, remove, find, get next for a topic | called by `TCP_server.c` |
| server loop (`server.c`, `TCP_server.c`) | the three above, `scanf`'s buffer, `rc` values | one branch for each kind of descriptor | packets, datagrams, commands |
| datagram input (`UDP_server.c`) | the last message | receive over a stack buffer that is not cleared | called by `run_server` |
| subscriber (`TCP_client.c`) | its socket, the packets it is sending and receiving, `scanf`'s buffer | connect, send id, subscribe, unsubscribe, exit, print what arrives | packets; end of the connection |
| transport (`util.c`, `packets.h`) | none | `send_all` (sends everything twice), `recv_all`, `TCP_server_recv_all` | called by both processes |
| stored messages (`stored_messages.h`) | - | declared only | nobody includes it |

What is hard here: connections, packets, ends of processes and commands reach
the server in any order; a descriptor number is used again as soon as it is
closed; the poller's iterator walks over an array that the handlers change; a
`recv` with `MSG_WAITALL` stops the only thread until one subscriber has sent a
whole packet; a subscriber may die between two segments of a packet, and the
server with bytes unread; every packet arrives twice, and the subscriber's
`recv_all` counts on it; `scanf` reads ahead of `poll`, blocks on half a command
and on a blank line, which `poll` reports like any other, and writes words and
topics of any length into buffers of a fixed one; a message loses its last two
bytes on the way.

What makes each part correct:

* poller, client list and descriptor table describe the same connections
  (`EntriesAgree`), although each is updated and searched on its own;
* of what `poll` reported on its own descriptors nothing blocks the loop but a
  blank line (`ReportedReady`), and a client does only for a packet it is sending
  (`AwaitedPacketsCome`); every waiting connection is accepted and every dead one
  noticed (`Accepted`, `Noticed`); a command is obeyed (`ExitObeyed`);
* an id belongs to one connection (`UniqueIds`), a client is registered under
  its own (`RegisteredAsItself`), and only a duplicate is turned away
  (`ClosesOnlyDuplicates`);
* subscriptions follow the commands (`SubscriptionsMatchCommands`) and are
  changed by their owner only (`OnlyOwnerChanges`);
* a datagram goes to every subscriber of its topic (`SentToAll`: it does not);
* subscribers end when the server does, unless they wait in `scanf` for a word
  (`RunsFollowServer`, `FollowsServer`);
* all of this together is a registry of members and their subscriptions
  (`ImplementsRegistry`), and the pointers under the client list are a list
  (`ImplementsList`);
* a subscriber does what was typed (`DoesAsTyped`), prints what was sent
  (`FirstIntact`, `PrintsAsSent`), waits only for what comes
  (`ReceivesWhatComes`), and the numbers and texts in it survive the
  structs, byte order and `printf` (`NumbersAsSent`, `TextAsSent`, ...).

## 2. Modules

| Module | Models | How |
|---|---|---|
| `Poller` | `poller.c` | the array from slot 0 as in C, slots that are out of use included, since `poller_add_fd` does not write `revents`; one operator per function |
| `ClientsList`, `Subscriptions` | `clients.c`, `subscriptions.c` | a list is the sequence of its nodes from the head, a node pointer an index, NULL is 0; removal has a `..._faults` operator for the write through NULL |
| `Sockets` | the kernel (external) | listen queue, descriptor table, TCP streams counted in segments, end of file and reset, UDP queue, the pipe on standard input |
| `Server` | `server.c`, `TCP_server.c`, the receiving half of `UDP_server.c` | one action per pass through the inner loop of `run_server`: the event the poller returns and its whole handler |
| `Subscriber` | `TCP_client.c`, `send_all` of `util.c` | one action per pass through the loop of `run_client`, except that sending is one action per segment: the process can die, and the server act, between two |
| `PubSub` | the processes together | composes the above with users and publishers; the properties |
| `Registry` | what the server promises | the members, each id once, and how often each holds a subscription; no poller, descriptor, queue or packet |
| `LinkedList` | `clients.c` again, pointer by pointer | nodes at addresses that `malloc` hands out again after `free`, `head`, `next` and `prev` with those that dangle; a call's search is one action per node |
| `ClientsListSpec` | what `clients.c` promises | one action per call, on sequences, with the operators of `ClientsList` |
| `ClientLoop` | `run_client` and `get_user_command` of `TCP_client.c`, `recv_all` and `send_all` of `util.c` | one subscriber; words in the pipe and in `scanf`'s buffer, packets in pieces; every blocking call is an action of its own |
| `Packets` | the structs of `packets.h` and the functions that fill, send, receive and print them | byte by byte, with scaled lengths: a command to the server, a datagram to the printed line |
| `PubSubMC`, `ClientLoopMC`, `PacketsMC` | - | constants of the runs |
| `ListProofs`, `PubSubProofs`, `RegistryProofs`, `IdentityProofs`, `SubscriptionsProofs`, `LinkedListProofs`, `ClientLoopProofs`, `PacketsProofs` | - | theorems and proofs |

Two refinements connect them. `PubSub` implements `Registry` under a mapping
that reads the members off the client list and the descriptor table, and counts
equal nodes of the subscription list. `LinkedList` implements `ClientsListSpec`
under the mapping that follows `next` from `head`; since `Server` updates its
list by the same operators of `ClientsList`, this is what entitles it to
sequences. `Subscriber` and `ClientLoop` are two views of one program:
`Subscriber` has whole commands and the server of `PubSub`, which sends nothing;
`ClientLoop` has words, blank lines, the end of the input and a server that
sends. Where `Subscriber` says only that a run waits in `scanf` for the rest of
a command (`scanning`), `ClientLoop` says why.

Operators named `..._off_by_one`, `find_by_topic` and so on, marked "Mutant" in
the modules, are not part of the model: each is a small bug in the definition
that follows it. Putting one in that definition's place makes TLC report the
property paired with it in `PROJECT.json`, which shows that the property looks
at the code.

State to code:

* `pollfds`, `num_pollfds`, `idx_iterator`: `struct poller`. Only the `POLLIN`
  bit of `revents` is kept.
* `connected_clients`, `subscriptions`, `current`: the lists of `struct
  TCP_server`. Address, port and the store-and-forward flag are never read by
  anything but print functions and are left out.
* `typed`, `trailer`: the pipe on the server's standard input, as words and what
  is behind the last of them: nothing, blank lines or the end of the input.
  `stdio`: words that `scanf` has read from the pipe and not returned.
* `srv`: `running`; `exited` (`server_exit`), `failed` (`DIE`), `crashed` (a
  write or read through NULL), `corrupted` (a write behind the poller's array, or
  of a word that is no command behind `cmd`: the model stops there, anything
  could follow).
* `sock`, `backlog`, `stream`, `conn`, `hup`: kernel. `conn[p]` is what became
  of `p`'s connection as `p` would find out: `fin` (closed, all it had sent was
  read), `rst` (closed with bytes unread, or never accepted), `broken` (closed,
  and `p` has sent since).
* `pc`, `scanning`, `out`, `cmds`: a run of the subscriber (`idle`, `running`,
  `ended`, in whatever way), whether it waits in `scanf`, what `send_all` has
  still to send, the commands it was given. `ledger` is a history variable. Ids, topics
  and packets are small sets; a packet is its type and its payload.
* `inbox`: packets sent to a subscriber.

Undefined behaviour is a choice over its outcomes: `rc` that
`TCP_server_send_to_subscribers` returns unassigned may be negative
(`SendStatusUnassigned`) or not; `args.topic` that `sscanf` left unset may be
any topic or empty (`TCP_server_get_sub_args`); a `cmd` that `scanf` left
unset at the end of the input is no `exit`, since an earlier one would have ended
the server. A word that is no command may be longer than its buffer, or not. What a packet cut by the death
of its sender may read as is `TornReads`: the rest of the buffer was zeroed, so
it is the whole packet (cut in its trailing zeros), a shorter payload (`Cuts`),
an empty one, or type 0, which is `TCP_MSG_NEW`.

Two sends of the same packet follow each other because `send_all` ends with
`return send(...)` of the whole buffer after it has already been sent. So every
id, subscribe and unsubscribe arrives twice, and `SubscriptionsMatchCommands`
has a factor of two.

`LinkedList`: `mem` holds the node at each address with its `next` and `prev`
and whether `malloc` has it allocated; `call` is the call in progress and
`current` the node its loop has reached; `order`, the addresses from the head, is
a history variable. `clients_list_is_head` compares contents as the code does, not
addresses. The end of the server's calls is `clients_list_destroy`.

`ClientLoop`: `pipe` and `stdio` are the words before and behind `scanf`'s read;
`blank` is a line without words in the pipe, which `poll` reports and `scanf`
skips; `Overrun` is a word longer than the buffer it is read into; `cmd` is the buffer of `get_user_command`, which a failed `scanf` leaves
unassigned (a choice of what it held or anything else). A packet has `Pieces`
pieces and `recv` returns any that have arrived; `buffer` shows which piece lies
where. `whole` is a history variable: the repetition of every message was there
in full when `recv_all` came to it.

`Packets`: a buffer is a sequence of bytes. `TCP_header(bytes, n, filler)` is the
copy of `n` bytes from the header on that both send functions make: `n` is
`msg_len`, which does not count itself. What a short datagram leaves of the
stack buffer is a choice: the last message's bytes, or one byte throughout.
A topic that fills its field loses its NUL to whatever is written behind it: the
flag in `command_args`, the id in the node of `subscription_node_create`; where
the text of such a command ends behind the payload, one outcome is `corrupted`.
A FLOAT is divided as doubles and rounded to a float after that.

## 3. Properties and runs

The first five runs are of `PubSubMC`; `SPECIFICATION` is `Spec`, or `FairSpec`
where something must happen. `CHECK_DEADLOCK FALSE` throughout: the processes
stop on exit, and the users need not act.

| Run | Question | Bounds |
|---|---|---|
| `lifecycle` | do the poller, the client list and the descriptor table stay one picture, also when slots and descriptors are used again; are ids unique, everyone registered as himself, and only duplicates turned away; does `recv` wait only for packets that are coming? | four runs, two under each id, three of them in turn, so that two are alive and three connected at once; kill and exit in any order; slots and descriptors for three, so that `accept` may find none free |
| `torn` | does the server stay a registry, do subscriptions change only for the sender and follow the commands, removals included, when packets have two segments and a run may die between them; does the server wait only for packets that are coming? | two runs whose ids are prefixes of one another, as are the two topics; two commands of one; slots and descriptors for just the two |
| `two_clients` | do the subscriptions of each follow its own commands, while words arrive at the server's terminal and are read ahead? | two runs, one topic, one command each, two words at the server |
| `progress` | does every run end after the server, however it ended, unless it waits in `scanf`; is `exit` obeyed; does the loop block on standard input, a datagram or the listening socket, other than behind a blank line? | two runs, of which one may wait in `scanf`, two free descriptors, one datagram; `exit`, a blank line or the end of the input is typed. The server exits, fails by the unassigned status, or crashes in a removal |
| `full_table` | is every connection accepted and every death noticed, with skipped and stale events, until the array is overrun? | three runs, one of them a restart, room for two clients; nothing is typed |
| `pointers` | do the pointers of `clients.c` form one list, own their nodes, never lead to a freed one, and behave as the sequence does? | four addresses and four descriptors, so that a node can be removed from the middle and its address come back at the head |
| `client` | does a subscriber do what is typed, print what is sent, wait in `recv_all` only for what comes and notice the end of the server, whatever is cut, read ahead or missing? | two lines from five (a command lacking a word, a word that is none), blank lines anywhere, two messages, packets in two pieces |
| `packets` | what comes out of the structs and conversions, for which lengths and magnitudes? | topics of 4 bytes, typed with one to four, contents of 8, bytes of one bit; every INT, SHORT_REAL and FLOAT, texts of every length; two datagrams in a row |

Three connections are the fewest with which a node can be removed from the middle
of the list, a slot be reused while another client is behind it, and a duplicate
meet both an earlier and a later client; the fourth run of `lifecycle` comes into
a slot and a descriptor that were used before. Two suffice for what the other
runs ask: that one crash another's connection (`disconnect_crash` shows how) and
one packet name another's id. Two segments are enough to have a
packet in two pieces; with one, `torn`'s behaviours vanish and the others stay.
`Typing`, `MaxTyped`, `UdpLimit`, `Pausing`, `MaxCommands`, `MaxLines`,
`MaxMessages` and `MaxDatagrams` bound the environment only and are guards of its
actions. What they leave out of single runs: `progress` has room for one word at
the server, so words read ahead occur in `two_clients` only, where nothing must
happen; its `accept` never fails, which would end the server just as the
unassigned status does (`lifecycle` has the failure). `full_table` types nothing,
so that there the exception for a blank line in `Accepted` and `Noticed` is never
used; it is in their statement because they would be false without it.
`Segments` stands for a 1615-byte packet; the number of bytes in each segment is
what `Cuts` and `TornReads` range over.

In `packets` the proportions are those of the code: a SHORT_REAL has two bytes,
an INT's and a FLOAT's number four, and a float's significand (`Significand` is
one more than the largest) has three quarters of the bits of the latter (24 of
32, 3 of 4). A double's has 7 bits (`Precise`), the fewest that FloatsAssumption
admits, as against 53. `Scale` is the number of the smallest doubles in 1 and
`Least` that of the smallest float; `MaxPower`, 100 here, is 10^22 in the code,
the last power of ten that is a double, and the last divisor for which a FLOAT
is said to come out right. What is checked at the scaled limits is what happens
at the real ones: an INT is right below 2^31, a FLOAT below 2^23 (from there on
rounding to a float may show: 1234.4322 is printed as 1234.4323), a flag gets
through with topics of at most 48 bytes, a topic of 50 bytes is printed right only
with an INT, and the last two of 1500 bytes of text are lost.

Nothing in the subscriber keeps a user from a topic of 50 bytes, and `test.py`
subscribes to one (lines 92 and 382). It fills its field in `command_args`, so
that the flag written behind it takes the place of its NUL; the same happens in
the server's copy, and in the node, where the id follows the topic. What the
server stores is topic and id run together: the subscriber is told that it is
subscribed, no datagram has that topic and no command takes it away.
`SubscribesAsTyped` says so, and `packets` and its theorem include it.

`client` shows where the loop waits: in `scanf` for the rest of a half typed
command or for a word behind a blank line (`WaitsForWord`), and in `recv` when a repetition came in pieces, whose rest is taken for
the next packet. While repetitions arrive whole, `recv` waits for nothing but
pieces under way and a repetition still to be sent (`ReceivesWhatComes`).
Everywhere else it gets to what was typed and to the end of the server, also at
the end of its input, where it spins. Words that `scanf` has read ahead wait for
the next line. The server waits behind a blank line as well, and with it every
client (`WaitsForWord` of `PubSub`): that this is all that keeps it on its own
descriptors is `ReportedReady`.

Runs that refute what a comment, a message or a test says (`findings` in
`PROJECT.json` quotes the line):

| Run | What the code does |
|---|---|
| `not_forwarded` | `subscriptions_get_next` starts from a cursor that is NULL and that nothing moves: no datagram is ever forwarded |
| `unassigned_status` | with nothing to send, an unassigned `rc` is returned, and may end the server |
| `disconnect_crash` | removing the last node of the client list, when it is not the head, writes through NULL. `subscriptions.c:141` has the same line |
| `stale_event` | `poller_add_fd` leaves an old `revents` in a reused slot and the advance meant for the new client skips the first one: a new client is served in the round that accepts it, and the server blocks until its id has come |

Some more consequences are visible in the model and have no run: a restarted
subscriber is refused while the server has not yet read the end of its
predecessor's connection; an `exit` read together with an earlier word stays in
`scanf`'s buffer, which `poll` does not see (`ExitObeyed` is of the first word
for that reason); a reported
event is skipped for a round by `poller_advance` or by a removal under the
iterator (`full_table` shows that it comes back), and a run killed half way
through its first packet may be registered under a cut id (`RegisteredAsItself`
excludes dead runs for that reason). `poll` reports the end of a terminal's or a
file's input as POLLIN, which both models have, and that of a closed pipe as
POLLHUP only, which the loops do not look at.

**Fairness.** `FairSpec` has weak fairness of the server's step and of each
run's own steps (`Push`, `SendFails`, `Hangup`). Each process is one thread
that the system schedules, and nothing but its own step disables an enabled
step of it for good. `send` is taken not to block, since a connection carries
a few packets at most and nothing is sent the other way. Users, publishers and
signals are not fair. A blocked `recv`, `accept` or `scanf` is a disabled
server step: the fairness then promises nothing, which is how blocking the loop
shows up in the liveness properties; `Hangup` is disabled for a run that waits in
`scanf`. `ClientLoop` is fair to the subscriber's
thread, to the network and to a server that has a repetition left to send, and
to nobody else; `LinkedList` to a call that has begun.

## 4. Proofs

`PubSubProofs` proves, for any number of runs, ids, topics, segments,
descriptors and slots, from the assumptions on the constants only
(`TableAssumption`: the array holds at least the three descriptors `run_server`
registers; `SocketsAssumption`; `CutsAssumption`; `SubscriberAssumption`):

| Theorem | Property |
|---|---|
| `InductiveInvariant` | `IInv` |
| `TypeCorrect` | `TypeOK` |
| `EntriesAlwaysAgree` | `EntriesAgree` |
| `ListenersBlockOnlyOnBlankLine` | `ReportedReady` |
| `NothingEverSent` | `NothingSent`, a part of `IInv` |
| `IdsAlwaysUnique` | `UniqueIds` |

`IInv == TypeOK /\ EntriesAgree /\ QueueAgrees /\ ReportedReady /\ NothingSent`.
None of its parts is inductive alone. That poll's report of the three listening
descriptors stays true (a blank line remaining one until a word follows) needs them to stay in slots 0 to 2, which is
`EntriesAgree`, as removals move only the slots above; closing a connection
keeps the three records together only because the descriptor returned by the
poller is in the client list (again `EntriesAgree`) and in exactly one slot
(`ClientOf`); accepting needs the head of the queue to be queued once and not
connected (`QueueAgrees`) and the queue not to be empty (`ReportedReady`);
handling a datagram keeps the rest only because nothing is due (`NothingSent`).

The proof has one lemma per action and lemmas for what several share: the end
of the server (`EndPreservesIInv`), a closed connection (`CloseStep`), a packet
consumed (`ReceivedStep`), the end of a run (`EndOfRun`), and steps that leave
the server alone (`OutsideStep`). `ListProofs` has the facts about lists of any
length: what a search returns, and where the nodes are after one is added or
removed.

Uniqueness of ids is a second induction over the first. It needs `NewHasNoId`:
a node that has not given its id holds the empty string, so an empty id (a
packet of which only the type arrived) is refused as taken by its own node.

`RegistryProofs` proves `ImplementsRegistry` (`ServerImplementsRegistry`) from
`IInv /\ IdInv`: the nodes of the list stand for distinct subscribers, so that
`accept` adds one member and a close takes one away; a client that is told its
id is free gets an id no member has; and a node put in front of the
subscriptions, or taken out of them, changes the count of one subscription by
one. Every other step leaves the mapping's value as it is.

`IdentityProofs` adds what is known of the ids in flight (`OwnIds`): the only id
a run sends, or has still to send, is its own, and an id the server has given a
living client is that run's. So a packet received whole names its sender, and one
cut short comes from a run that is dead. `RegisteredAsItself`
(`AlwaysRegisteredAsItself`) follows, and with it `ClosesOnlyDuplicates`
(`AlwaysClosesDuplicates`): the node of a client that is turned away still holds
the empty id, so the node with its id is another's.

`SubscriptionsProofs` proves what becomes of subscriptions, and whom the server
waits for:

| Theorem | Property |
|---|---|
| `OnlyOwnerEverChanges` | `OnlyOwnerChanges` |
| `AlwaysMatchesCommands` | `SubscriptionsMatchCommands` |
| `AwaitedPacketsAlwaysCome` | `AwaitedPacketsCome` |

The first is a case distinction over the server's steps on the invariants above:
only a subscribe or unsubscribe packet of a client that has been told its id is
free changes the list, and then by one node, which carries that client's id
(`OneMore`).

For the second, `Balanced(p)` says of every run `p` that is alive and has an id of
its own (`Alone`) that what it has sent and the server has not handled, followed
by what `send_all` has still to send (`Flight`), takes the server's count of each
topic to twice what `p`'s ledger says. The flight is a whole number of packets,
of which one may be sent in part, and `Carries` has a count before and after each
of them: a subscribe adds one, an unsubscribe takes one unless there is none. A
command puts its packet behind the flight twice, and adds twice its effect
(`CarriesMore`); the server takes the first packet away and has its effect
(`CarriesRest`). Until the server has read the id, the flight begins with it
(`GivesId`): before that no packet would be taken as a command. Of the others,
those with another id change other counts; a client that is registered as somebody
it is not, since a torn packet read as that id, is dead, and its stream is spent
with that packet, so it never gets to subscribe (`TornIsSpent`). When all is
handled the flight is empty and the count is twice the ledger's.

`AwaitedPacketsCome` needs to know how much of a packet is under way, whatever
slot or descriptor the event came from. What a live connected run has in its
stream or has still to send is a whole number of packets, at least one while it
is in the listen queue (`WholePackets`): the server takes a whole packet off it
(`LiveReceives`), and the run puts whole packets behind it. So a client accepted
into a slot with an old event has its id coming, and a stream that poll reports,
not being empty, belongs to at least one packet (`PollAwaits`). Receiving ends
with the slot behind the iterator, and a removal moves a descriptor together with
its event, so every other entry still to be returned was one before, of the same client,
which has lost nothing by the step (`EntriesPass`).

`LinkedListProofs` proves, for any number of addresses and descriptors:

| Theorem | Property |
|---|---|
| `AlwaysLinked` | `Linked` |
| `AlwaysOwned` | `Owned` |
| `NeverUsedAfterFree` | `NoUseAfterFree` |
| `SearchesAgree` | `FindsFirst` |
| `ListImplemented` | `ImplementsList` |

The inductive invariant has a sequence of addresses as its witness: the path
from `head` along `next` is one that names every allocated node once, `prev`
leads back along it except at the head, where it may dangle, and a search has
passed only nodes that do not match. A step's witness is the old path with an
address put in front or taken out. Since all descriptors in the list differ,
`clients_list_is_head`, which compares contents, finds the head and nothing
else. The refinement then takes each action to a call of `ClientsListSpec` or to
a stutter.

`ClientLoopProofs` proves, for any number of lines, messages and pieces, and any
words:

| Theorem | Property |
|---|---|
| `AlwaysDoesAsTyped` | `DoesAsTyped` |
| `FirstAlwaysIntact` | `FirstIntact` |
| `AlwaysPrintsAsSent` | `PrintsAsSent` |
| `AlwaysReceivesWhatComes` | `ReceivesWhatComes` |

`DoesAsTyped` is of lines that are commands, the third word of a subscribe being
a number: another word stays in `scanf`'s buffer and is the next command. That
no word is lost between the pipe, `scanf`'s buffer and the command half read is
stated without concatenating lines: the words held spell the lines after the
ones carried out, the k-th ending at `cut[k]` (`Spells`). The loop is always in
such a line, or past the end of the input (`InLine`, `PastEnd`), where `scanf`
returns what is left in `cmd`; that this is never "exit" (`NoStaleExit`) is why the
loop goes on to notice the end of the server.

Of the packets the invariant says which piece of which packet each piece under
way is, by its number since the start (`StreamInv`). `FirstIntact` follows, since
what `recv_all` receives over the first packet is the beginning of its
repetition. As long as every repetition was there as a whole (`whole`), the
number of pieces received says where the loop is (`ReceiveInv`): at the start of
a message outside `recv_all`, behind its first copy between the two `recv`s.
For `ReceivesWhatComes`, suppose nothing is under way: then all that was sent has
been received, which is a whole number of packets (`AllReceived`). A `recv` with
a piece of its packet already in hand would need a part of one; the first `recv`
is entered only for what `poll` reported, which nobody else takes (`Reported`);
so it is the second, after an odd number of packets, and the repetition is still
to be sent.

`PacketsProofs` proves, for a topic of any length and a content of any length
from eight bytes on (a number's six and the two that stay behind), with typed
topics up to the length of their field (`TopicsAssumption`), datagrams that have
the field of the topic, a data_type and bytes below `Base` in their numbers
(`DatagramsAssumption`), and floats and doubles of any precision and range whose
distances are powers of two, a double having at least the bits of two floats
(`FloatsAssumption`):

| Theorem | Property |
|---|---|
| `AlwaysSubscribesAsTyped` | `SubscribesAsTyped` |
| `TopicAlwaysAsSent` | `TopicAsSent` |
| `NumbersAlwaysAsSent` | `NumbersAsSent` |
| `TextAlwaysAsSent` | `TextAsSent` |

`Arrives` says what a `TCP_header` of `msg_len` bytes leaves of a message: all
but its last two bytes, which read as zero. From there on it is about strings in
two buffers that agree up to the first NUL of one of them (`Ends`, `SameString`,
`PrefixString`). A topic that leaves room for its NUL ends there in the command,
in the payload and in the node; one that does not runs into what is written
behind it each time (`CommandTextIs`, `CommandArrives`, `NodeIs`). The invariant keeps that the packet is the command's or the
datagram's, and that the server's copy of a datagram agrees with it as far as it
goes.

For the numbers, `ntohl` and `ntohs` give each byte its place (`LongIs`,
`ShortIs`). `RoundedIs` says how far rounding a quotient takes it: half the
distance of its neighbours, which is at most the quotient over the significand,
or the least distance there is. `TwoRoundings` adds up the two of a FLOAT, to a
double and then to a float: as the double's is finer by at least the
significand, and n has a bit less than one, the sum is less than half a decimal.
So rounding to the decimals of d finds n nearer than anything else
(`DecimalsExact`), which is `FloatExact`, and with the float alone
`ShortRealExact`.

Only model-checked: all liveness (`RunsFollowServer`, `ExitObeyed`, `Accepted`,
`Noticed`, `CallsReturn`, `FollowsServer`, `InputRead`), which is beyond the
prover, as are ENABLED and induction over data. Every other invariant and action
property of the passing runs is a theorem. For some of the former the safety half
is a theorem as well, that what they wait for can still happen:
`AwaitedPacketsCome` and `ReportedReady` for `Accepted`, `Noticed` and
`ExitObeyed`, since the loop is blocked only behind a blank line or as long as it
takes a client to finish sending; `ReceivesWhatComes` for `InputRead`. That it
does happen is left to TLC.

## 5. Not modelled

By choice: logging; `stored_messages.h` (nobody includes it); `clients_tests.c`
(does not compile against the present `client_node_create`); the parsing of
arguments; failures of `socket`, `bind`, `listen`, `poll` and `malloc`; the
address of a datagram's sender, which passes through unchanged (its port is
printed in network order). `send` to a subscriber never happens in `PubSub`, so
its failures do not either. A subscriber that ends has then nothing unread, so that
the server meets the end of its stream and no reset: `recv < 0`
(`TCP_server.c:121-125`, and the `DIE` at `server.c:205`) is left to failures of
the network, which are not modelled. What a word or a topic longer than its buffer
damages is not followed: the models stop there (`corrupted`), and the topics of
`PubSub` stand for those shorter than their field. `pow` is taken as exact also
above 10^22, where it is not; `NumbersAsSent` says nothing of such FLOATs. The
pointers of `subscriptions.c` repeat those of
`clients.c` and have no module of their own, except for its cursor, which is in
`Subscriptions`. A pointer that dangles is modelled as far as no call follows
it, which is what `NoUseAfterFree` shows.

What could come next: a bound on the rounds an event can be skipped for, which
`Accepted` and `Noticed` rest on and TLC sees on small instances only; a cursor
that is moved to the head, and with it the forwarding of datagrams and the sends
that may fail.
