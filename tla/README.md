# A TLA+ model of the publish/subscribe broker

The program (C, in `src/src/`) is a broker in one process and one thread. Publishers send UDP
datagrams that begin with a topic; subscribers connect by TCP, introduce themselves with an id, and
subscribe to patterns in which `+` stands for one segment and `*` for zero or more. A subscriber that
disconnects keeps its subscriptions and finds them again when an equal id reconnects. The subscriber
application is a second program (`subscriber.c`).

This directory holds TLA+ modules translated from that code, TLC configurations that check them on
small instances, and proofs checked by TLAPS.

## 1. The system

| component | code | state it keeps | operations |
|---|---|---|---|
| topic trie | `topic_trie.c/.h` | nodes, per node a list of subscribers, per client a list of references to nodes | `trie_subscribe`, `trie_unsubscribe`, `trie_publish`, `cleanup_client_subscriptions` |
| server loop, client registry | `server.c` | the lists of active and inactive clients, `client_count`, `exit_flag`, `pfds`, open descriptors | `run_server`, `handle_new_tcp_connection` |
| client connection | `client_server.c/.h` | `fd`, `id`, `read_buf`, `read_buf_len` | `client_create`, `client_destroy`, `client_handle_data` |
| framed sending | `protocol.c/.h` | none | `send_all`, `send_message` |
| packet building | `server.c` 10-45 | the datagram buffer | `build_packet`, `extract_topic` |
| subscriber application | `subscriber.c` | socket, stdin, a receive buffer | `main`, `handle_received_data`, `recv_all` |
| payload decoding | `subscriber.c` 25-148 | none | `print_packet`, `process_payload` |
| publisher | `pcom_hw2_udp_client/udp_client.py`, `utils/unpriv_port.py` | command line, socket, position in the input file | `setup_parser`, `setup_socket`, `send_message`, `run_all_once`, `run_manual`, `run_random` |
| test driver, build file | `test.py`, `Makefile` | - | not modelled |

How they interact. `run_server` polls stdin, the UDP socket, the listening socket and every active
client, then serves in this order: one line of stdin, one datagram (`trie_publish`, which calls
`send_message` for each receiver at once), one new connection (`handle_new_tcp_connection`, which
*blocks* in `recv` for the id), then a scan over the active clients (`client_handle_data`, which
receives once, handles every complete frame through the trie and acknowledges each). The trie and the
registry share the `client_t` objects: the trie's subscriber lists point to them, they point back to
trie nodes, and `trie_publish` sends to whatever `client_t.fd` is. Inactive clients stay in the trie with
`fd == -1`.

A publisher reads its command line, binds a UDP socket, sends messages of a JSON file and ends; it gets
nothing back. A subscriber sits in `select` on its stdin and its socket; a round takes one line of stdin,
which may be sent as a command (`send_message` blocks when the server does not read), and then one frame from the
socket.

What is hard, though nothing runs in parallel inside the server:

* the peers and the network act between any two system calls (`poll`, `accept`, `recv`, `send`): a
  connection can end, be reset or be replaced at each of these points;
* `pfds` is filled before the accept and consulted after it;
* one fact is recorded twice (subscriber lists and back references; `clients`, `client_count`,
  `pfds` and the descriptor table);
* bytes arrive in pieces of any size and a terminator is written behind each payload in place;
* allocations fail in the middle of a change;
* the server sends publications and acknowledgements with sends that block, and so do subscribers their commands:
  each can wait for the other;
* `poll` and `select` see descriptors, `fgets` takes lines from a buffer of its own;
* UDP loses datagrams, and `recvfrom` cuts them; a short one leaves old bytes behind it;
* limits: 64 segments, 1024 receivers, 2048 bytes, the process's descriptors.

What makes each component correct:

* trie: its two records agree; it is a tree without freed or useless nodes; a publication reaches
  exactly the clients with a matching pattern; nothing refers to a destroyed client;
* registry: a client is in one list; the count, the descriptors and the connections agree with the lists;
* sessions: what an id holds is the balance of its commands over all its connections;
* connection: commands are carried out in order, once each, and acknowledged in order; the buffer never
  overflows, never fills up, and never loses step with the frames;
* subscriber: what is typed is sent, in order; what the server sends is seen, in order; it ends with the server;
* server and subscribers together: all see one history, and no send waits for ever;
* packets: what is printed is what was published, with the port it came from;
* publisher: it sends what its mode says, and where it fails it has sent a part of that;
* loop: no client starves; `exit` ends it; a client's failure is that client's only.

## 2. Modules

| module | what it is |
|---|---|
| `SubscriptionTable` | abstract: a table of how often each client holds each pattern, and whom a publication reaches |
| `TopicTrie` | `topic_trie.c`; implements `SubscriptionTable` |
| `TopicTrieProofs` | theorems about `TopicTrie`, with the refinement of `SubscriptionTable` |
| `FrameChannel` | abstract: frames sent come out once, whole and in order |
| `ReadBuffer` | `client_handle_data` and `send_message` byte by byte; implements `FrameChannel` |
| `ReadBufferProofs` | theorems about `ReadBuffer`, with the refinement of `FrameChannel` |
| `Sessions` | abstract: a session per id that outlives the connections |
| `Server` | `server.c` with `client_handle_data` on whole frames; implements `Sessions` |
| `ServerProofs` | theorems about `Server`: types, registry, position of the scan |
| `ServerHistoryProofs` | what was carried out and acknowledged on each connection; extends `ServerProofs` |
| `ServerSessionProofs` | the refinement of `Sessions`, whom a publication reaches, and what each id holds over all its connections; extends `ServerHistoryProofs` |
| `Feed` | abstract: of the messages posted a reader is shown lines, in order, none twice |
| `Packet` | operators: `extract_topic`, `build_packet`, `print_packet`, `process_payload` in bytes |
| `Publisher` | `udp_client.py` and its port check |
| `Publication` | publishers, the UDP part of the server and a subscriber's screen, in bytes; implements `Feed` |
| `PublicationProofs` | theorems about `Publication`, and with it `Publisher` and `Packet` |
| `History` | abstract: one order of commands, publications and ends; each subscriber is shown its part |
| `Broker` | `subscriber.c`'s loop and `server.c`'s loop over connections that fill up; implements `History` |
| `BrokerProofs` | theorems about `Broker`, with the refinement of `History` |
| `SequenceLemmas` | lemmas about sequences, prefixes and `FlattenSeq` that several of the proofs cite |
| `TopicTrieMC`, `ReadBufferMC`, `ServerMC`, `PublicationMC`, `BrokerMC` | the instances for TLC |

`Server` uses a table `subs` in place of the trie, which `TopicTrie` shows to be one, and whole frames in
place of bytes, which `ReadBuffer` shows to be what comes out of the buffer. `Broker` has whole frames and a
counter per client in place of the table, and `Publication` a set of wanted topics. These appeals are between modules
that are checked separately. `Publication` composes `Publisher` and `Packet` by EXTENDS.

Operators with names that end in `Bug` are mutated forms of the definition below them. They document
which slip each property catches; no specification uses them.

### TopicTrie

A node is named by its path from the root, a sequence of segments; `nodes` is the set of live ones, so
`parent` is the path without its last segment. `subscribers[n][c]` counts the entries of client `c` in the
list of node `n`, `refs[c][n]` the references of `c` to `n`; the code keeps both lists, changes them in
different functions, and so does the model. `broken` has the paths of `struct child` entries linked with
`node == NULL`. `last` is what the last call returned. `scarce` is the environment: while it holds, any
allocation may fail.

| action | code |
|---|---|
| `Subscribe` = `Subscribed` or `RefusedAtOnce` or `RefusedHalfway` | `trie_subscribe` with `node_create`, `get_or_create_child`, `node_add_subscriber`; the refusals are its early returns, before anything changed or after `k` segments were made |
| `Unsubscribe` = `Unsubscribed` or `NotUnsubscribed` | `trie_unsubscribe` with `remove_subscriber_from_node`, `node_remove_if_empty` (`Pruned`) |
| `Publish` | `trie_publish` with `collect` (`Collect`) and `seen[]` (`MaxSeen`) |
| `Cleanup` or `CleanupCrashes` | `cleanup_client_subscriptions` from `client_destroy`; `client_create` does not set `subscriptions`, so that the list of references may end in garbage, which is followed (`crashed`) |

`Pruned(D, S)` states the result of the upward recursion of `node_remove_if_empty`, started at the nodes
of `D` when `S` is what is left of the lists: a node is freed when nothing below it is subscribed, all
below it lies on the way to a node of `D`, and no broken child link hangs below. `Cleanup` prunes at the end
instead of after each entry, which frees the same nodes, since a node is freed as soon as the last of the
entries below it is gone.

### ReadBuffer

`read_buf` is the sequence of the `read_buf_len` bytes received; `wire` what was sent and not received;
`off` the local variable. `Receive` is the `recv` of a piece of any size that fits; `HandleFrame`,
`BogusLength`, `RefuseFrame` and `Compact` are the loop's exits and its body. `Terminated` is
`payload[len] = '\0'`, which overwrites the first byte of the following frame's header. That is harmless
only because that byte is the high byte of a type below 256, which `BufferAssumption` says of what is sent.
`nul` is where the last terminator went.

### Server

`pc` says where the one thread is. Each system call is a step (the sends of one publication are taken together): `Poll`, `ReadStdin`, `ReadUdp`
(with `Publish`), `Accept`, `ReceiveId`, `ScanClient`, `Receive`, `HandleFrame`, `FramesDone`, `EndRound`,
`Destroy`, `Exit`, `PollFails`. `clients` and `inactive` are the lists in their order, `pfds` is what poll reported when it
ran, `idx` and `cur` walk `pfds` and `clients` side by side. `fdtab` says which connection is behind a
descriptor; accept takes the lowest free one, so numbers are reused.

A connection record holds what its peer did (`peer`, `inq`, `sent`) and what happened to it (`applied`,
`acked`, `news`). `peer` is `"open"`, `"fin"` (closed), `"rst"` (reset), or `"dead"`: a send was
answered by a reset, the next one raises SIGPIPE. `Sent` gives the outcomes of `send_message`, which sends
header and payload separately and so can die between them.

The `recv` of the id takes up to 15 bytes without framing. Of commands that are there too it may take none, up to two whole
(`MostWhole`: a frame has six bytes or more), and a part of the next, which leaves the connection `garbled`. On a garbled connection bytes are
taken for headers: the client is removed for a length that makes no sense, or frames are lost, up to a point from where
the framing may be in step again (`Losses`). `skipped` counts what a connection lost in one way or the other.

`MayFail` lets `malloc` and `accept` fail at any time; `accept` also fails when `NumFds` descriptors are open. A peer resets only if something
that was sent to it is unread.

`Spec` has each of `NumConns` connections once. `ChurnSpec` adds `Renew`, by which the number of a closed connection that sent no command
is used again: clients then come and go for ever. Sends do not block in `Server`; `Broker` has the sends that do.

`Destroy` may crash, as `CleanupCrashes` in `TopicTrie`.

### Publisher, Packet, Publication

A run of `udp_client.py` goes through `ParseArgs` (argparse with the port check and the JSON file; a refusal ends it in
stage `"usage"`), `SetupSocket` (a port may be taken; port 0, the default, means any free one) and `Run`, which sends one
message of the file in each step: the next one, one that is typed in, or any. Every exception ends the run in stage
`"crashed"`: no payload, an IPv6 address on an IPv4 socket, and, *after* the datagram went out, a missing description or a
negative delay. `Sendto` leaves the datagram in the server's socket or loses it. `sent` is history in `run_all_once` and
`run_manual` and the counter of `run_random`; `posted` is history.

`Packet` has the bytes. Its sizes are parameters (`TopicLen` for 50, `IntSize` for 4, `BufSize` for 1500, `SubBufSize` for
2048, `HeaderSize` for 25). A printed number is represented by what determines its digits: the integer, the hundredths, or
sign, mantissa and number of decimals. `AsSigned` is `%d` of a `uint32_t`.

`ServeDatagram` is the UDP part of a round: `recvfrom` cuts, `extract_topic` reads what the stack holds behind a short
datagram (`Garbage`), and `build_packet` moves the datagram up in its buffer. Where there is no room for the header it
writes behind the buffer: the packet comes out as intended, or the server ends. `Display` is `handle_received_data`.
`arrived` is history, and `from` says which datagram a packet was; no byte depends on it.

### Broker

`stage` says where a subscriber is: in `select`, in `send_message`, before the socket part of its round, or ended. `pipe`
holds lines the kernel has for its stdin, `stdio` those `fgets` has read ahead, and `line` is the array `fgets` fills:
at the end of stdin it keeps what it had, unless something else was put in its place on the stack. `fds` is what `select`
reported of the socket, which is used after the send. `Select` is one step with the stdin part of its round, up to
the send: nothing that the other processes do in between is looked at there, except that more may have been typed, which the
same step taken later covers.

The server is as in `Server`, without connecting, and with one more thing: `outbox` has the sends under way, and `SendNext`
takes one frame when the connection has room. While `outbox` is not empty the thread is in `send`, and no other server
action but `SendNext` and `SendFails` is possible: an acknowledgement to a peer that ended may fail, and the client is then removed with the rest of its frames. `Poll` is one step with the UDP part; a datagram or a line that comes between the two is seen in
the next round, as poll reported; `PollExit` is the round in which "exit" is read. `cur` and `buf` are the client being served and its complete frames. `log` is history: it
is appended where the trie operation, `trie_publish` or the removal takes place.

A line that contains "subscribe" and is shorter than the prefix is sent with a length near 2^32 (`"bogus"`):
`send_message` then fails where the memory ends and the subscriber ends, and the server drops the client on the length.
When SIGPIPE ends the server in the middle of a client's frames (`SendNext`), those that are left are not handled.

## 3. Runs

Each run takes from a second to somewhat over two minutes (two TLC workers).

| run | instance | what it shows |
|---|---|---|
| `trie_refines` | 2 clients, 7 patterns (names, `+`, `*` first/last, the empty one, one too long), 6 topics, 2 entries per client | both records agree, the trie is a pruned tree, no dangling client, every result and receiver set is the table's |
| `trie_memory` | 2 clients, 4 patterns three levels deep, allocations fail at any time | the same with partial failures: no subscription changes when -1 is returned, rollback and half-made branches keep the tree; `seen[]` has one entry and overflows |
| `server_commands` | 2 ids, 2 connections, 3 commands in all, one datagram | commands in order, kept over reconnections; `Server` implements `Sessions`; a publication reaches just the connected subscribers, once |
| `server_fair` | 2 ids on 2 connections that are made again for ever, 1 command, exit, allocation failure, failing accept | the registry is consistent, the scan is at most one entry off; liveness, section 4 |
| `read_buffer` | buffer of 7 bytes, header of 3, 5 frames, 3 per connection | no overflow, no full buffer, no lost step; implements `FrameChannel` |
| `publication` | 2 publishers, 18 kinds of start, 16 kinds of message (each INT fits into an int), 2 messages each | the modes are kept, and `Publication` implements `Feed`; nothing is dropped behind the socket; only a datagram without room for its header ends the server |
| `broker` | 2 subscribers, 4 pairs of scripts, one datagram, one frame per direction | `Broker` implements `History`; commands as typed; one client's mistakes are its own; liveness, section 4 |

Runs that find the code at odds with what the repository says of it. Each has a property that states the quoted
sentence:

| run | what the code does |
|---|---|
| `trie_double_star` | `a/*/*` does not match `a`; the README's `*` is "zero or more segments" |
| `server_sigpipe` | sending to a peer that left ends the server |
| `server_starved` | a client accepted in this round is put in front of the list, so that the last client is tested by memory behind the array of poll; if a newcomer comes in every round, what that client sent is never read |
| `publication_as_posted` | a positive INT of 2^31 or more is shown as a negative number |
| `broker_eof` | at the end of stdin, which the code's comment says is ignored, the last command is sent again, in each round |

`ShownAsPosted`, which `publication_as_posted` checks, fails in a second way in the same instance: a STRING of 1500 characters, as in
`sample_payloads.json`, is shown cut, since the buffer of 1500 bytes holds topic and type too.

The model contains these too, and no run of their own is about them:

* cleanup follows the uninitialised `subscriptions` (`CleanupCrashes`, `Destroy`);
* an `exit` that `fgets` has read ahead of another line is not noticed by `poll` until more is typed (`ReadAhead` in `ExitObeyed`; with the one line of `server_fair` it does not happen);
* server and subscriber may each wait in `send` for the other, for ever (`MutualWait`);
* a line that `fgets` read ahead at a subscriber waits until more is typed, or until the end of stdin, which `select` reports in every round
  (`LinesTaken`);
* a datagram of more than about 1480 bytes, such as the sample's huge string, leaves `build_packet` no room for its header
  (`HasRoom` in `OnlyLongOnesKill`);
* a subscriber of a topic that happens to be what the stack holds behind a short datagram is sent a packet without content,
  which it does not print (`ShowsFeed` says that it is not shown);
* of more than 1024 receivers `trie_publish` serves 1024 (`MaxSeen`; the abstract table says the same);
* a subscribe that runs out of memory leaves the nodes it made (`RefusedHalfway`), and they stay when all
  subscriptions are gone; if `node_create` fails in `get_or_create_child`, the child stays linked without a node and its name is refused
  while the parent lives (`broken`, `Walkable`);
* the longest frame has its terminator written at `read_buf[READ_BUF_SIZE]` (`nul` in `InBuffer`): that is the low byte
  of `read_buf_len`, which at this moment is 2048, so on a little-endian machine nothing changes.

The other properties are checked in the presence of all this and say where
they end: `ShiftedByOne` is what remains of the alignment, `PublishedToSubscribers` speaks of
publications that do not kill the server, `trie_refines` has no adjacent stars, the properties of `Server` with `Up` end when
the loop does.

### Bounds, and why they are enough

* `MaxEntries = 2`: a client can hold one pattern twice, or two patterns on one branch; that is where the
  lists and the pruning can go wrong. Three entries do not add a case of another kind.
* patterns and topics: each pattern is a prefix, a sibling or an overlap of another, and topics reach the
  end, the middle and beyond of each. `MaxSegments = 3` stands for 64: `TooLong` is a comparison. The cut of
  a *topic* at 64 segments is not modelled, since a topic has at most 50 bytes.
* `MaxSeen = 8` where the limit must not matter, 1 with two clients where it must.
* `NumConns = 2` with two ids: a client is accepted while another one is served, finds its id taken, or returns, with the number or with
  another one. In `server_fair` this goes on without end, since a number is used again; only a connection that sent the one command is not.
  With `NumFds = 2` a descriptor is used again at once, by the other client or the same; accept fails there by `MayFail`. For more
  connections and fewer descriptors than connections the safety properties are proved (section 5).
* `MaxCommands = 3` over all connections: enough for a sub and an unsub on one and a command on the other, for a command swallowed
  by the handshake, and for one left in the buffer when an acknowledgement fails. `MaxDatagrams = 1`: publications do
  not change the server's state, so that one, at any moment, meets every state.
* `ReadBufSize = 7`, header of 3: bodies of 0, 1, 2, 4 (fills the buffer exactly) and 5 (too long by one);
  the bodies contain bytes that look like headers. The proofs hold for every size.
* `TopicLen = 2`, `IntSize = 1`, `BufSize = 16`, `HeaderSize = 11`, `SubBufSize = 27`: a topic that fills its field, one that ends
  early and one that the datagram cuts; both signs, the largest and the least value; a datagram that fits with a port of four digits and not with
  one of five; one that is cut. As in the code, the subscriber's buffer holds the longest packet and the server's does not.
  `MaxSends = 2` with two runs: two messages of one run and of different ones in either order, one lost or both.
* `Capacity = 1`, `MaxSent = 3`: a frame under way while the other side is in `send` is the least that blocks both; the script
  that ends in `"eof"` fills both directions by sending its last line again. The scripts have a wild subscriber (end of
  stdin, a short line, an unsubscribe of what it does not hold) and a tame one beside it.
* `SYMMETRY` permutes the two ids in `server_commands` (nothing distinguishes them); it is not used for liveness.

`CHECK_DEADLOCK FALSE` in all runs but one: the programs end, and the server waits in poll for
peers that need not come. `read_buffer` checks deadlock: a dropped client can always return.

## 4. Fairness

`Server!Fairness` has two parts. `WF(ServerNext)`: the process runs whenever it is not blocked in a system
call; nothing is assumed about which of several ready things it does first, the code's order decides that.
`WF(SendId(k))`: `subscriber.c` 227-234 sends the id right after connect, without waiting for anything. Without it
`handle_new_tcp_connection` may wait for ever for one silent peer, and with it every client. Nothing is assumed
about commands, closing, typing or datagrams.

`ExitObeyed` and `CommandsReceived` have the exception `Stuck`: the server is in `recv` for a client with
nothing to read. That state exists because of the misplaced poll entries, and it lasts until
that client sends or leaves. `ExitObeyed` has also `ReadAhead` (section 3).

`CommandsReceived` has one more, `NeverARest`: from some time on, every scan comes after an accept. A scan without a newcomer, in
which the array of poll and the list are in step, serves every client that poll reported; as long as such scans come now and then nobody is
starved, and without any the last client is. `NoneStarved` is the
same without the exception, and `server_starved` shows it violated. Both are checked under `FairChurnSpec`, where newcomers do not run out.

`Broker!Fairness` is weak fairness of the server and of each subscriber: a process runs as long as it is not blocked in a
call. Typing, "exit" at the server (`PollExit`) and datagrams are not fair. `SendsComplete` and `EverythingSeen` have the one exception `MutualWait`, which no
fairness removes: it is two blocking sends, each of which waits for the other. `StopsWithServer` has none. The liveness of `Server` is that of a server whose peers read.

## 5. What is proved

All theorems hold for every value of the constants that the named assumption of the module allows; TLC evaluates the
assumption in each run. None of them assumes fairness. Those about `Server` are about `Spec`, in which each connection has a number of its
own and there are as many as one likes; `ChurnSpec` is for TLC, which needs a bound.

### TopicTrie (`TrieAssumption`)

* `Safety`: `Spec => []SafeInv`, with `SafeInv` = `TypeOK`, `BackRefs`, `TreeShape`, `NoDanglingClient`, from
  which `TypeCorrect`, `BackRefsAgree`, `StaysATree` and `NoneDangles` follow. `TypeOK` is not inductive alone:
  `trie_unsubscribe` decrements `subscribers` and `refs` after testing only the first, and what keeps the
  second in step is `BackRefs`. `BackRefs` in turn needs `TreeShape`, since a freed node must have had no
  entries (`PrunedUnused`), and `TreeShape` needs that what is pruned is closed downwards (`PrunedShape`).
  `NoDanglingClient` needs `BackRefs`: cleanup walks the references only, and empties the lists because the
  two agree. The invariant's steps are one lemma per operation.
* `BranchesPruned`: without failing allocations every node leads to a subscriber (`NoDeadBranches`). The
  strengthening (`Tidy`) adds that no child link is broken and memory is not scarce. With failing allocations the statement is
  false (section 3).

* `ImplementsTable`: `Spec => Refines`, the refinement of `SubscriptionTable`, when no pattern has a `*` right after a `*`
  (the hypothesis `NoDoubleStar`). Without it the statement is false: that is what the run `trie_double_star` shows. What has to be
  shown is that `collect`, which walks the live nodes, finds exactly the clients the table says (`CollectIsMatching`).
  The table matches a pattern as a whole; the walk stands at a node and asks which patterns below it match the rest of the
  topic. The lemmas `MatchExtends`, `MatchStarts` and `MatchNothing` turn the one into the other, `DueBelow` splits what is due at a
  node by its children, and `CollectUnique` says that only one function satisfies the equations of `collect`, by the depth of the
  nodes. The invariant `TableInv` adds to `SafeInv` that only nodes of patterns have subscribers, that no node is too deep, and that
  refusals other than of long patterns need an allocation that failed.

### ReadBuffer (`BufferAssumption`)

* `BufferSafe`: `Spec => []Inv`, with `Inv` = `TypeOK`, `InBuffer`, `RoomLeft`; hence `RoomAlways` and
  `InBufferAlways`. Room is left because the loop ends with less than a whole frame at hand, and a frame whose
  length was accepted fits into the buffer; that argument (`NextInv`, `Compact`) needs the type of the bytes and
  `off <= read_buf_len`.
* `StepSafe`: `Spec => []StepInv`; hence `FramesInStep`, `LegalStays` and `NothingWaits`. `StepInv` says where the parser is:
  for some `n` the first `n` frames sent were handled (`Behind`), and what is in the buffer from `off` on, followed by what is on the wire, is the
  encoding of the others, but for the one byte a terminator took the place of (`IsAhead`). That byte is what makes `InStep`
  itself not inductive in the middle of the loop: it is the first byte of the next header, it was 0, and 0 was written.
  The lemmas about the encoding (`HeaderOfNext` and those before it) are where the arithmetic of the header is.
* `ImplementsChannel`: `Spec => Framing`, the refinement of `FrameChannel`. With `StepInv` a handled frame is the next one
  that the abstract channel holds, and all other steps are stutters or the channel's own sends and losses.

### Server (`ServerAssumption`)

* `ServerSafe`: `Spec => []ServerInv`. `ServerInv` is the types and, while the server is up, six parts: no id is listed twice
  (`ListedOnce`); the active clients have a descriptor that leads to a connection with their id (`ClientFdsOpen`); the
  descriptor table has just those and the socket just accepted, each connection once (`FdTable`); the backlog (`Arrivals`); the count
  and the client in hand (`Scanning`); ids are read after accept (`Introduced`). No part is inductive without the others:
  that a reconnecting id is not active comes from the list, that its descriptor is free from the table, that
  the table has no second owner from the list again. `ServerTypeCorrect` and `RegistrySound` follow. The types need this as well:
  `client_count` stays a natural number because it counts the list.
* `ScanShiftedByOne`: adds `WalkInv`, which says of each point of the round what the array of poll contains; the scan's two
  counters differ by at most the one client that `accept` prepended.
* `HistoriesSafe` and `InOrder`: what is due on a connection, the commands sent without the first ones that were lost to the handshake or to a
  framing out of step, is, as long as the connection is held, at every moment the commands carried out, the frames in hand and the ones not received (`Complete`). A command that is lost is lost before any later one is carried out (`RestOfRest`, `RestCut`).
  `CommandsInOrder` follows.
* `SubscriptionsStay`: what an id holds is the balance of what was carried out for it. The balance counts places, a
  connection and a position; a command takes a place that was free, which the histories bound by `MaxCommands`.
* `ImplementsSessions`: `Spec => KeepsSessions`, step by step. `ReachesSubscribers`: the action property
  `PublishedToSubscribers`.

### Broker (`BrokerAssumption`)

* `BrokerTypeCorrect`: from `Shapes`, which has the types of all variables and how the server gets through a round: it serves one
  client of those poll reported, and has sent everything when it polls. `AllPlaced` says for whom the sends under way are.
* `HistorySafe` and `ImplementsHistory`: `Spec => SharesHistory`, the refinement of `History`. The invariant is `Shapes`, `Logged` and `Flow`.
  `Flow` says of each subscriber that what it printed, what is on its connection and what is being sent to it are together exactly its part of the
  history, so that the next frame it takes is the next one that `History` owes it. `Logged` ties the history to the server's lists: a
  client is active as long as the history has no end of it, and its entries are the difference of its commands in the history; by this
  the receivers `trie_publish` picks are those the history says.
* `CommandsGoAsTyped`: `[]CommandsAsTyped`. The invariant `InputInv` says how many lines were taken, that `stdio` and `pipe`
  hold the rest (`Waiting`), that the array of `fgets` has the last one, and that what was sent is the commands of the lines taken, followed, only
  after the end of stdin, by copies of the last (`Matches`). `CommandsAsTyped` says of the copies only that they come last; that there are none
  is `EofIgnored`, which does not hold.
* `GoodSafe`: `[]GoodOnesStay`. The invariant `Good` looks ahead: all that a well-behaved subscriber is still to say,
  wherever it is at the moment (the server's buffer, the connection, the send under way, `stdio`, the pipe, the typist), can be carried
  out from the entries it has now without ever taking back one that is not there (`Walks`). A step moves a word from one place to the next,
  or carries one out; hence the server never has a reason to drop that client, whatever the others do.

### Publication (`PublisherAssumption`, `PacketAssumption`, `PublicationAssumption`)

The assumptions have the sizes of the code in general form: the header has room for an address, a port of five digits and what is
between and behind them, a subscriber's buffer holds a header and a whole datagram, and an address has no space in it.

* `PacketRead`: `print_packet` finds in a packet the port and the datagram that `build_packet` put there. A port is printed
  with at most five digits (`DecimalDigits`), so that the header holds it, and none of them is the space `print_packet` looks for.
* `TypeCorrect`, `ModesKept`, `OnlyLongKill`, `NoneMissed`: `[]TypeOK`, `[]KeepsMode`, `[]OnlyLongOnesKill`, `[]NothingMissed`,
  all from `Inv`, which has five parts.
  `PubTypes` are the types of the publishers' variables.
  `ModeInv` adds to `KeepsMode` that a run which has not bound its socket yet has sent nothing, and says of a run
  under way how far it is; without this a run could be refused after it sent something.
  `DataInv` says that nothing but packets made from what was posted is on the way to the subscriber, that it printed only lines
  of such packets, and that what was dealt with and what waits in the socket, one behind the other, are in the order of posting
  (`Ordered`).
  `KillInv` says that where the server died there is a datagram with no room for its header, which is neither dealt with nor
  waiting. That the datagram dealt with last does not come again is what `Ordered` is needed for.
  `DueInv` says that what is due of the lines and the packets under way is what is due of the datagrams dealt with. It rests on
  `NotAskedFor` and `NotPrinted`: a datagram that is not forwarded, or whose packet is not printed, means nothing to the
  subscriber, whatever the stack held behind it.

### How

Facts about all numbers are proved by the least counterexample (`LeastNat`, `UpTo` in `SequenceLemmas`), as the induction
theorems of the library cannot be instantiated here; so are the facts about `FlattenSeq`, whose definition is a
recursive function, that the parts of the histories and the encodings need (`FlattenIsSum`, `FlattenAppend`, `FlattenCons`).
A recursive function is a CHOOSE of some function that satisfies its equation; that there is one is shown before the equation is used
(`DecimalEquation`: five unfoldings give one, since a port has no more digits; `CollectIsMatching` for `collect`).
The strengthened invariants were checked by TLC on the instances of section 3 before they were proved.

### Only model-checked

* `ShowsFeed`: the refinement of `Feed` says that each line shows the field values of its datagram. The subscriber decodes the same
  bytes that `Meaning` speaks of, but `Meaning` says what the number or the string *is*, and that the decoding yields it is a fact
  about a fold over the bytes, and so are the digits of the port. Proved of it are order and completeness (`NoneMissed`) and that the packet is read as it was
  built (`PacketRead`);
* `EveryMatchServed`, `ServerSurvives`, `NoneStarved`, `ShownAsPosted` and `EofIgnored`, which do not hold (section 3);
* liveness (`ExitObeyed`, `CommandsReceived`, `SendsComplete`, `EverythingSeen`, `StopsWithServer`, `LinesTaken`): the
  prover has no rules for fairness and ENABLED.

## 6. What is left out

* formatting and printing; the wording of messages; addresses;
* failure of `strdup` for a node's name or in `trie_publish`, of `malloc` in `collect` and in
  `extract_topic`: the code dereferences NULL at once, so there is no behaviour to describe after it; `poll` interrupted by a signal;
  end of file on the server's stdin (poll then returns at once, every round);
* ids of 16 characters and more, which the handshake cuts to 15; empty ids are ids like others;
* partial writes: a frame is written when there is room for it. A part of a frame that is already on the connection does not
  change who waits for whom;
* in `Broker`: connecting and returning (`Server` has them); the first line of a subscriber whose stdin is closed at once is
  an uninitialised array, taken here for a line without command; lines of more than 127 characters; a line with "subscribe"
  in its middle, which is sent with the wrong pattern;
* datagrams that overtake each other or come twice on the way: the programs run on one host in the repository's tests, and nothing in the
  code reacts to either. "In order" in `ShowsFeed` is therefore said of a socket that keeps the order; `NothingMissed` speaks of arrival;
* in `Publication`: which bytes the overflow of `build_packet` changes; a JSON file that is not a list of objects; the prompts
  of `run_manual` and its `int()` of what is typed, beyond that an index is chosen or the run ends;
* errors of `socket`, `connect`, `select`, which end the program at once;
* in `Server`: frames in pieces, of unknown type or of bogus length (`ReadBuffer` has them), and the trie's nodes
  (`TopicTrie` has them);
* after the loop has ended peers and typists do nothing more in the model: the server reads nothing more;
* order within the trie's lists: it decides only in which order receivers are served and whom `seen[]` leaves
  out, which `Publish` leaves open.

### Not modelled

`test.py` starts the programs and compares their output: it has no state of the system. `Makefile` has no behaviour at run time.

## 7. Plan

Done: all programs, with their abstract specifications, and the proofs of section 5: of the properties that passing runs check,
every one but `ShowsFeed` and those of liveness is a theorem.

Next, in this order:

1. `ShowsFeed`: the refinement of `Feed` with the decoding of one datagram as a lemma, first for the types whose width is
   fixed (INT, SHORT_REAL, FLOAT), then for STRING, where only the position of the NUL matters.
2. Proofs that are longer than what they say, above all in `PublicationProofs` and `BrokerProofs`: lemmas that both need belong in
   `SequenceLemmas`.
