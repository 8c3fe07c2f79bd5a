# Verification of udpp (crate `veq`)

TLA+ modules, TLC runs and TLAPS proofs for the session protocol of this
repository: encrypted sessions over UDP, set up by a handshake between two
peers that have exchanged their connection data, with large messages cut into
chunks. `PROJECT.json` maps every definition to the lines it models and lists
the runs, the mutants, the findings, the hazards and the theorems.

## 1. The system

| Part | State | Operations | Interacts with |
|---|---|---|---|
| `snow_types.rs` `LossyTransportState` | `next_nonce`, `received_nonces` (window of `size`, always 1 today) | `write_message`, `read_message` | owned by a pending responder, then by a `Session`, under a lock |
| `snow_types.rs` `SnowInitiator`, `SnowResponder` | one handshake state per `connect()` | `initiation`, `response`, `receive_response` | pending sessions |
| `session.rs` `PendingSession{Poker,Initiator,Responder}` | a send loop (task), the packet that made it ready | `handle_incoming`, `is_ready`, `responder`/`session`, `abort` | taken out of and put back into the handler's maps |
| `session.rs` `Session`, `Receiving` | message queue, map of wakers, `heartbeat`, `dead`, keepalive and watchdog tasks | `handle_incoming`, `send`, `recv`, `Receiving::poll`, `Drop` | handler (incoming packets), user tasks (recv) |
| `handler.rs` `Handler`, `SessionReady` | four maps from session id to entry; the broadcast and wakers of each waiting `connect()` | `handle_incoming`, `upgrade_session`, `initiate`, `respond`, `send`, `recv_from`, `close_session`, `remove_session` | all tasks share it, each map under its own lock |
| `veq.rs` `VeqSocket`, `BidirectionalSession` | connection info; receive loop, outgoing loop | `bind`, `connect`, drop of the last handle | handler, sockets |
| `transform.rs` `Chunker` | group counter, partial groups (at most 10), completed messages | `send`, `recv`, `add_chunk` | handles are clones and share the state |
| `dualstack/` | one socket or one per address family | `bind`, `dualstack`, `recv_from` (select), `send_to` (by family) | `veq.rs` |
| `ip_discovery/` | none | `discover_ips`: bound address, interfaces, STUN | `veq.rs`, when a socket is made |
| `bin.rs` | none | the command-line program | `veq.rs` |

What is hard in it: tasks that meet between the locks of several maps; wakers
registered after the check they guard; an entry that is in no map while it
handles a packet; session ids that are used again, so that packets and tasks
of an earlier connection reach a later one; a network that loses, duplicates,
delays and reorders; NATs that show different addresses to different peers;
payloads that race the packet which ends the handshake; futures dropped at an
await; a watchdog against late packets. The list with source
lines is "hazards" in `PROJECT.json`.

What makes the parts correct:

- transport: at most once, never later than the window allows (in order for a
  window of 1), bounded memory, and
  packets that do not decrypt have no effect;
- handshake: both sides get the same key, the responder only after the
  initiator proved it has it, and both `connect()` calls return;
- session: no receiver sleeps over a message or over the end of the session,
  the watchdog notices a lost peer and never gives up one it hears;
- handler: an entry is in one place, a waiting `connect()` can still be
  answered, a send loop belongs to an entry, a dropped handle leaves nothing
  behind and never takes the session of another connection with it;
- sockets and addresses: two peers with a usable path find it among everything
  they advertise, and the address they settle on leads to the other;
- chunker: what comes out was sent, whole, once, in order, without a panic.

## 2. The modules

| Module | Models | Lines up with the code as |
|---|---|---|
| `LossyChannel` | what one direction of a session promises | abstract specification |
| `LossyTransport` | `LossyTransportState` | actions `write_message`, `read_message` and their failures; implements `LossyChannel` |
| `Session` | `Session`, `Receiving` | one action per atomic access: store, queue operation, waker map under its lock |
| `Handler`, `MC_Handler` | `Handler`, `SessionReady`, `connect`, handles | one action per lock of a map; `MC_Handler` adds symmetry |
| `Handshake` | the pending sessions of two peers and the network between them | one action per `handle_incoming` and per tick |
| `Opening` | `Session::send`, the keepalive task and a responder that is still pending | composes `LossyTransport` with its users |
| `Traversal`, `MC_Traversal` | `bind`, `dualstack`, `discover_ips`, the socket loops and the addresses of the pending sessions, with NATs between the peers | one action per bind, `connect()`, tick and packet; `MC_Traversal` lists the environments; implements `Handshake` |
| `Chunker` | `Chunker`, `ChunkGroup` | one action per lock; implements `LossyChannel` over whole messages |
| `*_proof`, one for each of these but `LossyChannel` | | theorems and proofs |

How they fit together. `LossyTransport` implements `LossyChannel`. `Opening`
takes the transport (`INSTANCE`) with its two writers, the keepalive task and
`send()`, and its two readers, the pending responder and the `Session` it
becomes, and again implements `LossyChannel`, for payloads. The delegate of
`Chunker` is that channel, as the sequence of chunks and the reader's place in
it: what is skipped is lost, and nothing comes back; `Chunker` implements the
channel a third time, for whole messages. `Handler` treats a packet's decryption
as a property of the packet; `Handshake` has the keys and treats a whole
`handle_incoming` as one step; `Traversal` has the addresses and implements
`Handshake` for one `connect()` of each peer. `Session` starts where `Handler`
puts a session into its last map.

Abstractions, beyond those:

- **Handler** has one session id. The maps are keyed by it and no operation
  touches two keys; each map is therefore a slot. A connection stands for its
  `one_time_id`, which is a fresh Uuid. A send loop is a member of `looping`:
  `abort()` takes it out, dropping its `JoinHandle` does not.
  `Remove` is one block of `remove_session`, which has the same form for the
  four maps; `Take`, `PutBack` stand for the three places where
  `handle_incoming` takes an entry out and puts it back. `ConnectRemove`,
  `Prepare`, `PrepareFails` and `Insert` stand for both `initiate` and
  `respond`, which differ in the map (`role`). The `Err` arms of
  `handle_incoming` for `session()` (handler.rs:126-128, 153-155) are left out:
  `session()` is called on entries that are ready only, a response that does not
  decrypt comes back as `SessionResult::Err`, and a finished handshake does turn
  into a transport.
- **Session** counts payloads and abstracts the intervals of 1 s and 5 s to
  ticks; `silence` counts the watchdog's ticks since the last keepalive. `Receiving` ids, Uuids in the code, are any unused
  number: the order
  in `pop_first` is thereby arbitrary. `dropped` counts the receives dropped
  while they wait (at most `MaxDrops`). `Session::send` changes nothing but the
  transport and is an action of `Opening`.
- **Handshake** takes a session key to be the pair of the `connect()` numbers
  that made it. A keepalive under another key does nothing there; that it moves
  the nonce window of the responder is what `LossyTransport_stray` shows. The
  history variable `stale` says that a packet was taken whose send loop had
  stopped; it is FALSE again after every `connect()`.
- **Opening** looks at one direction, from the initiator, whose `connect()` has
  returned. The packets are those of one key. `fifo` is chosen at the start: the
  network keeps order and loses nothing, or it may do anything.
- **Traversal** reduces an address to its family, the kind of ip (loopback, LAN,
  external), its owner and the kind of port (bound, mapped for the STUN server,
  mapped for one destination). A socket is bound to the unspecified address, to
  loopback or to a LAN address; one bound to a global address of an interface is
  not modelled. A host without a NAT has its external address on an interface and
  advertises it whether or not STUN answers. A host has a NAT or firewall per family: whether
  STUN gets an answer, how ports are mapped, and whom it admits. Hairpin
  translation is not assumed, nor that a packet crosses between the loopback and
  the LAN address of one host, and peers on one LAN do not use external
  addresses. A packet to a loopback address may come back to its own sender, and
  is left out: an initiator ignores initiations and a poker ignores pokes.
  Both sockets of a dual one are bound to the same kind of ip. A connection info
  is handed over after its socket is bound. Losses are packets never taken; the
  initiator's session has a watchdog that gives up after 5 to 10 s, which is not
  part of this module, so `ReachableConnects` is about packets that are not all
  lost for that long.
- **Chunker** keeps of a chunk its group, index, group length and the message
  it is part of. A message of no chunks (empty data) is sent as nothing. The
  kind of delegate and the number of receiving clones are chosen at the start. A
  dropped future lets go of its locks and forgets its locals; `drops` counts them.
  The peer is a `Chunker` too, so what the delegate delivers deserializes: the
  `unwrap` of `bincode::deserialize` (transform.rs:159) cannot fail and is left
  out.
- **External code** is modelled by how it is used: `snow` (a packet decrypts
  under its own key only), the tokio runtime (a woken task is polled), UDP, NATs
  and STUN.

### Runtimes

`#[tokio::main]` in `bin.rs` is the multi-thread runtime; `#[tokio::test]` is
the current-thread one, where code without an await runs undisturbed. The
constant `Preemptive` of `Session` and `Handler` selects between them:
`OthersIdle`, `PollMayStart` and `AnnounceMayStart` keep such a stretch whole
when it is `FALSE`.

## 3. The runs

Passing runs:

| Run | Bounds | Shows |
|---|---|---|
| `LossyTransport_window` | 2 data, nonces to 4, 2 stray nonces, window 2 | types, no replay, nothing comes out too late, rejected for ever, implements the channel |
| `Opening_race` | 5 messages, keepalives and payloads, window 1, both kinds of network | only payloads ahead of the first keepalive are lost, the responder becomes a session, implements the channel |
| `Session_single` | 2 receivers, 3 Receiving ids, 3 payloads, 1 dropped receive, current-thread | sleepers registered, at most one message stranded per dropped receive, no false death, a silent peer noticed at the watchdog's second tick, disconnects delivered, a session without its peer ends and stops its keepalives |
| `Handler_sequential` | 2 connects one after the other, current-thread | no orphaned waiter or loop, pending entries keep sending, the new session is spared by the old close task, an announced `connect()` returns |
| `Handler_overlap` | 2 connects at once, dropped connects, bad packets, multi-thread | one home, dropped handles released, sessions owned unless their `connect()` was dropped, live sessions spared by other handles |
| `Handshake_reconnect` | 3 connects each, at any time, packets of any age | key agreement, responder confirmed, `connect()` completes unless a stale packet is taken |
| `Traversal_paths` | single and dual sockets; unspecified, loopback and LAN bind addresses; equal and different keys; one host, one LAN, and apart behind 5 kinds of v4 NAT times 2 of v6 on each side | `connect()` completes when and only when the initiator has a path to the responder, the chosen address routes back, implements `Handshake` |
| `Chunker_channel` | 1 sender, 1 or 2 receivers, 3 messages of 0, 1 or 2 chunks, 2 groups kept, with and without losses, 1 dropped call | implements the channel of whole messages, in order for one receiver, no panic, bounded groups, one message lost per dropped call |

Why these bounds are enough to be of interest: with nonces to 4 a window of 2
pops twice and strays overtake; five messages put payloads before, between and
after two keepalives; two receivers and two payloads are what it takes for one
wake to go to the wrong one, and a third payload for a dropped receive to strand
more than the one it may; two connections are what it takes for an old and a
new owner of one id; three connects of each peer let a packet be two rounds old;
the NATs of `MC_Traversal` are the usual kinds (none, address- and
port-restricted, symmetric, one where STUN fails, and for v6 a host without a
NAT whose STUN query fails); two groups kept make eviction happen with three messages (the
code keeps ten).

What two of them say of the code. In `Traversal_paths` the peer with the smaller
key is the initiator, and it uses advertised addresses only: behind a symmetric
NAT it can call a peer that filters by address, but the same two peers with
their keys in the other order do not connect (`SessionNeedsPath`). And the
address a NAT shows to the STUN server is advertised for v4 with the mapped port
only, for v6 with the bound port too; `test_bind_port` (src/src/lib.rs:34-40)
expects the bound port of whichever address comes first, which is sure only
where no NAT maps ports. In
`Chunker_channel` a `recv()` dropped between the locks of `add_chunk` leaves a
complete group in the map. `NoPanic` and `LossesBounded` therefore ask for room
(`Room`): one receiver, or a delegate that loses nothing and no more receivers
and dropped calls than groups kept. With two receiving clones plain loss is
already outside it: partial groups fill the map, and a clean-up can evict the
complete group that another receiver is about to `unwrap` (`CompleteGroupKept`, below).
So are, with two groups kept, two clones and a dropped call; the theorems cover
any number of them for larger maps.

Every run has `CHECK_DEADLOCK FALSE`: a session that was dropped, a peer that
has left and a bounded number of messages all end in states where nothing more
happens, rightly.

Runs that end in a violation, each a disagreement between the code and what
the repository says or tests:

| Run | What happens |
|---|---|
| `LossyTransport_stray` | a packet that does not decrypt moves the nonce window, and genuine messages are turned down |
| `Session_lostwake` | the watchdog wakes the map between a receiver's look at `dead` and the registration of its waker: `recv()` never returns |
| `Handshake_stale` | the peers take turns as in `test_session_id_reuse`; an initiation of the previous round captures the responder, whose answer stops the initiator: both `connect()` calls hang |
| `Chunker_collision` | two clones use one group number and chunks are lost: a message is put together from two |

The same modules show more of this kind; each needs only other constants:

| Module | Constants | Property | What happens |
|---|---|---|---|
| `Session` | those of `Session_lostwake` | `NoStrandedMessage` | the same race with a payload: the receiver sleeps over its message until the next one |
| `Handler` | one connection, `Preemptive` | `ReadyDelivered` | `SessionReady::poll` is overtaken between `try_recv` and the push of its waker: `connect()` never returns |
| `Handler` | one connection, `BadPackets` | `NoOrphanWaiter` | an initiation that does not decrypt removes the pending poker, its `connect()` waits for ever |
| `Handler` | one connection, `BadPackets` | `PendingKeepsSending` | a response that does not decrypt leaves the initiator in the map with its send loop stopped |
| `Chunker` | one sender, `MaxReceivers` 2, `MaxGroups` 2, 3 messages of 2 chunks, no dropped calls | `CompleteGroupKept` | two clones receive and chunks are lost: the clean-up of one evicts the complete group the other is about to `unwrap` |

The safety properties of the watchdog hold on the multi-thread runtime too, where
a keepalive can fall between its load and its store: the run has the
current-thread one, the theorems have both.
The lost wakes need the multi-thread runtime. `Session_single` and
`Handler_sequential` show that the current-thread runtime excludes them.

Every property of a passing run has a mutant, a plausible slip in one mapped
definition, under which TLC finds the property violated.

### Fairness

- `Session`: weak fairness of the wake in `handle_incoming`, of the watchdog
  and keepalive tasks and of the polls of woken tasks: all are tasks of a
  runtime that runs every runnable task. No fairness of users, of the peer, of
  the network.
- `Handler`: weak fairness of the receive loop inside one `handle_incoming`, of
  `connect()` and of close tasks, for the same reason. Packets need not arrive.
- `Handshake`: the send loops tick, and a packet that is sent again every
  second is not lost every time. Old packets need not arrive.
- `Traversal`: the same; binding and connecting are up to the users.
- `Opening`: the keepalive task ticks, and packets arrive that can. Payloads
  need not be sent.

## 4. The proofs

All theorems hold for every value of the constants that satisfies the named
assumptions (`Size` is not 0, the bounds are naturals, the modes are Booleans,
tasks are finitely many, `None` is no connection). A theorem that needs more,
such as one sender or one runtime, says so in its ASSUME.

- **LossyTransport_proof**: `TypeCorrect`, `NoReplayCorrect`,
  `WithinWindowCorrect`, `InOrderCorrect`, `WindowBoundedCorrect`, `RejectedForeverCorrect`,
  `TransportImplementsChannel`. The invariant: every nonce on the wire is below
  the counter (`NonceSpent`), a nonce carries one message (`OneDataPerNonce`),
  and everything delivered is rejected now (`DeliveredRejected`). The last is
  kept because rejection is for ever (`AdmitKeepsRejecting`), which rests on
  popping from the low end (`NewestKeepsTop`): what is popped lies below all
  that stays. What has been delivered above an acceptable nonce is still in the
  window, which also holds something below it (`FewOvertake`): hence
  `WithinWindow`, and writing order for a window of 1, which makes the
  implemented channel the ordered one.
- **Handshake_proof**: `TypeCorrect`, `ResponderConfirmedCorrect`,
  `KeyAgreementCorrect`. Agreement is not inductive. The invariant says that a
  `connect()` of the responder answers one initiation (`OneAnswer`,
  `AnswerIsKey`), that the initiator's key was offered to it (`InitiatorKey`),
  that it keeps to one key per `connect()` (`KeepaliveIsKey`), and that answers
  to later initiations come from later connects (`AnswersInOrder`), which is
  what excludes agreement on an old key while a new one is in use.
- **Handler_proof**: in every mode `TypeCorrect`, `OneHomeCorrect`,
  `DroppedHandleReleasedCorrect`, `EstablishedOwnedCorrect`,
  `SessionSparedCorrect`. `remove_session` can miss an entry on its way
  up through the maps; a handle's close task cannot, because a handle exists
  only after its session was announced (`ReadyAnnounced`), which is after it was
  put into the last map, and nothing goes back from there (`PromotedSettled`).
  `EstablishedOwned` names what is left: the session of a `connect()` that was
  dropped. Under hypotheses on the mode, which TLC shows to be needed: no dropped
  `connect()` and connects one after the other
  for `HandleKeepsSessionCorrect`; and packets that decrypt for
  `LoopsMatchEntriesCorrect` and `NoOrphanWaiterCorrect`. These say more of
  where a connection is: an entry belongs to a waiting `connect()` (`CInv`), one
  connection is active at a time and its session is kept (`SInv`), and an entry
  that is held or not yet inserted has its send loop (`PInv`).
- **Session_proof**: on both runtimes and with dropped receives `TypeCorrect`,
  `SleeperRegisteredCorrect`, `NoticedInTimeCorrect`, `NoFalseDeathCorrect` (the
  heartbeat tells exactly what `silence` counts, `DogExact`; a keepalive inside
  the watchdog's tick does not count). Needed besides: receives
  in progress have different ids (`ActiveIdsDistinct`), or one could remove the
  waker of another. On the current-thread runtime also
  `NoStrandedMessageCorrect`: for each message in the queue there is a woken
  receiver, a wake to come, or a dropped receive whose waker took the wake, by
  counting messages against sleepers. `TasksAssumption`: the
  tasks are a finite set.
- **Opening_proof**: `TypeCorrect`, `OnlyEarlyPayloadsLostCorrect`,
  `OpeningImplementsChannel`, for the window of 1 that the code uses and any
  number of messages. The transport's invariant and
  theorems are taken over through the instance (`UsesTransport`); besides it
  says what the reader has made of each packet it read. The property compares
  what is queued with what was read as sets, and says that the queue is in
  order, which together fix the queue.
- **Traversal_proof**: `TypeCorrect`, `RemoteAddrRoutesCorrect`,
  `SessionNeedsPathCorrect`, `TraversalImplementsHandshake`, for every set of
  networks. The invariant follows the addresses: what is advertised belongs to
  the peer (`Advertised`), a packet under way tells of a path to where its
  sender heard from (`Sent`, `PacketsTell`), a role fits the keys (`Roles`), and
  a responder that answered was reached (`ResponderReached`). Every step is a
  step of `Handshake` or none, so the theorems of `Handshake_proof` hold here.
- **Chunker_proof**: however many tasks send, `TypeCorrect` and
  `GroupsBoundedCorrect`. With one sender (`OneSender`) and any number of
  receivers `ChunkerImplementsChannel`, `IntactCorrect`, `InOrderCorrect`,
  `NoPanicCorrect`, `LossesBoundedCorrect`; `Chunker_collision` shows what two
  senders do. The invariants build on one another. On the wire groups and
  messages count up together (`WInv`). Each chunk is with one receiver, in one
  place of the map, or gone with its message, and what is out has nothing left
  anywhere (`RInv`): so a count of chunks tells a complete group, although
  `is_complete` does not tell chunks apart, and a message comes out once. One
  receiver completes the message of the chunk it read last (`OInv`). Each
  message that can no longer come out stands for a dropped call (`DInv`): a
  group in the map is of such a message, of another receiver, or the last one
  read (`GroupFate`), which are no more than the map has room for, so nothing
  is evicted (`FewGroups`); with one receiver, what is evicted is older than
  what is being read, and lost already (`OldIsLost`).

The proofs corrected one property. `GroupsBounded` used to count the receivers
inside `add_chunk` and the dropped calls only, and is false so: a receiver that
panics in `RemoveGroup` never gets to its clean-up, which larger instances show.
It now counts those too.

Only model-checked: liveness (`ConnectCompletes`, `ReachableConnects`,
`ResponderPromoted`, `ReadyDelivered`, `DisconnectDelivered`, `SessionEnds`),
which the prover does not reach. Every other property of the passing runs is a
theorem. Only proved: `WindowBounded`, the size of the nonce window.

## 5. Not modelled

- `snow`, `bincode`, tokio, STUN and the operating system's sockets: external.
- `bin.rs`: input and output around one `connect()`; it keeps no state.
- `lib.rs`: the list of modules and the tests.
- Overflow of `next_nonce` and of the group number: u64, out of reach of a run
  of the program.
- Time in seconds: ticks of different tasks are unordered, and a lost peer is
  noticed at the second tick of the watchdog, whatever that takes.
- Session ids besides one, and more than two peers: no operation of the handler
  relates two ids.

## 6. Plan

- State as theorems what follows by composition: key agreement and the
  confirmed responder in `Traversal`, from its refinement and the theorems of
  `Handshake_proof`.
- For the multi-thread runtime, how far the lost wakes of `Session` reach: what
  `NoStrandedMessage` becomes there.
