# libaji_client in TLA+

libaji_client is the client library of the JTAG server: it connects to one or
more servers over TCP, lists their cables (chains), locks a chain or a device
opened on it for the calling thread, and executes JTAG commands on it.  This
directory models the library, checks the models with TLC and proves theorems
about them with TLAPS.

## The system's parts

| Part | Code | State | Operations | What makes it correct |
|---|---|---|---|---|
| Locking | `jtag_client_open.cpp`, `jtag_client_chain.cpp`, `jtag_client_link.cpp`, `jtag_platform.h` | link mutex and its owner, `m_locked` of chains and devices, `m_partial`, the server's lock | lock, unlock, the hand-overs, close, disconnect, refresh | one thread at a time uses a link; every claim is released once, by its owner; client and server agree who has the chain |
| Command pipeline | `jtag_client_open.{cpp,h}` | the `ACTIONS` buffers, `m_defer_error`, checkpoints | pack, send, receive, send_continue, flush | every answer is matched with its command; nothing is dropped, or answered twice, at the limits of a packet |
| Connecting | `jtag_client_link.cpp` | `m_state`, `m_connect_state`, timers | start_connect, continue_connect, prepare_connection, connect_all, disconnect | a connection attempt ends; a connected link has been authenticated |
| Registry of servers and chains | `jtag_client_link.cpp`, `jtag_client_chain.cpp` | `m_link`, temporary servers, secondaries, chains with `m_destroy` | add and remove servers, update, refresh | a chain that is not reported disappears, one in use does not |
| TCP link | `jtag_tcplink.cpp`, `jtag_raw_fifo.cpp` | transmit queue, iovec, FIFOs by mux, receive state | send, send_queued, receive, receive_cmnd | bytes arrive in order and with their mux, whatever the partial writes and reads |
| Sockets and lookup | `jtag_tcpsock.cpp`, `jtag_tcpclient.cpp` | socket, address list | lookup, connect | each address is tried once |
| TAP state and claims | `jtag_client_open.cpp`, `jtag_client_chain.cpp` | `m_state`, `m_current_instruction`, `m_ir_overlay`, claims | any_sequence, access_ir, access_dr, access_overlay | the client's idea of the TAP is the device's; only claimed values are packed; nothing claimed is withheld |
| Configuration file | `jtag_configuration_file.cpp` | the file, its copy in each program, its times | load, store, set_value, deletekey | a copy is fresh when it is used; no update of another program is lost |
| Lists of devices | `jtag_client_chain.cpp`, `jtag_client_link.cpp` | `m_taps` with `m_chain_tag` and its mutex, `m_defined` with `m_defined_tag` | read and scan a chain, define, undefine and get devices | a tag stands for the list that came with it; a read returns one list; the defined devices are the union of the servers' |
| Message codec | `jtag_message.h` | a byte buffer | add and remove | names fit the memory that is counted for them |
| Hubs and nodes | `jtag_client_hub.cpp`, `jtag_client_node.cpp` | a tree of hubs, each with an open device and the idcodes of its nodes | read_hub_information, get_hier_ids, open_node, open_hub | the lock follows the hub that is read and comes back; the list is the tree; the value that opens a node leads to it |
| API | `jtag_client_aji.cpp`, `aji.h` | none | wrappers | a handle is checked before it is used |
| jtagconfig, Windows, in-memory configuration, MD5, utilities | the rest | | | not modelled |

Calls go down: API -> open devices and chains -> `AJI_CLIENT` -> `TCPLINK` ->
socket.  Three things come back up: a loss of the link (`disconnect` detaches
every device and invalidates every chain), the notifications of the server, and
the deferred errors of packed commands.  Threads of the client share everything;
the only protection is the mutex of each link, and one of each chain for its list.
Programs share the configuration file, and a server; devices opened by different
programs share a TAP.

## Modules

| Module | What it is |
|---|---|
| `ChainSession` | abstract: what the locking calls promise. One thread has the chain, or one of its devices, locked at a time, and may hand the lock over between them |
| `DeviceLock` | the locking calls, the link mutex, `m_partial`, the server's lock, the loss of the link |
| `DeviceLock_proofs` | the theorems about `DeviceLock` |
| `CommandQueue` | abstract: what an open device promises. Commands are executed in order, at most once, and never after a refusal the program has not been told of |
| `CommandPipeline` | packets, `ACTIONS` records and answers of one locked device |
| `CommandPipeline_proofs` | the theorems about `CommandPipeline` |
| `ServerSession` | abstract: devices are attached to a connection that is up, and detached with it for good |
| `ServerConnection` | the connect states of one `AJI_CLIENT`, its chain, and the devices opened on it |
| `ServerConnection_proofs` | the theorems about `ServerConnection` |
| `TcpLink` | the transmit queue, the demultiplexer and the FIFOs of one `TCPLINK`, with the wire and a server |
| `TcpLink_proofs` | the theorems about `TcpLink` |
| `TapRules` | the diagram of a TAP controller, the rules of claims and of values in a hub: operators without state |
| `TapState` | what each open device of a TAP remembers of it, what it packs and what it refuses |
| `TapState_proofs` | the theorems about `TapState`, and about `Hubs`, where the overlay values of its nodes come from |
| `ServerTable` | abstract: a table of servers, each update of which changes one entry and is seen by the next |
| `ConfigFile` | the configuration file, its copies, and the steps of a read or a change |
| `Registry` | extends `ConfigFile`: the servers each program knows, and the calls that add and remove them |
| `Registry_proofs` | the theorems about `ConfigFile` and `Registry` |
| `DeviceLists` | the list of a chain's devices, read and refreshed by several threads, and the defined devices of all servers |
| `DeviceLists_proofs` | the theorems about `DeviceLists` |
| `Lists` | sums, concatenation and selection over lists, as folds, for `CommandPipeline`, `DeviceLists` and `TcpLink` |
| `Lists_proofs` | induction on lists, and what the operators of `Lists` and of the library return: lemmas for the other proofs |
| `Hubs` | the hubs of a device: reading them, listing their nodes, opening one |
| `MC...` | the instances TLC checks: model values, and the calls a run leaves out |

### DeviceLock

State: `owner` is `JTAG_MUTEX::m_threadid`; `link` is the socket (`"dead"` is a
closed socket behind `m_state == CONNECTED`, which `receive_timeout` leaves
behind); `chain` and `dev` are the fields of `AJI_CHAIN_JS` and `AJI_OPEN_JS`
that locking reads or writes; `partial` is `m_partial`; `server` is what the
server has locked for this client.  `th` is where each thread is.

A call that claims the link is three steps (`Enter`, `ClaimOk` or
`ClaimTimeout`, the body), since the code makes its checks before
`try_claim_link` and nothing protects them.  A call of the thread that has the
lock is one step, or two where the code releases the link and goes on
(`"close2"`, `"rerelease"`).  Each call is an action under its own name:
`LockDeferred` and `LockImmediate` (the two pack styles of `lock`), `Unlock`,
`UnlockLock`, `UnlockLockChain`, `UnlockChainLock`, `LockChainGranted`,
`UnlockChain`, `OpenDevice`, `Exec` (any command), `CloseOther`, ...  The ways a
packet ends are shared: `AllDone`, `LockRefused`, `CommandRefused`, `LinkLost`.
Undefined behaviour (a NULL `m_client`, a deleted device) sets `crashed`.

### CommandPipeline

One step is one call of the program, made with the link claimed.  `dev` holds the
`ACTIONS` records: how many are free, the one being filled and the queue of
packets sent and not answered; `tx` is the transmit buffer.  `sent` and `expect`
of a packet are kept apart: `AnswersExpected` is what relates them.  What the
server answers is chosen when the answer is read.

### ServerConnection

`link` holds `m_state`, `m_connect_state`, whether there is a socket, and two
clocks as Booleans: `late` is `get_time() - m_connect_timeout > 0` and `heldOff`
is `get_time() - m_retry_connect < 0`.  `connect_all` polls in small steps and may
leave the attempt unfinished (`ConnectAll`, `Poll`, `Sleep`); `internal_connect`
polls to the end (`Connect`, `SleepInConnect`).  `Refresh`, `List` and `Sweep` are
`refresh_hardware`: they run without the link when it cannot be claimed.
`number` tells connections apart, which the ids of the server do not.

`ConnectionSound` holds together what the code relies on without a check: `m_state`
tells what the socket is (`StateTellsSocket`), chains and devices are of the connection
that is up (`OfThisConnection`), only the owner of the link uses it
(`LinkUsedByOwner`), no thread ends the attempt of another (`AttemptKept`), and while a
thread that looked at `m_state` before the connection was made may still act on what it
saw, the hold-off keeps it from starting another attempt (`HeldOff`).  The hold-off is
30 s and an attempt may take 40 s, or be left and carried on later, so two histories are
part of `link`: `slow`, the hold-off has ended during an attempt or before such a thread
has claimed the link, and `replaced`, `start_connect` has closed a connection that works
(`jtag_client_link.cpp:296`).  `ReplacedWhenSlow` says that the second needs the first;
what is said of devices and chains is said until the second.  In the RETRY state a refused
connection returns without a look at `m_connect_timeout` (line 869), so `ConnectEnds` has
one exception, a local server that was started and refuses.

### TcpLink

`tx` is the transmit side: `iov` the vectors of `m_tx_indirect`, `buf` and `start`
the transmit buffer and `m_txstart`, `fifos`, `next` and `done` the lists that
begin at `m_txfifo`, `m_next_txfifo` and `m_txdone`.  A vector names what it points
into (the buffer, a message or a FIFO) and where, so that what is written is
computed from the queue when it is written (`Queued`), as `writev` does.  `rx` is the
receiver: the header, the packet being received and the FIFO its buffer is in
(`to`), the queue of receive FIFOs (all of them use mux 4) and `m_rx_mux0_avail`.
`op.pc` is the function the calling thread is in:

| `op.pc` | where |
|---|---|
| `fill` | `send`, queueing FIFO data |
| `push` | `send`, `send_queued(false)` |
| `load` | `send_fifos` |
| `write`, `space`, `drain` | `send_queued(true)`, `wait_for_space`, `receive` called by it |
| `answer`, `poll` | `receive_cmnd`; `poll_fifo` for the data after the response |
| `down` | `close` has been called |

One step is one `recv` or `writev`, with any number of units, or one packet queued.
A unit stands for some bytes of one kind; a header is one unit when it is written
(where the kernel cuts it makes no difference to the queue) and two when it is read.
The FIFOs of a command are activated when its packet is sent; the code does so when
the command is packed, with nothing sent in between but earlier packets.  The
packet's commands and its answer, above the link, are those of `CommandPipeline`.

### TapState

A call is made by the thread that has the link, on the locked device, so it is one
step.  The commands of a call are given to the device one by one (`Give`: packed, or
sent with all that are packed), and the server executes a packet command by command
until one fails: `Taps` is the TAP after each command, `Outcomes` where it may stop;
`tap` is what that leaves in the TAP, by which device.
`claims` are the claims as `open_node` and the constructor complete them.  What is
checked is what the object remembers when the program has been told of no error
(`Untroubled`): after an error the program begins again with an `access_ir`.

### ConfigFile and Registry

`file` is the file with its times and its lock, `config` the copy of each program
(`AJI_CONFIGURATION_FILE`), `links` is `m_link` and `temps` `s_temporary_servers`.  A
`config_` call is a step, and a change two: the entry is changed with the file locked,
then stored.  A call of the API goes through the steps that `at` names; every call
begins with `update_servers` (`UpdateLocal`, `Sweep`, `Section`, `AddLink`), which
walks through the file while others write it.  `Killed` ends a program anywhere: its
lock of the file goes with it.

### DeviceLists

`chain` is the `AJI_CHAIN_JS`, `mutex` its `m_taps_mutex`, `defined` the lists of the
links.  A list the server has, of a chain or of defined devices, is named by its tag:
`ChainLists` and `database` keep all versions, so that a list can be compared with
the one its tag stands for.  `refresh_chain` is `Refresh` (the exchange), `Store` (the
mutex, the erased list), `Fill` (one device) and `Stored` (the tag); a reader copies
one device at a step.  `Parsed` is the pass that counts the bytes of the names and the
one that fills them.

### Hubs

A hub is the path of positions that leads to it.  `stack` holds the calls of
`read_hub_information`, which calls itself for the hub behind a bridge; `lock` is where
the lock is, and each hand-over of it, each exchange and each device opened may fail.
When the recursion is over, the list (`HierIds`) and the value that selects a node
(`OpenNode`) are operators on what was read, with shifts of the widths of the code's
types.  `result` is what the program gets; `leaked` are devices no call will close.

## Runs

| Run | Question | Result |
|---|---|---|
| `dl_shared` | speculative locks of two threads on two devices, other clients at the server, no errors: do the two sides' idea of the lock and every claim come out right? | holds, with liveness |
| `dl_refused` | the same when the server refuses locks and commands, in both pack styles: one user of the link, claims accounted for, `ChainSession` implemented, the inductive invariant of the proofs true? | holds |
| `dl_all` | everything at once, lost links and an old server included: types, and the chain's lock | holds |
| `dl_find_chain_unlock` | is a mutex released only by its owner (assertion, `jtag_platform.h:260`)? | violated |
| `cp_calls` | every kind of command in every pack style, at the limits: right answers, records kept, found and within their arrays, `CommandQueue` implemented? | holds |
| `sc_calls` | attempts that succeed, fail, are refused for ever, time out, outlast the hold-off and are taken over by another thread: states, sockets, chains and devices consistent, a connection replaced only after a slow attempt, connecting ends? | holds, with liveness |
| `tcp_link` | two packets with their data over a narrow connection that takes and gives any number of bytes and may be lost: one well-formed stream, everybody's own data, responses kept for their reader, no call that waits for ever? | holds, with liveness |
| `tap_state` | two devices of one TAP (two nodes of a hub, a node and a device, a node and the whole chain), three server versions, commands that fail or are refused: does each remember what is loaded, pack only overlay values that a claim of its own names, write and capture its own node? | holds |
| `reg_calls` | two programs add, change and remove servers in one file, one without a local server and at times without the right to write, both killed at times, with writes in the same second and a password that cannot be read back: copies fresh and no update lost until a copy is outrun, `ServerTable` implemented until then? | holds |
| `reg_find_open` | is the file closed when it is opened (assertion, `jtag_configuration_file.cpp:341`)? | violated |
| `lists` | two threads read, scan and lock a chain others change, and define and list devices at two servers, with errors, lost answers and mutex time-outs, any of the servers out of reach, chains read that another thread has locked: lists and tags agree, reads are of one list, the union is right, nothing stays claimed, each until the event it names? | holds |
| `hub_calls` | devices with hubs of up to four levels, empty ones (also as the last of all, and below a full one), too wide and too deep ones, and a step that fails or loses the lock: where the lock is, the list, when one element past its array is written, where the value leads that opens a node? | holds |

A property that several names make up is the conjunction of those below it in its
module (`LinkOwned`, `RecordsSound`, `DataToOwner`, ...).

Every property of a passing run has a mutant: a plausible slip in the code (a
claim that is not released, a hold-off that is ignored, a `close` left out) that
the run then finds.  Mutants are the operators next to the definitions they
replace, e.g. `KeepLink` beside `ReleaseLink`; nothing in the specifications uses
them.

### Bounds, and why they are enough

* `DeviceLock`: two threads, two devices, one chain, any other client as one.
  Every hazard is a race of one thread with another, or of one device with
  another; a third of either repeats what the second does.  The theorems remove
  this bound for the properties they cover.  Nothing is counted, so runs are
  complete state spaces.
* `CommandPipeline`: three records of four, two commands
  and one output to a record, six commands.  A call meets at most a full record, then a full queue,
  then the wait for the oldest answer: with three records all of these happen
  with an unanswered packet to spare.
* `TapState`: two devices, two instructions, two values, one of which is the number of a
  claimed instruction as well; five packed commands, which
  the longest composed call needs.  A call other than a flush begins with one packed
  command at most: what a call does depends on the state the packed commands will
  leave, and one command reaches each.  Each scenario locks in one pack style: the two
  nodes, and the node with the whole chain, pack what they can (`manual`); the node and
  the device pack what reads nothing (`auto`).
* `Registry`: two programs, two servers, ids up to 2, three writes, each in the second of
  the one before or a later one; one of two passwords cannot be read back; no file at first, or
  one that has the other server.
* `DeviceLists`: two threads, two servers, three lists of the chain, three calls
  besides locking and unlocking, one lost or failed answer, one change of each
  server's defined devices.  A race needs a reader, and a writer that has read
  before.
* `Hubs`: the trees in `MCHubs` have a bridge at each place that the code treats
  on its own: first, last, behind another, to nothing; one fault per call, at any
  step.  A QWORD has 16 bits and an int 8: the widest tree passes the first, and in `Far`
  the select bits of an upper level are shifted out of the second.  An empty hub is
  the last of the device in one tree (`Empty`) and amid other nodes in another (`Inside`).
* `ServerConnection`: two threads, one device, one chain, two connections: the
  second connection is what stale state can be confused with.
* `TcpLink`: four vectors of eight, a buffer of seven units, packets of two, a
  connection that holds two: less than a response, so that every packet is cut at
  every place.  Two packets of commands, of three shapes: no data; a FIFO longer than
  a packet, then a short one that is copied, and two FIFOs to read; two interleaved
  FIFOs, as `any_sequence` sends them.  Two connections.

### Fairness

* `dl_shared`: a call that has begun proceeds (`Proceed`: the claim is timed, the
  server answers), and a thread ends its session, as aji.h:1114 asks ("should call
  aji_unlock as soon as it no longer requires").  Nothing is assumed of the other
  clients but that the server serves this one when the chain is free.
* `sc_calls`: threads are scheduled and `m_connect_timeout` passes.  No connect is
  assumed to succeed, and the hold-off may end at any time or never.
* `tcp_link`: as long as the thread or the server can do something, one of them does.
  That is all `CallEnds` needs, because a thread that waits in `wait_for_space` takes
  something from the connection each time it does not write: the property is the
  absence of a state in which both ends wait.  Servers of two kinds are modelled,
  since the server's code is not here.  One reads whatever comes and may answer
  before it sends the data; the other waits for space as the client does ("the other
  end might be in the same function"), leaving commands alone, and sends the data
  first.  A server that did both, leaving commands alone and answering first, could
  block with the client when two packets are in flight.

## Theorems

In `DeviceLock_proofs`, for any number of threads and devices, any subset of
the calls and both kinds of server.

* `TypeCorrect`: `TypeOK`, without assumptions: with lost links, refusals and all
  calls.
* `Inductive`: `IInv`, from `NoHandBack` (no `unlock_lock_chain`, and no device is
  closed under another's lock) and `LinkLoss = FALSE`.  The two assumptions are
  where the code breaks its own rules: the findings and hazards at
  `jtag_client_chain.cpp:884`, `jtag_client_open.cpp:611` and `:257`.
* `Exclusive`, `Consistent`, `OwnerReleases`, `Implements`: the safety properties
  of `dl_refused`, and the refinement of `ChainSession`, from the same assumptions.

`IInv` says that the claim belongs to the thread in the body of a call or to the
one that has something locked (`ClaimedByUser`), that what a thread has is locked
and what is locked some thread has (`HasIsLocked`, `LockedIsHad`), that only a
locked device has packed commands (`PackedLocked`), that a device being closed is
nobody else's (`ClosedAlone`), and that nothing is lost (`NothingLost`).
`LinkExclusive` alone is not inductive: a thread could have a lock and no claim,
and another one could then claim the link.  `OwnerMoves` carries the proof: a
step of the thread that may use the link needs a check of that thread and its
object only, since everybody else has nothing.

* `ChainAtServer`: `ChainLockedAtServer`, without assumptions, as `TypeCorrect`: what
  the client believes of the chain is not a matter of who calls what, since the fields
  are set by the answer of the server only (`ChainKnown` adds the calls in between).
* `Agreement`: `ServerAgrees`, from `LocksPacked`: `NoHandBack`, no lost link, no
  command refused but a lock, and no program in the style that locks at once.  The run
  that checks it, `dl_shared`, makes the same assumptions.  They are needed: a refused
  command ends its packet, and an unlock behind it is not executed though the client has
  forgotten the lock.  The invariant `Agree` adds that a lock that is still packed has not
  been given.

In `CommandPipeline_proofs`, for any numbers of records, of commands and outputs to a
record and of calls, and any styles and kinds of command:

* `Records`: `RecordsSound`, without assumptions.  The invariant `Accounted` counts the
  records (free, being filled, sent), bounds the one being filled, and says when a call
  is sure to find one.
* `Answers`, `Forgets`: `AnswersInStep` and `NothingForgotten`, without assumptions.
  Both speak of what was done until `send_continue`, waiting for a record, reads a
  refusal (`parted`, a history): then the two sides really part, as the command that was to
  be packed stays in the buffer without a record, see Findings.  The invariant `InStep`
  lines up each record with the packet it was made for (`Lined`), what is being filled with
  the transmit buffer, and says what the lock must be at the head of (`Believed`), between
  calls (`Between`) and while one waits (`Waiting`).
* `Promised`: the refinement of `CommandQueue`, up to the same event: `Moves` says of each
  helper of the code that it executes some commands of the front of the queue, or adds
  its own at the end, and so composes along a call.

In `TcpLink_proofs`, for any sizes of the buffer, the arrays, packets and windows, any
shapes of commands and any number of packets and connections, with a link that may
break; the only assumptions are those on the constants (a buffer larger than the
threshold by 3, three vectors):

* `Queues`: `QueueSound`.  Its invariant `Inv` has a part for each variable.  `TxSound`:
  what each vector points to is there, the arrays have the space that `space_for_packet`
  looked for, and each FIFO of the list is one its command declared, once.  `Rested`: in
  which states of the call the queue is empty.  `RxSound`: what has been received of a
  packet is no longer than its header says and its FIFO is the first of its mux.
* `Streams`: `StreamSound`.  The stream is what the kernel has taken and what is queued,
  as one list of units.  `Streamed` says that it is packets (`Packed`), the last one
  whole, and in order, and that each FIFO that waits has sent what its position says
  and may go on (`OrderSound`).  `add_packet` adds a packet at its end (`AddPacketQueues`,
  whether the data is copied or pointed to), and `send_queued` moves the boundary and
  nothing else: what `Without` leaves of the vectors stands for what is left of the units
  (`WithoutStream`, `TakenLeaves`).  This is where a part of a vector could be lost or sent
  twice.
* `Owners`: `DataToOwner`.  That property speaks of the packet being received, and whether
  its data is the data that its FIFO waits for depends on all that came before.  The
  invariant `Received` is therefore about what has been answered and not been dealt with,
  as one list of packets: the one in the receiver, those on the wire, those the server has
  still to write.  A `Run` of packets `Passes` from a place (a packet of the program, and
  the command of it whose data is next) to another, and this list leads from the client's
  `Place` to the first answer of the packet that will be answered next (`At`); the FIFOs
  that wait are those the list has still to fill.  The server adds a run at the end, the
  wire moves the boundaries only, and `receive` takes one packet from the front, which
  moves the place (`Expects` says of each function of the client where it is).

In `TapState_proofs`, for any devices, scenarios, claims, nodes and bounds, from the types
of the constants and `TapClaims` (the program leaves `AJI_CLAIM2.length` zero, as `aji.h`
asks):

* `NothingIsWithheld`: `[]NothingWithheld`.  The invariant behind it, `ClaimsKnown`,
  says that the claims of each open device are those the program asked for, completed
  as its style has it, and none of a device that is not open.  `StepKeepsClaims` needs
  two cases, `Open` and all else; `KnownAreAccepted` is the rule itself: what
  `claimed_class` refuses the server refuses.
* `RemembersTheTap`, `PackedIsClaimed`, `OwnNode`: `RemembersTap`, `PackedOverlayClaimed`
  and `OverlayAccess`, whatever command of a packet the server refuses.  The second says of a
  packed overlay scan that all of the register is written, with a value the program owns or
  whose number one of its weak or instruction claims has: `claimed_class` looks at neither
  the type nor the strength of the claim it finds, so more is not true (see Findings).  What a device
  remembers is what the TAP will be when its packed commands have been executed, and
  not what the TAP is, so the invariant `Relies` compares it with the end of the packet
  (`Ends`).  It also says what the claims of one device forbid the others, which is why a
  device finds the TAP as it left it (`Agrees`), and that every packed scan is allowed by
  a claim where it will be executed (`ScansClaimed`).  A call is a composition of helpers
  on a session; `Sane`, `Keeps`, `Begins`, `Loaded`, `Scanned` and `Overlaid` are what each
  of them needs and gives.

Also in `TapState_proofs`, for `Hubs` (its specification is `HubsSpec`, since the module
extends both): any devices, trees of hubs of any depth, widths of the integers and numbers
of failing steps; the only assumption is `HubsWorlds` (a hub is at a path of positions, and
its nodes have idcodes).

* `HubLock`, `HubPointers`, `HubsReleased`: `LockFollows`, `NoCrash` and `ReleasedOnSuccess`.
  Their invariant is `HubsRead`.  `CallsNest` says of the calls on the stack that they are
  those of the hubs on one path, `HubsHang` that each hub has those above it, and that one
  which is not known to be a hub is on that path, so that the caller deletes it with all
  behind it and none of another.  `LockHeld`: only the innermost call has given the lock to
  a device, its own, so who goes on with the next bridge has the chain, or nothing.
  `FailuresKnown`: a pointer that is not set belongs to a hub that failed or is being
  read.  A step of `read_hub_information` goes on (`StepKeeps`), calls (`ChildKeeps`) or
  returns (`ReturnedKeeps`), and these three lemmas have the work.

In `DeviceLists_proofs`, for any users, servers, lists and numbers of calls, faults and
changes:

Each property speaks of what was done until an event that the code allows and after which
it fails; the events are histories of the state (`past`), and nothing is assumed to rule
them out: `robbed` (the second release of `define_device`, or of its caller, has taken the claim of
another thread), `shared` (a thread has refreshed the list of a chain another has locked)
and `crossed` (the calls of `aji_get_defined_devices` during which another thread refreshed
a server's list).

* `NothingLeft`: `NothingHeld`: no call leaves a claim, without exception; and a locked
  chain keeps its link until a thread is robbed.  `Claims` says of each user what it holds
  at each place of its call.
* `TagsTell`, `OneListIsRead`: `TagTellsList` and `ReadsOneList`, until a thread is robbed
  or a list shared.
  `ChainRead` says of a reader that what it has copied is the front of the list, as long
  as it has the mutex, and of a refresh which list it is storing.
* `UnionIsGot`: `DefinedUnion`, for the calls that are not crossed, from `OneOfEach` (a
  server's devices are told apart by their ids, or by their names without an id; the
  property speaks of what the client adds to that).  The list is joined link by link, and `JoinedSound` says by
  induction on the links that what has been joined has each device of each list once.
  The invariant `Apart` says that no list, old or new, has a device twice, as a device that
  is defined again takes its own place; `Getting` that a call asks the links in
  their order, and that what it returned is the join of what is kept, as long as no other
  thread has asked again before it was over.

In `ServerConnection_proofs`, for any threads, devices and number of connections, with
a local or a remote server, and without assumptions on how long an attempt takes:

* `Sound`: `[]ConnectionSound`.  The property is itself inductive.  `OfThisConnection`
  needs `LinkUsedByOwner` (nobody else lists or exchanges while the owner disconnects),
  this needs `AttemptKept` (the thread that polls finds the attempt it left), and
  `HeldOff` says which threads may still start an attempt, and that a connection has been
  replaced only if an attempt was slow.
* `OnlySlowReplaced`: `ReplacedWhenSlow`: `start_connect` replaces a connection only after an
  attempt that outlasted the hold-off, or a wait for the link that did, and only for a
  thread in `connect_all` that had looked at `m_state` before.
* `ConnectionImplements`: the refinement of `ServerSession`, until a connection is replaced.

In `Registry_proofs`, for any programs, servers, passwords, ids and initial files, with
programs that may not write or are killed anywhere:

* `Typed`: `TypeOK`, without assumptions.
* `Fresh`: `[]CopyIsFresh`.  Times are whole seconds, so a copy may be outrun: another
  program writes in the second of the copy's times, and the copy is not read again.  The
  history `outrun` marks such a copy, and the property speaks of the others, and of files
  that can be read back.  The invariant adds that times only grow, that who has the file
  open has its lock, and that who writes has it open (`FileSound`), and that a change is
  stored by the very next step of its program (`CallsSound`).
* `NoUpdateIsLost`: the refinement of `ServerTable`, for every write but those of a program
  whose copy was outrun, or that could not read the file back (`Spoils`).  The invariant
  `Pending` carries it: what any other program is about to store is one change of what the
  file says *now*, since nobody else could write since it was read.
* `LinksFollow`, `AddedStays`: `LinksMatchFile` and `AddedIsStored`, of calls in which the
  program was alone (a history): no other has written since the call began, or before in
  the second of its copy, and the file can be read back.  Their
  invariant `Sound` follows `update_servers` through the file: which sections the walk has
  passed (`Passed`), that each of them has its link (`Linked`), and that the links the
  sweep has passed are of servers of the file (`Matches`), for as long as no other program
  writes.

A fold is a recursive function, and what it returns for every list is proved by
induction: `Lists_proofs` has `ListInduction`, from `NatInductionOnSet`, which take a set
in place of the operator that the library's induction theorems take.  A property of lists
is then the set of the lengths for which it holds.

What stays with TLC:

* Liveness: `ClaimEnds`, `ServerReturned`, `ConnectEnds`, `CallEnds`.
* `Hubs`: `ListsTree` and `LeadsToNode` are about recursion on a tree and the places of bits
  in a value.  The trees of `hub_calls` have what the code treats on its own.

## Findings

The two violation runs are disagreements between the code and its own assertions;
`PROJECT.json` quotes both sides.  These properties are stated in the modules, marked
as disproved, and fail when they are put into the run's configuration:

| Property | Run, and what to change | What the code says |
|---|---|---|
| `CommandPipeline!FailsAgain` | `cp_calls` | `jtag_client_open.cpp`, `send_continue`: a refused packet makes the next command fail again.  The refusal is read while it waits for a record, and a command stays in the buffer |
| `ServerConnection!NeverDropsConnection` | `sc_calls` | the assertion of `start_connect` (`jtag_client_link.cpp:735`).  A thread that saw `m_state` before the connection was made claims the link when the hold-off is over, and closes the connection |
| `ServerConnection!RetryEnds` | `sc_calls` | "Keep trying until the timeout expires" (`jtag_client_link.cpp:867`).  The state does not look at the timeout while each connection is refused |
| `ServerConnection!NoDangling` | `sc_calls`, `ChainReported = TRUE` | "Remove any chains which the server didn't tell us about" |
| `TcpLink!UnsentDeleted` | `tcp_link` | "Delete all unsent data as the connection has broken." |
| `TapState!PackedIrClaimed` | `tap_state` | "If we have not claimed the instruction ... we must not defer." |
| `TapState!PackedOverlayOwned` | `tap_state` | "Don't defer if the overlay register is selected and if this scan is not to an overlay chain we have claimed" (`jtag_client_open.cpp:1128`).  An overlay value is packed because the program has claimed the instruction of that number (1293-1311) |
| `Hubs!PositionsSet` | `hub_calls` | "other nodes need to copy the them from the first node" |
| `Hubs!WithinAllocated` | `hub_calls` | "Check the size allocated by caller" (`jtag_client_node.cpp:197`).  When the last node is a bridge to an empty hub, `get_hier_ids` writes its position (`jtag_client_hub.cpp:422`) one element past the array of `jtag_client_node.cpp:201`: a heap overrun of one field |
| `Hubs!LeadsAnyWidth` | `hub_calls` | "Maximum number of IR bits supported is 64" (`jtag_client_hub.cpp:211`).  The position of an upper level is shifted as an int (line 572); 32 bits up the value selects another node |
| `Hubs!OpensMatching` | `hub_calls` | "Target the matching node in this hierarchy level" (`jtag_client_node.cpp:325`).  For position 0xFF the node that matches is found, and the hub itself is opened |
| `DeviceLists!TagAlwaysTells` | `lists` | "If no data was sent by the server then this means the TAP list hasn't changed" (`jtag_client_link.cpp:1787`).  When the data is lost the tag is stored with an empty list |
| `DeviceLists!LockKeepsLink` | `lists` | the assertion of `JTAG_MUTEX::release` (`jtag_platform.h:260`).  `define_device` releases the link it cannot connect (`jtag_client_link.cpp:1663-1667`), its caller again (1650-1655), perhaps from under a thread that has the chain locked |
| `DeviceLists!NeverOverruns` | `lists` | `aji_get_defined_devices` tells when its caller's list is too short.  It counts the lists first and copies them later (`jtag_client_link.cpp:1698-1733`); a list that grows in between is copied past the end |
| `ConfigFile!CopyIsFresh` without `outrun` | `reg_calls` | "If they're both the same then no need to reload the file" (`jtag_configuration_file.cpp:180`).  A write in the same second is not seen |
| `Registry!Table!Spec` in place of `ImplementsTable` | `reg_calls` | the same: a program with such a copy stores it and undoes the other's update |

In `TcpLink`, `QueueSound`, `StreamSound`, `DataToOwner` and `CallEnds` are stated up to
the loss of the first connection (`Unbroken`): in the second one old FIFOs are sent, new
data goes into old receive FIFOs, and a packet is received where another was cut off.

The two violation runs are kept for assertions that a few calls break on their own.  For
the others, what is checked and proved instead says up to which event, or with which
exception, the code does what it is meant to; a trace to the event is a run away.

Assumptions of passing runs and theorems that the code does not ensure:

* `HasLocal` (`reg_calls`): without a local server, `update_servers` never looks at its
  first link; `LinksMatchFile` and `AddedIsStored` are stated for programs with one.
* `LinkLoss = FALSE` and `NoHandBack` (`DeviceLock`), and no refused command in
  `dl_shared`: see Theorems.
* `lists`: a tag tells the versions of a list apart, also when the server starts again;
  two threads do not exchange on one connection at a time after one was robbed of its claim;
  the joining of the lists is one step, so that a race inside it is not seen.
* `hub_calls`: one failing step per call (any number in the theorems).

Noticed while modelling, and outside what the properties say:

* `read_hub_information`: the error of a hub behind a bridge is overwritten when the
  next bridge succeeds; results of `aji_unlock_lock_chain` are ignored; the early returns
  of `aji_open_node` for `AJI_INTERNAL_ERROR` and errors leave hubs open; the level's
  position is never `~0`, as it is a byte (`jtag_client_node.cpp:341`).
* `add_remote_server` uses an index of `m_link` as the number of a section
  (`jtag_client_link.cpp:392`); two threads or programs that add one server at once may
  both create it; a password is compared without case.
* A value with a quote or a line end is cut when the file is read again, and a host of
  64 characters or more is not read back; `store`'s result is ignored.
* `aji.h:796` allows a `device_name` of NULL, `define_device` refuses it; the names in a
  list that was returned point into memory the next refresh deletes; a name of 256
  characters or more is sent with a length modulo 256.
* `AJI_CHAIN_JS::lock` reads who blocks the chain from the answer after it has released
  the link.

## What is not modelled

* Of the modelled parts: chains that only name a server's state, secondary servers
  (their discovery is commented out in the code), the completion of checkpoints,
  receiving with a timeout, `disconnect_all` and notifications.
* Payloads: a command is its number or its kind; the bits of scans, the text of the
  configuration file and of messages.  Lists that the server sends malformed.
* Of the TCP link: notifications, receive FIFOs whose length is not known when they
  are made (the lists of hardware and devices), the timeout of `receive_cmnd`.
* Of the configuration: a program that is killed between writing the file and cutting
  it to its length, and threads that use the configuration at once, which nothing in the
  code protects.
* `refresh_quartus_devices`, `define_device` of a chain, `AJI_OPEN_JS` checkpoints: no
  call of the API reaches them.
* `jtagconfig`: a sequential front end.  Windows, MD5, the in-memory configuration,
  utilities: see the notes in `PROJECT.json`.

## Plan

1. `TcpLink` with FIFOs whose length comes with the answer, as the lists use them.
2. A second connection in which the transmit and receive state are reset, to show that
   a reset in `close` is enough for the properties of `TcpLink`.
3. Notifications of the server (mux 1) and the refresh of the hardware they trigger.
4. `get_time` and its comparisons over 2^w.
