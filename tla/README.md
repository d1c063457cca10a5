# A verification of re-pico

re-pico is firmware for small boards (an STM32U585 with a Wi-Fi HaLow radio, an
RP2040): a cooperative scheduler (`coop`), a C++ library without an operating
system (`nolibc++`), a TCP/IP stack (`re-net`), the driver of the radio
(`src/halow`), the security handshake (`re-connect`, `re-crypto`) and the
applications that use them. This directory holds TLA+ models of its logic, the
TLC configurations that check them, and proofs checked by TLAPS.
`PROJECT.json` lists components, runs, hazards, findings and theorems, and maps
every definition to the lines it stands for.

Paths below are relative to the repository; `net/` is
`submodules/re-net/src/net/`, `coop/` is `submodules/coop/src/coop/`, `halow/` is
`src/halow/`.

## Inventory

| component | state | operations | talks to | what makes it correct | module |
|---|---|---|---|---|---|
| runner (`coop/runner.cpp`) | task tree, ready tasks, timers, round counter | push, await, delay, run, cancel, destroy, join | everything | a ready task runs once per round; a cancelled task is never resumed; waiting structures never point to dead tasks | `Coop` |
| events, mutex, select (`coop/*-event.hpp`, `mutex.hpp`, `select.hpp`) | one waiter or a list; latch; owner | notify, await, lock, unlock | runner, interrupts | no lost wake-up; mutual exclusion and hand-over in order | `Coop`, `Mutex` |
| packet pool (`net/packet.cpp`) | freelist; head and length of a buffer | alloc, free, prepend, append, consume | driver, all of re-net | every buffer free or owned once | `Arp`, `Driver` |
| stack, netif (`net/stack.cpp`) | `now_ms`, addresses, link state | rx, tick, eth_send, send | driver, arp, ip | frames reach the right layer, ticks the right tables | `Arp` |
| arp (`net/arp.cpp`) | resolution table, one held packet per entry | resolve_and_send, cache, input, tick | stack, ip, pool | one entry per address; packets held briefly and freed once; mappings only from frames | `Arp` |
| ipv4, icmp, udp | socket table | input, output, send_echo | arp, tcp, dhcp | learn from what is received, answer it | `Arp`, `Dhcp` |
| tcp (`net/tcp.cpp`) | table of 4 `Conn`: state, sequence numbers, receive ring, two events | connect, listen, accept, send, recv, close, abort; input, tick | ip, runner, applications | a reliable stream in each direction; every operation returns; a Conn is reusable | `Tcp` |
| dhcp (`net/dhcp.cpp`) | last reply, lease | task, transact, on_socket_rx | udp, runner | the address in use is leased | `Dhcp` |
| yaps transport (`halow/yaps.cpp`) | status block, rx backlog, two events | yaps_tx, yaps_rx, push and pop | chip, pool | queues not overrun; packets conserved | `Driver` |
| command channel (`halow/command.cpp`) | `busy` flag, pending-response slot, sequence number, 4-event ring, rx task | send_command, rx_task, pop_event | yaps, connect, scan | a response reaches the command it answers, no other | `Driver` |
| connect, link supervision (`halow/connect.cpp`) | link status, link_task | connect, disconnect, link_task | command, eapol, sae, netif | host and chip agree on interface, keys and port | `Link` |
| scan (`halow/scan.cpp`) | results | scan | command, events, backlog | ends, and returns its interface | `Link` |
| bring-up (`halow/halow.cpp`, `firmware.cpp`, `host-table.cpp`) | bus window, store | init, read_multi, write_multi, load_firmware, parse_host_table | chip | what runs is what this run downloaded | `Chip` |
| eapol, sae (`re-connect`) | nonces, replay counter, keys | commit, confirm, on_frame | connect, crypto | both ends use the same key | `Eapol`, `Curve` |
| crypto (`re-crypto`) | buffer of a hash | bignum, curve, hash, mac, kdf, key wrap | re-connect | what the standards define | `Curve`, `Digest` |
| heap (`nolibc++/src/malloc.cpp`) | chunk list | set_heap, malloc, free | everything | chunks tile the heap; no two free neighbours | `Malloc` |
| containers (`nolibc++/src`) | elements, buffers | resize, append, assignment, emplace, release | everything | every element owned once | `Own` |
| uart, console (`src/*/hal/uart.cpp`, `src/uart.cpp`, `src/console.cpp`) | ring shared with the interrupt handler | handler, read, write, read_line | runner, applications | bytes in order, none invented; the reader wakes | `Uart` |
| clock (`src/ekh05/hal/time.cpp`) | `uptime_ms`, SysTick | now, handler | everything | a time of the call | `Clock` |
| inflate (`src/inflate.cpp`) | bit reader, code tables | inflate | firmware | decodes what RFC 1951 defines | `Inflate` |
| boot and board files | registers | - | - | start-up order | - |
| applications (`src/ekh05/main.cpp`) | connections, pings, tasks | echo server, `net tcp send`, dhcp task, console commands | re-net, halow | serve for ever | in `Tcp`, `Link`, `Chip` |

**How they interact.** There is one thread; interrupt handlers only set events
and fill rings. A coroutine runs from one `co_await` to the next without
interruption. A *child* coroutine does not start where it is awaited: the
runner starts it in a later round, and its caller goes on in a round later
still. Everything a child reads through a reference or from a shared object it
therefore reads after other tasks have run. The driver's receive task hands
frames to `NetIf::rx` and, through it, to arp, ip and tcp; the timer task calls
`arp::tick` and `tcp::tick`; applications call `send`, `recv` and so on; the console
task runs one command at a time, among them scan, connect and disconnect; each
link leaves a `link_task` behind. They share the tables, the packet pool, the
backlog, the events and the `Conn` objects.

**What is hard.** Not data races but every other order of steps: state read
before a `co_await` and used after it, acknowledgements handled between a
transmission and the statement that records it, timers that fire while an
answer is under way, lost, repeated and overtaken messages, packets moved
between owners along error paths, a pool in which waiting packets keep out the
ones they wait for, tasks cancelled wherever they stand, a teardown after any
step of a long sequence, and loops whose progress depends on who wakes them.
`PROJECT.json` lists each of these at its line.

## Plan

Every module named above is on disk. What each leaves out is under "Not modelled".
Next, in this order:

1. Proofs about `Coop`.
2. Several connections in the `Tcp` table; the refinement of an abstract reliable
   byte stream.

A module that may be proved about has no RECURSIVE operator: recursion is a
recursive function or a fold.

How the runs are organised: `Tcp`, `Arp`, `Coop` and the DHCP liveness have their own.
The others meet the rest of the system through a narrow interface and are
checked in one run, `parts`: `Parts` declares the thirteen variables `v1`..`v13`
and a constant choice `part`; `Init` chooses a part and `Next` takes a step of that
part, whose module is instantiated over the first of these variables, the rest
being idle. The state space is the sum of the parts', and a property of a part is
implied by `part = ...`. The constants of a part are the fields of one record
(`DriverBounds` ..), which `MCParts` defines for TLC. A part that has proofs is
instantiated through its proof module (`DriverProofs` for `Driver`), so that `PartsProofs`,
which shows that the sum keeps what its parts keep, can cite them.

## `Tcp`

Two endpoints, "client" and "server", each one `Conn` and three tasks:
`in` (the driver's task inside `tcp::input`), `tx` (connect or listen/accept, the
`send()` calls of a script, `close()`) and `rx` (the loop of `recv()`). This is how
`tcp_echo_task` and the `net tcp send` command use a `Conn`
(`src/ekh05/main.cpp`), except that both ends may send and receive at once.

| code | model |
|---|---|
| fields of `Conn` | `conn[e]`; `rx_head`, `rx_tail` as the sequence `ring`; a deadline as the right of `Tick` to fire |
| connection table | `bound`, `port` |
| where a coroutine stands, the segment it is sending | `task[e][t]`: `pc`, `phase`, `call` |
| locals of connect/send/close that outlive a `co_await` | `op[e]` |
| `SingleEvent` with its latch | `Notify`, `Await`, `Woken`; re-creating it forgets a notification |
| `tcp::input` | `Input` (demultiplexing to the last `co_await`), `InListen`, `InSynSent`, `AckStep`, `DataStep`, `FinStep`, then `Emit`, `InputReturn` |
| `send_segment`, `send_rst` | `Emit`: the acknowledgement and the window are read when the child coroutine runs |
| statements after `co_await send_segment` | the actions ending in `Sent` |
| statements after a wait | the actions ending in `Wake`, `Timeout`, and `FinWaitOver` |

Data are octets numbered by their place in the sender's stream and marked
with their connection; checksum, mss option and ephemeral-port counter are
left out, and a port is the number of the opening. In every module a definition
right above another with the same parameters (`NotifyTxOnly` above `NotifyBoth`, often
marked `faulty`) is that operation with a plausible mistake; no behaviour of
`Spec` uses it. `PROJECT.json` names, for each property, the one that must break it.

**Network.** `net[e]` is what is under way to `e`. In-order delivery is free; losing, repeating
or overtaking a segment spends one of `MaxFaults`. A timer fires freely when
nothing is under way and counts as a fault otherwise, because the code's
timeouts are long against a round trip. Without this rule every run would be
one of timeouts only; with it, premature timeouts still occur within the
bound. `MaxFail` bounds sends that fail (pool empty, link down).

**Bounds.** Sequence space 16, against a window of 1 or 2 and streams of at
most 3 octets, keeps the property the code relies on, that live numbers
span less than half of the space; the client's initial number is two before
the wrap, so every transfer crosses it. With `RxBufferSize` 1 each octet closes the
window; in `tcp_live` one `send()` of two octets meets it closed with an octet
still to send. In `tcp_stream` the ring is 2, so that two segments of one `send()` (`Mss` 1)
are under way at once and can be lost or overtaken separately.
`MaxRetx` (5 in the code) is 1: the first repetition and giving up both happen; 0 in
`tcp_reuse` and `tcp_fin_storm`, to give up early with few faults. How far the count goes
does not matter to `tcp_fin_storm`, whose timeouts are never counted.
`MaxNet` 3 or 4 segments: more are dropped. The system may stop: a
server may wait for ever for a client, and scripts end, so deadlock is not
checked.

**Fairness** (`FairSpec`). Weak fairness of each task: the runner resumes every ready
task once per round, every timer ends, the driver hands over every frame. Nothing
is assumed of losses, failures or `Tick`. `SendResolves` needs one more
assumption, stated in the formula: `send()` advances `snd_nxt` when it *resumes*;
an acknowledgement handled before is beyond `snd_nxt` and is ignored, so that only
the timeout repairs it. `Prompt` says, of every segment it sends, that `send()` does not
lose that race for ever. The race is a few scheduler rounds against a network round trip.

**Runs.**

- `tcp_stream`: `StreamInOrder` (each octet arrives in order, once, through losses,
  repetitions, rewinds and a closed window), `SendTrueMeansReceived` (a `send()`
  that returned true is believed rightly), and types.
- `tcp_reuse`: every operation gives up at its first timeout, and both ends open their
  `Conn` a second time, from `connect()` to `close()`, with one fault anywhere.
  `NoLostWakeup`: `recv()` and `accept()` re-create their event before waiting, and lose
  nothing by it, up to the end of the connection. `EofIsTheEnd`: a fin that lies past
  a hole left by a `send()` that gave up is not taken for the end of the stream.
  `CloseLeavesReusable`: every way out of `close()` and `abort()` leaves a `Conn` that is closed
  or that `tick()` will reap; the second connection also meets the old one's segments.
  `OrderlyFinConsumed`: the decision that "everything is acknowledged" includes the
  fin, is right when all `send()` calls before `close()` returned true. Without this
  condition it is wrong: `tcp_fin_reuse`, below.
- `tcp_live` (`MCTcpLive`) adds up two instances, because one that has everything is
  past what TLC can check liveness over. In `flow` a `send()` puts two octets through a ring of
  one, with one network fault: the window is zero while an octet waits, the update `recv()` sends
  may be lost, a timer may fire early; only the one-octet probe (`tcp.cpp:487`), repeated by timeouts
  that are not counted while the window is zero (`:502`), brings it to an end. `SendResolves`: it always
  ends. In `closes`, one octet and no faults, both ends close: `CloseResolves` says that `close()` returns and
  the peer's `recv()` ends (or its service had ended before accepting).
- `tcp_fin_reuse`, `tcp_fin_storm`, `tcp_fin_wait`: disagreements between the code and
  its comments, below.

## `Arp`

Senders run `ipv4::output` and `resolve_and_send`; `rx` runs `NetIf::rx` for a frame at a
time; `timer` runs `Stack::timer_task` and `arp::tick`. `table` and `held` are the entries,
`carry` what each task owns (`AutoPacket`), `free` the pool, `job` where a task
stands. Every action ends at a `co_await`. The three readers of `table[i].mac` through a
reference (`resolve_and_send`, `cache`, `arp::send` of the frame's address) differ in what the
reference points to: `dst` is a slot, and `EthSend` reads that slot when it runs.

| code | model |
|---|---|
| `ipv4::output` | `Output` |
| `resolve_and_send` | `ResolveBroadcast`, `ResolveKnown`, `ResolvePending`, `ResolveNew` |
| `send` (arp), `eth_send`, `Stack::send` and `NetIf::tx` | `ArpSend`, `EthSend`, `Tx` |
| `NetIf::rx`, `ipv4::input`, `arp::input`, `cache` | `Receive`, `LearnNothing`, `LearnKnown`, `LearnNew`, `DeliverRequest`, `RxDone` |
| icmp echo reply (in the packet received), tcp's answer (in a new packet), neither | `DeliverReflected`, `DeliverAnswered`, `DeliverSilently` |
| `timer_task`, `Stack::tick`, `arp::tick` | `Tick`, `ScanRequest`, `ScanEnd` |

Time is counted in timer periods; `left` and `idle` are relative, so that the
state space is finite. `Tick` waits until no call of `eth_send` has seen two
periods pass (`late`): the runner gets to a started coroutine well within 500 ms.

Whether an address is leased (and with it what is on link) changes under the
senders' feet; `NextHops` therefore offers both routes at any time.

Runs: `arp` (one sender, two entries for four next hops and the hosts heard of, two packets) checks
`PoolConserved` (each buffer free or owned once), `OneEntryPerIp`,
`HeldOnlyWhilePending`, `MappingsClaimed` and, under weak fairness of the tasks and the
timer, `PoolRecovers`: although entries can hold every packet of the pool, so
that neither requests nor replies get one, expiry frees them. Deadlock is checked. Two
entries make eviction, also of an entry in use, frequent; two packets make
every allocation fail somewhere; `TtlTicks` 2, `RetryTicks` 1 and `MaxRetries` 2 let an entry
be repeated, expire, and be answered late. `arp_stale` has three packets.

## `Coop` and `Mutex`

`Coop` is the runner. A task body is any sequence of library calls; each call is an
action, and `kit` says which calls the bodies of a behaviour use and how many.
Operators take and return a *world*, the record of all runner state, because
`destroy_task()` walks a subtree and changes all of it.

| code | model |
|---|---|
| `Task`, `Runner::root`, `children`, `parent` | `task[t]`, task 0 |
| `running_tasks`, with the null a destroyed task leaves | `running` |
| the `run()` calls on the stack: `loop_count`, `LoopContext` | `loops`, the innermost last |
| the loop of `run()` | `LoopTop`, `Gather`, `Settle`, `EndIdle` |
| `gather_resumable_tasks` | `Due`, `Expire`, `Wake`, `PollIo`, `Gathered` |
| `run_tasks` | `Resume`, and the `Leave` at the end of each call |
| `destroy_task`, `remove_task`, `cancel_task` | `DestroyOne`, `Detach`, `Dequeue`, `RemoveTask`, `CancelTask` |
| `delay`, `event_wait` (the three overloads) | `Suspend` and one action per awaiter |
| `push_task`, `await` (the nested `run()`), `join`, `select` | `Push`, `Await`, `Join`, `Select*`, `Branch*` |
| an interrupt that calls `ExtEvent::notify` | `Raise`, between any two steps |

Run `coop` gives each behaviour one of eleven kits, so that their state spaces add up:
single events, the mutex, plain multi events, external events, a nested `run()`,
`select` with timers, `select` whose branches await children that sleep or yield or spawn
tasks of their own, `join` with children, `join` with cancellation. Up to six
tasks and two clock ticks; two to four calls per body are what a wait, its wake-up, a
cancellation from a sibling and what follows need. `PointersLive` is the invariant the
runner's pointers rest on: whatever leads to a task leads to a live one that is
suspended for that reason, and the other way round. `NestedKnows`, `IdleMissesNothing` (no
interrupt between polling and sleeping is missed, no deadline overslept), `SelectLeavesNothing` and
`ResultsReachTheirWait` say what cancellation and rounds may not break. Bodies may
simply stop, so deadlock is not checked.

`SelectLeavesNothing`: `select()` sleeps only while none of its branches has finished and one of them
lives, and leaves nothing of them behind, however deep they are and although some are due in
the very round in which it cancels them. It does not say which branch is named: two may finish in one round,
and the later one overwrites the index (below, "Seen while modelling"). The branches are tasks of the
root but refer to the frame of `select()`; a caller that is cancelled there, or a branch that cannot be destroyed
because of a nested `run()` below it, would leave tasks with a frame that is gone, and a branch that
joins the caller waits for itself. `KitsAssumption` excludes bodies that do so; `select()` has no
caller in the firmware yet.

`Mutex` is what the mutex promises: one owner, in the order of the calls, lost only when
a task is cancelled between being handed it and learning of that. `MutexImplemented`
is the refinement: `Coop` implements `Mutex` with the owner read off the guards
and the task that `unlock()` made runnable. It shows at the same time that the loss in
`Abandon` is the only one. `coop_crowd` is a finding, below.

## The parts

Each part is its module with the constants `MCParts` gives it. The bounds were chosen so that
every action fires and each limit of the code (a full queue, ring, pool, table, window,
the last try) is reached within the instance.

**`Driver`**: `yaps.cpp`, `command.cpp`. Tasks that send commands (`SendCommand` .. `CommandEnds`) or
data (`SendData`, `TxEnds`), or wait for frames (`WaitRx`); `rx_task` as `RxIrq`, `RxDrain`, `RxBackoff`; the chip
takes, answers, sends and raises interrupts in its own time. Rounds are explicit
(`Gather`, then one step per task gathered): that is what makes a status block
one round old. A task may be cancelled at any wait (`Cancel`). `PacketsAccounted` relates
pool, backlog and what calls hold on every error path; `ResponseIsOwn` says that a late
response is never taken for that of a later command; `QueuesFit`, `SpaceWakePending` are
about waiting for space. Two users, a pool of four, queues of one, five loads (two commands and a
frame; a command and two data frames; frames with waiting readers; garbage and
beacons up to the error limit; events past the ring). The sequence number does
not wrap into a call in progress, which takes 4095 commands.

**`Link`**: `connect.cpp`, `scan.cpp`. The console's work is a *plan*, the commands and
exchanges still to do; a step that fails replaces the plan by what the code does on that
path (`Failed`). `link_task` instances have a program counter each. The command channel
is `Driver`'s from above: one at a time, a second one refused, one given up may
still have been performed. `UpIsSupervised`: a link that is up has exactly one live `link_task`, the
one the handle names, and an authorized interface; `KeysBeforePort`; `InterfacesReturned`:
every path gives the interface back, but for a removal refused while the console
holds the channel (connect.cpp:743 does not look at the result), one that the
host wrongly took for failed, and a scan whose request is too long to build (`LongScanPlan`, below). Four loads: undisturbed with stray frames, two troubles,
three commands, and trouble in the second of two commands. Two interfaces and two
`link_task`s let an old one linger beside a new one.

**`Chip`**: `halow init`. Transfers go through the address window in chunks; any bus command may
fail, after some blocks of its data. `ReadyRunsOwnImage`: a host table is accepted only
from a firmware that this `init` started and that saw a complete image of this
`init`'s words, each at its address; and the yaps table it takes lies within the extended table, whatever
tlvs it was given, one turn of the loop a step. Two inits and two faults: what the first leaves behind
(pointer, window, half an image) meets the second; two segments, one of which crosses a window.

**`Eapol`**: `Session` under `sae_authenticate`, then `Supplicant` under `four_way_handshake`, against an access
point that repeats messages, with frames lost or delivered after their timeout. A key is
the tuple of what it is derived from. `PmkAgreed`, `KeysAgree`: with two connections, three
repeats and two losses, late commits, confirms and messages 1 and 3 of every order
occur. The access point takes a message 2 for any counter still outstanding, and may
replace the first by a second; `KeysAgree` holds because a PTK for one nonce
does not verify message 3 for another. The walk over the key data writes the group keys as it goes (`ParseKeyData`)
and fails afterwards, if it does (`Parsed`), so that a message 3 without a GTK is accepted after a refused one that had
it: four kinds of key data, with and without GTK, IGTK and padding, make this happen. `KeysAgree` therefore asks of the group
key that the access point gave it under this master key, in whichever message.

**`Dhcp`**: client, server, network. A tick is one reply timeout. A reply may leave out the lease time, or give
zero, on the first acknowledgement or on a renewal; the client then sleeps half of `default_lease_s` (`Lasts`), whatever
the server granted. `DhcpSizes` says what must be true of servers then: a lease outlasts half of any other, or half of
that default (60 s), and two exchanges. `AddressStillLeased`: the stack drops the address before the server
takes it back, through late acknowledgements, refusals and a link that goes down.
`Tick` waits for the client to come to rest, for the rounds of an exchange are short
against a timeout; but when sends fail it does not come to rest, and time passes all the same.

**`Malloc`**: byte addresses, alignment 2, header 4, an unaligned heap of 43 bytes, requests that include 0,
and all sequences of malloc and free. `HeapTiled`: both lists run through all chunks, which tile the
heap, with no two free neighbours.

**`Own`**: two of each container and a caller's variable, elements that are handles on one
resource each, allocations that may fail. `OneOwner`: none is destroyed twice or lost.
Assignment to itself is included where the code allows it. The top bit of a `String`'s 16-bit capacity says whether it has
a buffer, and `resize()` doubles what it is asked for without looking at that bit; `OwnSizes` assumes lengths below
half of it (16384), far above any text of the firmware.

**`Inflate`**: the decoder with bytes of 4 bits and codes of at most 2; the input is chosen bit by
bit as it is read, so that all streams of three bytes are decoded, and each decoded
symbol is compared with the canonical code's definition (`DecodesDeflate`). How a dynamic block encodes its code lengths
(`inflate.cpp:165-219`) is left out: `Dynamic` goes on with any lengths, or fails.

**`Curve`**: two limbs of three bits, the prime 43, a curve of the prime order 37; `SharedSecret`: both
sides of the exchange get the point that plain integer arithmetic gives. Numbers this small
make every carry and borrow, the point at infinity and doublings happen, which random
vectors of 256 bits hardly do.

**`Digest`**: the compression function is free (a chaining value *is* the sequence of blocks), AES is
some permutation; `AsDefined` compares with the standards' definitions for every split of the
input around two block boundaries, keys longer than a block, outputs that end inside a
digest, and all wrapped keys of two halves.

**`Uart`**: handler, ring and console task with the runner's poll between them; `ConsoleServed`: bytes in order,
only those dropped that met a full ring, and no sleep with work at hand. A ring of three,
four keys. **`Clock`**: every interleaving of counter, handler and the four reads of `now()`, with
`uptime_ms` read in halves; `TimeOfTheCall`.

Parts may come to their end (bounds on commands, frames, keys typed), so deadlock is
not checked. `NetBounded` bounds the DHCP messages in flight to two.

`dhcp_spin` runs `Dhcp` alone with weak fairness of the client's steps and of time: the runner
resumes a ready task, and time passes. Nothing is assumed of network and link.

## Theorems

TLAPS proves these for every value of the constants; the runs show the same on a small
instance. Each stands on an inductive invariant, because none of the properties is one: a state that
satisfies it may be about to lose it.

**`ArpProofs`**, under `ArpAssumption` (table and timing constants positive, the named addresses
among the addresses, the task names distinct):

- `TypeCorrect`, `PoolConservation`: `Spec => []TypeOK`, `Spec => []PoolConserved`. A task about to
  allocate must own nothing, or it would drop what it has. `IInv` adds `Shape`: a task owns a
  packet only in the stages `resolve`, `send` and `tx`; a receiver that is idle has no
  frame; a task that resolves has an address; the scan stands at an
  entry. Conservation itself is proved once for each of the hand-overs
  of `AutoPacket` (take, give, hold, flush, pass, drop) and every action is
  shown to be one of them.
- `OneEntry`, `HeldBriefly`, `OnlyClaimedMappings`: from `TableInv`, which is inductive relative
  to `IInv`. A step that makes an entry (`ResolveNew`, `LearnNew`) does so only after
  `find()` found none, in the same step; the others keep addresses or blank
  entries.

**`TcpProofs`**, under `TcpAssumption` (an even sequence space, a buffer smaller than its half):

- `TypeCorrect`: `Spec => []TypeOK`, and `WakeupsKept`: `Spec => []NoLostWakeup`. Both from `Sane`, which
  says how the `Conn` and the three coroutines fit together: the phase a task may be in at each
  of its places (`Phases`); the states the connection can have while the application is at a given operation
  (`Reached`; a `send()` in progress meets only Established, CloseWait and Closed, for example); that the peer's
  fin has been taken exactly in the states that say so (`Fins`); and that the event of a sleeping task
  is armed or has fired, and while it is armed there is nothing to wake for (`Sleeps`). `Sleeps` is what
  makes the rest necessary: a notification is due whenever `input()` changes what a sleeper waits
  for, and what it waits for depends on where it is. What `input()` may do to a `Conn` is established once
  (`Outcome`, with `AckStepIs`, `DataStepIs`, `FinStepIs`); the serial arithmetic has its own lemmas (`AddIs`,
  `DistIs`, `SeqLtIs`, `AddDist`).

**`TcpStreamProofs`**, under `TcpAssumption` and the hypothesis `StreamSizes` of each theorem (TLC evaluates it as
`MCStreamSizes`): each end opens its `Conn` once, and what it sends is at least four octets less than half of the
sequence space. The network keeps copies of a segment for ever, so that with longer streams an old octet could come back
under a number that is in the window again; the code, like every TCP, relies on this not happening. How many
segments, faults and failed sends there are, and how big buffer and segments are, is free.

- `InOrder`, `SendTrue`, `EndOfStream`, `Reusable` (`Spec => []..` of `StreamInOrder`, `SendTrueMeansReceived`, `EofIsTheEnd`,
  `CloseLeavesReusable`) and `OrderlyFin` (`Spec => OrderlyFinConsumed`, of every step). The invariant `Right` adds
  to `Sane` what is true of the two streams, in positions, the distance of a number from the initial one. `Receives`: what has
  come is a prefix of the peer's stream and `rcv_nxt` stands behind it. `Finished`: a fin taken is that of the peer's `close()`, at its place.
  `Sends2`: where `snd_una` and `snd_nxt` can be at each place of the application, and that `snd_una` never passes what the peer took.
  `Asked` and `Sent`: every segment, under way or about to be built, says only what is true of its sender's stream and
  acknowledges only what its sender took. Both must hold *whenever* the segment arrives: it speaks of the initial
  number, the fin's place and a growing prefix, which no later step revokes. `ProcessedRcv` and `ProcessedSends` treat
  `tcp::input` once for all of its callers; the applications' actions follow one by one.
  A `send()` that gives up rewinds `snd_nxt`, so that `close()` may place its fin before octets the peer already has. That is why
  `EofIsTheEnd` is about the place of the fin, and `OrderlyFinConsumed` about a `close()` whose sends all returned true.

**`DriverProofs`, `BoardProofs`, `EapolProofs`, `LinkProofs`** prove inductive invariants of their parts (`BoardProofs` of `Malloc`, `Clock`, `Chip` and `Own`,
`EapolProofs` of `Eapol` and `Uart`, `LinkProofs` of `Link` and `Dhcp`);
**`PartsProofs`** carries it over to the sum, where the theorems state the properties that run `parts`
checks. Each has the assumption of its part as a hypothesis (TLC evaluates them as `PartSizes`):

- `PacketConservation`, `OwnResponse`, `QueuesNotOverrun`, `SpaceWakeNotLost` (`Driver`, `DriverSizes`: finitely many tasks, positive
  sizes, fewer commands than sequence numbers). The invariant `Served` is `Accounted` (what each task holds at each of its
  places, that a frame of a command bears the number of its call, and that the number the slot expects
  is that of the call that owns it) and `Flow` (who may be about to write to a queue that was seen to
  have room, and which interrupt, latched or raised, will wake a command that waits for space). Responses are
  matched by number alone, so that the bound on commands is needed: a response 4095 commands late would be taken.
- `HeapStaysTiled` (`Malloc`, `HeapSizes`: the memory has room for two headers). `Sound`: the links run through the headers
  in address order both ways (`Listed`), no two free neighbours, each block is a chunk in use with the room
  it was promised. `free()` passes through states with free neighbours; `Merge` is shown to keep `Listed` and to
  leave at most the neighbours on its own left.
- `TimeToldRight` (`Clock`, `ClockSizes`: a call takes less than two periods less than a round of the low half of `uptime_ms`, 49 days). `Timely`
  relates the counter to the time (`Counts`), and what `now()` has read to the words that were current when it was read (`Snaps`):
  two readings of a torn word that agree were not torn, because the low half did not go round; and if no millisecond was
  counted between them, the flag was not cleared, so that one read the same twice stands for the count between (`Means`).
- `RunsOwnImage` (`Chip`, `ChipSizes`: blocks divide the window, segments lie above the registers and within memory). `Uploaded`:
  where the present transfer stands in the script of accesses, and that the window covers what the next command moves
  (`Transfers`), so that a word arrives where the host means it (`StoredIs`); which words of the image this `init` has written
  (`Written`), at the step it is at; and that once the pointer has been cleared only a firmware of this `init` can have set it again
  (`Published`), which a firmware cannot do before the last access of the script, when the image is whole. A failed `init` leaves
  any prefix of this behind; the reset at the start of the next one is what makes it harmless.
- `OwnedOnce` (`Own`, `OwnSizes`: the marks for raw and moved-from slots are no resources, a `String` has an inline buffer).
  `Owned`: no sequence of slots holds a resource twice (`Once`), the variable, the released pointer, each container and nobody
  partition the resources, and each container has its kind's form (`Kept`): behind a `Vector`'s length there is only raw memory,
  which is why growing, which copies only that far, loses nothing. `Exchange` carries every operation on one container: it is
  enough that what the container, the caller, the pointer and nobody hold together is the same as before, and still apart.
- `TypedIsServed` (`Uart`, `UartSizes`: the ring has a slot; the receiver's fifo, the keys and how many are typed are free). `Served`: what
  was read, then what the ring holds, is what was typed (`NothingLost`), the task runs just when it does not wait and finds a byte
  when it is to read one (`TaskResumed`), the line lacks just the byte whose echo is not out (`LineEdited`), and no event
  comes unseen in the busy wait (`IdleSees`). `PutRing` and `TakeRing` are the ring's arithmetic: one spare slot tells full from empty
  for every size and place of the indices. The handler's loop and the edited line are folds over sequences of any
  length. `PutFolds` and `EditFolds` unfold them: the functions the library's `FoldLeft` is defined by exist for every prefix, by
  the least prefix for which one would not (`Counting`, from the well-foundedness of the naturals). Both are
  needed because an operator cannot be a parameter of a lemma. `PutAll` follows: the loop takes what there is room for, and no more.
- `MasterKeyShared`, `SessionKeysShared` (`Eapol`, no condition on how many connections, repeats and losses, nor on the
  key data, whose elements and order are free). `Agreed` orders what is under way: behind a confirm of the present session comes no commit of it (`LastCommit`), behind a message 2 for the
  station's latest nonce none for another (`Latest`), nothing under way belongs to a later session (`Pasts`). That is why a
  late message 3 that verifies was made for the key the station has. Of the group keys it says that what
  the supplicant holds, accepted or left by a refused message, and what is under way to it, was given by the access point
  under the master key it was sent with.
- `AddressNotOverstayed` (`Dhcp`, `DhcpSizes`: any lease outlasts half of any other, or of the default, and two exchanges). `Leased`
  relates the client's timer and attempts to what is left of the server's lease, through an
  acknowledgement that is still under way: it was sent within the present exchange, so that the lease it
  grants has lost at most the exchange's length. The assumption is about servers: the length of the client's
  exchanges is fixed, and so is the time it assumes of a lease whose length it is not told; with leases shorter than
  that it would indeed overstay.
- `UpAlwaysSupervised`, `PortOpensAfterKeys`, `InterfacesGivenBack` (`Link`, `LinkSizes`: sizes are positive; the number of commands,
  failures and stray frames is free). `Supervised` has seven parts. `Typed` and `Shaped`: which step may precede which in a
  plan, and which may be the last. `CmdKnown`: whose command is in flight, for which step of its caller, and what a success has
  already changed at the chip. `TasksKnown`: there is one `link_task` alive, the one the handle names; it is tearing down only when the link is not
  up; and while it is, a new connection is still in its scan (`Behind`). That last one is a race, and the reason why
  `UpIsSupervised` holds at all: after a beacon loss `link.up` is false before the task has removed its interface and reset
  the link, so that `halow connect` is already allowed. It starts with a scan of three commands, each of which is a round out
  and a round back, and the task needs at most three steps, one a round: `Pos <= Gone(t) + One(t \in due) - One(Console \in due)`
  counts both, including who has had its turn in this round; when the task's own command holds the channel the scan is
  refused and ends. `UpKnown`: the interface of a link that is up is authorized and is none that a scan has. `KeysKnown`: what a
  connection has installed by each of its steps. `AllOwned`: every interface of the chip is one that somebody at
  work will remove, or one already counted as given up (`chip.stray`): by a failed command, a refused removal or
  a scan whose request was too long.

Only model-checked: the same stream properties when a `Conn` is opened again (`tcp_reuse`); `Coop` with the
refinement of `Mutex`; all
liveness (`PoolRecovers`, `SendResolves`, `CloseResolves`), which the proof system does not handle; what the recursive
definitions of `Inflate`, `Curve` and `Digest` compute, which would need induction over their data: `PutFolds` does that
for one loop, theirs are nested; the
findings, which are counterexamples.

Proofs that failed corrected the model. `Link` wrote what follows a failed step as a `CASE` with overlapping guards, of which TLC takes
the first but the definition may be any; it is a chain of conditions now, as in the code. An interface that was given up and then
removed after all stayed in `chip.stray`, which would have excused it if the chip had used its number again; the chip
now forgets it. `Driver` left some calls that take a sequence number out of its
count of commands, so that numbers could have repeated within a load; it now counts every call that takes one,
as `send_command()` numbers them. And the search for the invariant behind `FinAckedMeansConsumed` ended in the
finding `tcp_fin_reuse`.

## Findings

Each is a run that is expected to fail, with the comment of the code it contradicts.

- `tcp_fin_storm`: `tcp.hpp:112` promises that `close()` "falls back to a reset on
  timeout". After a `send()` of the client gave up, the client's fin lies past a hole; the server drops
  it but answers with an acknowledgement, which wakes `close()`, which
  sends its fin again at once without counting a timeout. Under fair
  scheduling this goes on for ever: the client's `close()` does not return, and neither does the server's
  `recv()`, which waits for that fin, so that the server never comes to its own `close()`.
- `tcp_fin_wait`: `tcp.cpp:571` "await the peer's fin for a bounded time": any
  segment with an acknowledgement ends the wait, and the peer is reset.
- `tcp_fin_reuse`: `tcp.cpp:344` "everything including any in-flight fin is acknowledged".
  A `send()` that timed out goes back to `snd_nxt = snd_una`; when the repetition cannot be
  sent (no packet, link down) it returns false there, with `snd_nxt` before octets the peer
  already has. `close()` takes `fin_seq = snd_nxt`: the number of such an octet. The
  acknowledgement of the octet, still under way, then passes for that of the fin, and the peer,
  which drops a fin at that number, never sees the end of the stream. One fault
  and one failed send suffice. Found by the proof of the stream's invariant, which
  did not go through without the condition that `OrderlyFinConsumed` now has.
- `arp_stale`: `arp.hpp:78` "resolve next_hop and send the ipv4 packet": the packet can
  leave for another host's address or for 00:00:00:00:00:00, because the address is
  read a round after the entry was found and the entry may be gone.
- `coop_crowd`: `ext-event.hpp:16` "error, event held by another task. do not suspend". The
  refused wait still clears `event->waiter` when it returns (`:32`); the next wait
  is let in beside the one that is suspended, and after its task is cancelled the
  runner writes a result into its destroyed frame (`runner.cpp:81`).
- `dhcp_spin`: `dhcp.hpp:16` "per-attempt reply wait". When a send fails at once (link down, pool
  empty) the exchange ends without a wait and the next begins: round after round
  until sends succeed, during which the runner never idles. Other tasks still run.

Seen while modelling, and part of the models, but without a run of their own:

- `sae.cpp:129-132`: `*(p += 1) = ...` moves before it stores, so that the three header bytes of the
  anti-clogging container come one place late and the token overwrites the last
  of them (`WriteCommit` in `Eapol`: the access point finds no container).
- `select.hpp:13`: "the index of the task that finished first". A branch that finishes before `select()` is resumed, in the
  same round, writes its own index over that of the first (`select.hpp:25`; `BranchDone`).
- `scan.cpp:267`: a request too long for its buffer returns after the interface was added, without removing it. `connect()` limits the
  length of the name, `halow scan` does not (`LongScanPlan`; `InterfacesReturned` counts the interface as given up).
- `eapol.cpp:36-54`: a message 3 that is refused for what follows its GTK leaves that GTK in `supp.group`; the next message 3
  is then accepted without one (`OnM3`).
- `eapol.cpp:31`: padding after the last element of message 3's key data (`dd 00 ..`) is refused as a
  short vendor element, and message 3 with it (`ParseKeyData`).
- `tcp.cpp:466`: `connect()` says "no response" of a peer that answered and closed before `connect()`
  resumed (`CloseWait` is not `Established`).
- `tcp.cpp:430`: SynReceived has no timeout; when a client disappears after its syn, `accept()` waits
  for ever.
- `command.cpp:99`: a burst of events drops the newest, which may be the loss of the link; nothing
  promises that it is noticed otherwise.

## Not modelled

- Straight-line computation tested by published vectors: the compression function of sha256, the rounds
  of aes, ccmp. Field layouts of frames and commands (`commands.hpp` and most of the bytes
  `connect.cpp` and `scan.cpp` write), delimiter and crc of yaps frames, the bits of SDIO-over-SPI.
- Register headers (`hw-*`), boot code, clock and pin set-up of both boards, the RP2040 application:
  writes in a fixed order, where a model would repeat the constants.
- Formatting, `split.cpp`, string views; the console commands that only print.
- Of modelled components: several connections sharing the tcp table of four, the udp socket table,
  checksums and header validation, `prepend`/`append` within one buffer, the out-of-memory paths
  inside the runner, the code lengths of a dynamic deflate block, a `String` of more than 16383 characters.
