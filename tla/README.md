# Verification of unisock

unisock is a single-threaded C++14 library of asynchronous sockets. A program
creates servers, clients or bare sockets, hangs hooks on them and calls
`events::poll` in a loop; the library accepts, receives, sends and closes, and
calls the hooks. Everything happens on one thread. What makes it hard is
re-entrancy: hooks run in the middle of the library's own operations and call
the library again. They close the socket whose hook is running, add descriptors
to the vector being walked, close the container being drained.

This directory models that core in TLA+, with the socket addresses and the
example programs around it, checks it with TLC on small instances and proves the
main invariants with TLAPS for every instance.
Paths below are relative to `src/`.

## Inventory

| Component | Source | State | Operations |
|---|---|---|---|
| poll handler | `includes/events/polling_handler.hpp`, `includes/events/handlers/poll/handler_impl.hpp`, `src/events/handlers/poll.cpp` | two parallel vectors `sockets`, `socket_ptrs`; `ushort invalid` | `add_socket`, `delete_socket`, `socket_want_read`, `socket_want_write`, `empty`, `get_ref`, `ref_has_changed` |
| poll loop | `includes/events/events.hpp`, `includes/events/handlers/poll/poll_impl.hpp` | locals `it`, `handler_ref`, `n_changes` | `events::poll` |
| action lists | `includes/events/action_hanlder.hpp` | per action, a vector of callbacks with flags `SKIP`, `STOP_AFTER`, `QUEUE_END` | `on`, `execute` |
| sockets, containers | `includes/socket/socket.hpp`, `socket_base.hpp`, `socket_container.hpp`, `includes/events/pollable_entity.hpp` | the descriptor `_sock`; a map key -> socket object | `open`, `close`, `bind`, `set_want_*`; `make_socket`, container `close` |
| tcp connection | `includes/tcp/connection.hpp` | `send_buffer` | `send`, `send_flush`, `recv`, `listen`, `connect` |
| tcp server | `includes/tcp/server.hpp` | containers of listeners and clients | `listen`, `accept`, `close`; hooks LISTEN, ACCEPT, RECEIVE, DISCONNECT, CLOSED, ERROR |
| tcp client | `includes/tcp/client.hpp` | container of connections | `connect`, `close`; hooks CONNECT, RECEIVE, CLOSED, ERROR |
| raw and udp sockets | `includes/raw/socket.hpp`, `includes/udp/socket.hpp` | as sockets | `sendmsg`, `send_to`, `recvmsg`, `recvfrom`; udp `open`, `bind`, free `send_to` |
| socket addresses | `includes/socket/socket_address.hpp`, `src/socket/socket_address.cpp` | a `sockaddr_storage` | `addrinfo`, `nameinfo`, `from`, `get_ip`, `to<>` |
| example programs | `examples/` | what each program counts of its connections | a round trip test over TCP, a pair of programs over UDP, a pair over TCP whose server is closed by a command |
| handler selection, build | `includes/events/events_types.hpp`, `CMakeLists.txt` | none | none |

**How they interact.** `events::poll` hands the pollfds of the handler to
poll(2) and walks them, calling `on_readable()` and `on_writeable()` of the
socket object of each; these execute the READABLE and WRITEABLE action lists,
whose callbacks the server and the client installed (`accept`, `recv`,
`send_flush`), which execute the user's hooks. Opening and closing a socket adds
and removes its entry in the handler. Closing executes the CLOSED list, whose
last callback, the *eraser* a container installed, destroys the object. The
handler keeps raw pointers to the objects in the containers' maps.

**What is hard** is listed, line by line, in `PROJECT.json` under `hazards`:

- the loop holds an iterator into a vector that callbacks change, and relies on
  a 16-bit, uninitialised, wrapping counter to notice;
- a failed poll(2) is dispatched like a successful one;
- a break in the loop starves the entries behind it;
- CLOSED hooks run after the descriptor is closed and before the map entry is
  gone, and may close, drain, or open again, reusing the descriptor;
- partial sends and partial flushes, and bytes that overtake buffered ones;
- the order of a callback list in which two flags interact, and a callback that
  destroys the list it is called from;
- an address that is used as an IPv4 one whatever its family, and a resolver
  that may ask to be tried again;
- programs that count bytes over several partial transfers and act when the
  count is exact, and programs that wait for each other over a network that
  loses datagrams.

**What makes each component correct.**

- Handler: the vectors stay paired and duplicate-free.
- Poll loop: the iterator is never used after it was invalidated; a callback
  runs on the object its descriptor is registered for, for an event that was
  reported, at most once per call; an undisturbed call delivers everything; a
  ready descriptor is eventually served.
- Action lists: the order the flags promise, the eraser last.
- Sockets and containers: what is registered is exactly what is open; nothing is
  erased twice, nothing is used after it was erased; nothing leaks; calls return.
- Connections: no byte lost, reordered or sent twice; the buffer drains.
- Addresses: the resolver is asked as often as promised and no more; a failure
  leaves the address as it was; an address that was asked for with a port has it.
- Examples: every byte is counted once, errors are printed of connections that
  could not be made and of no others, the programs end when and only when they
  should.

## Modules

| Module | Models | Correspondence |
|---|---|---|
| `PollHandler` | the handler | one operator per method; the pollfd vector and the pointer vector are sequences, masks are sets of flags, `invalid` counts modulo `RefModulus` from any initial value |
| `PollLoop` | `events::poll` over `PollHandler` | `pc` says where the thread is: `idle` (the application), `scan` (between two lines of the loop), `in_cb`, `out_cb` (inside a callback). User code runs in all but `scan` and may call every handler operation. `ScanEnd`, `ScanSkip`, `ScanRead`, `ScanWrite`, `ScanError` are the ways an iteration can start, `ReadReturns` and `WriteReturns` the ways it goes on; `PollReturns` and `PollFails` are the call to poll(2) |
| `EventDispatch` | what `events::poll` promises, without vectors, iterators or counters | abstract: a registry, the last report, the pending events, the running callback |
| `ActionList` | `add_callback` and what `execute` calls | operators on sequences of flagged callbacks |
| `ActionHandler` | one action: `on`, and the walk of `execute` one callback at a time; one callback may destroy the object and the list | `pos` is the iterator of the walk, `alive` says whether the list still exists |
| `SocketContainer` | `socket`, `socket_container`, the CLOSED list and the kernel's descriptors, over `EventDispatch` and `ActionList` | `todo` is the call stack: `Close`, `Erase`, `Drain` are the bodies of `socket::close`, of the eraser and of one turn of `socket_container::close`; `BaseOpen`, `BaseClose` and `MakeSocket` are what the three kinds of sockets share; a hook is a task that makes up to `MaxCalls` library calls |
| `TcpServer`, `TcpClient` | their operations on containers | `Listen*`, `Accept*`, `CloseServer`; `Connect*`, `CloseClient`; each failure path is an action or a disjunct |
| `RawSocket` | raw sockets, which user code declares itself, over the same operations | `RawOpen`, `RawOpenFails`, `RawReadable`, `RawReceives` (the hooks RECVMSG and RECVFROM), `RawCallFails` |
| `UdpSocket` | udp sockets, over raw ones | `UdpOpen`, `UdpBind` and `UdpBound` (the two halves of `bind`), `UdpReceive`, `UdpSendFails` |
| `Program` | a server, a client, raw and udp sockets on one handler | composition: shared handler, descriptors, stack |
| `Connection` | the sending side of a tcp connection | bytes are numbered; `Send` and `SendFlush` with every number of bytes the kernel may take |
| `SocketAddress` | resolution and naming with their retries, the constructors, `from`, `to<>` | an address is its family, length and port; each answer of the resolver is a step; the outcome `null` is a write through a null pointer |
| `RoundTrip` | `examples/tcp-rtt-speed-test` over TCP, client and server program | one thread each; a stream is the number of its bytes; `ClientConnects`, `ClientSends`, `ClientReceives`, `Server...` are the hooks and what they call; `errors` says which program printed an error about which connection |
| `UdpEcho` | `examples/udp-client` and `examples/udp-server` | datagrams are counted; losses, duplicates and signals are bounded faults |
| `CloseCommand` | `examples/tcp-client` and `examples/tcp-server` | a connection is its state in the kernel and what the server has not read of it; each of the three `listen` calls may fail; an operator sends the command |
| `Standalone` | an object of one of the three classes that need no handler: `ActionHandler`, `Connection` or `SocketAddress` | composition, for one run |
| `Examples` | one of the three pairs is started | composition |
| `MCPollLoop`, `MCProgram` | constants for TLC | |
| `PollLoopProofs`, `ActionListProofs`, `ActionHandlerProofs`, `ConnectionProofs`, `ProgramProofs`, `SocketAddressProofs`, `ExamplesProofs` | proofs about the module they are named after | |
| `DispatchProofs` | proofs that `PollLoop` implements `EventDispatch`, and about what one call of `events::poll` delivers | |

`PollLoop` implements `EventDispatch` (property `ImplementsDispatch`, an
`INSTANCE ... WITH` whose mapping reads the two vectors as a function of the
descriptor). The modules above it are built on `EventDispatch`, so what they
show holds on the real loop as far as `EventDispatch` allows the same steps.

External behaviour modelled from its use: poll(2) reports a subset of what was
asked for, and errors unasked; socket(2) and accept(2) return the lowest free
descriptor; ::send takes a non-empty prefix or fails, and a blocking one returns
short only when a signal interrupts it; getaddrinfo finds an address of the
family asked for or fails with some error; a datagram may be lost, duplicated or
overtaken.

## Runs

| Run | Question | Bounds | States |
|---|---|---|---|
| `PollLoop_safety` | does the loop survive whatever callbacks do to the handler, serve what is ready, and implement `EventDispatch`? | 2 descriptors, one of them closed and reopened for another object; all flags; 2 changes per callback, counter modulo 3 | 232 818 |
| `PollLoop_ref_doc` | finding: `ref_has_changed` against its doc | as above | |
| `PollLoop_every_ready` | finding: a change of the vectors leaves ready sockets uncalled | as above | |
| `Standalone` | the order of a list, what is executed, and that a destroyed list is not read; does the send buffer lose or reorder, does it drain when used with care? are the retries exact, is a failure harmless, where does the port go? | up to 4 callbacks, each of the 8 flag sets, any of them the destroyer; messages up to 3 bytes, 6 bytes in all, 12 on the wire; 3 retries as in the code, 2 ports, all families | 141 880 |
| `Program_safety` | do objects, containers, handler and kernel agree through nested closes? | 3 descriptors, 3 objects of containers and 1 udp socket, hooks, those of ERROR included, call anything, 1 call per hook, 5 tasks deep | 6.4 million |
| `Program_calls_return` | does every call return, does nothing leak, when hooks of a closing socket are careful? | as above with a raw socket instead of the udp socket, 5 tasks deep | 1.5 million |
| `Program_close_in_hook` | finding: `close()` in a DISCONNECT hook never returns | as `Program_safety`, 4 tasks deep, hooks as in `Program_calls_return` but for the one named | |
| `Program_reconnect` | finding: `connect()` in a CLOSED hook fails and leaks | as `Program_safety`, 4 tasks deep, hooks as in `Program_calls_return` but for the one named | |
| `Connection_resent` | finding: bytes sent twice | as in `Standalone` | |
| `Connection_stuck` | finding: the second waiting message stays | as above | |
| `SocketAddress_port` | finding: `from()` with a port writes through a null pointer for IPv6 | as in `Standalone` | |
| `Examples` | do the example programs count right, and end? | 2 connections, messages of 3 bytes, receive buffer of 2, kernel buffer of 3, 1 interrupted send; 2 faults of each kind over UDP; 2 clients and the operator | 7 503 |

**Why the bounds are enough.** Two entries show every relation of the iterator
to a change: before it, at it, behind it, and the same descriptor re-added for
another object. Two changes under a modulus of three is the longest sequence the
counter is specified for (`MaxHookChanges < RefModulus`). With three descriptors
a server can hold a listener and two clients, the smallest case in which a hook
of one client closes the other while the container is being drained. A hook
calls something as long as fewer than five tasks are on the stack. The two drains
of `server::close`, the eraser and the DISCONNECT hook of the client they close
are four, so that this hook does call: it closes the next client, or the server
again, or its `listen` fails and has the ERROR hook run above a close that waits.
The hooks of that second socket call nothing; the depth also stops programs whose
hooks recurse for ever, which is their author's doing. One call per hook leaves out two calls in a row in
one hook. Neither bound is one of the proofs: `ProgramProofs` shows the same
properties for any depth and any number of calls. `Program_calls_return` needs less depth: it asks how each loop and
each list ends, and whether a descriptor is lost on the way. The longest way to
lose one is a close in the CLOSED hook of a listener, of a client whose
DISCONNECT hook listens, and that takes five tasks: with such hooks TLC finds
the leak at depth five and not at four. The question about leaks also has its
answer for a raw and a udp socket together at eight tasks (2.0 million states,
not a regular run). Three callbacks show the relative order of any two and one
in between, a fourth adds the eraser. Six bytes make two messages that are both
taken in part. `CHECK_DEADLOCK FALSE` where the system may stop: the application
may have sent all it has (`Connection`), a list may be full or destroyed
(`ActionHandler`), the program may have died of a null pointer
(`SocketAddress`), all three in `Standalone`; the examples end.

In `Examples`, a message is received in two parts, the reply may wait in the
kernel, and a server that sends on one connection leaves another one waiting.
`MaxInterrupts` is at most 1 by assumption: a second interruption, of the flush
of what the first left, sends bytes again, which is the finding
`Connection_resent`, and the counts of the programs do not survive it.
`Capacity` is at least `MESSAGE` in the run only: with less, two blocking sends
can wait for each other, so that `RoundTripsEnd` needs it; the proofs do not.

**Fairness.** `PollLoop!FairSpec`: the application keeps calling `events::poll`
(the main loop of every example) and the thread runs on; nothing is assumed
about which callbacks change the handler or what the kernel reports.
`Program!FairSpec`: the library's own steps are taken and hooks return; the
application never has to call anything. `Connection!ConnectionSpec`, and
`Standalone!Spec` for a connection: a socket with POLLOUT set becomes writeable
again and is polled; the application need not send again.
`RoundTripFairness` and `UdpEchoFairness`: the thread of each program runs on,
faults need not happen. `CloseCommandFairness`: the server and each client
program run on; the operator need not do anything. `SocketAddress` and
`ActionHandler` state no fairness: their promises are bounds, not
eventualities.

**What is assumed of programs.** In `Program_safety` every hook may call
anything, with one exception. When it fails, `listen()` or `connect()` executes
ERROR and then closes its socket through a raw pointer
(`includes/tcp/server.hpp:253`): a hook that closed that socket, or the server or
client it belongs to, would leave the pointer dangling. No hook does so; that is
the guard `~ToBeClosed` of `UserClose` and the guard `SafeToDrain` of
`CloseServer` and `CloseClient`, which forbid nothing else. They are needed:
`NoDanglingTask` is violated when `CloseServer` has none (its mutant
`CloseServerAnywhere`). `bind` of a udp socket is called on a closed one only, as
its assertion demands. In `Program_calls_return` the hooks DISCONNECT and
CLOSED close no container and open no listener and no connection, and a raw
socket may be opened again when it was closed; the findings 1 and 2 show what
happens when each of these conditions is dropped.

## Findings

Seven runs end in a violation; each refutes a sentence of a doc or a comment of the
code, quoted in `PROJECT.json`.

1. `CallsReturn`: a container closed by a hook of one of its closing sockets
   loops for ever on the socket that is already closed and not yet erased.
2. `InsertNeverFails`: a CLOSED hook that connects again is given the descriptor
   of the closing socket, whose map entry is still there. A DISCONNECT hook that
   listens is given the descriptor of a listener in the same way, when its client
   was closed by the CLOSED hook of that listener.
3. `SentOnce`: `send_flush` drops the result of `substr()`.
4. `BufferDrains`: POLLOUT is switched off after each message.
5. `FromGivesPort`: `from()` with a port accepts IPv6 addresses and then writes
   the port through `to<sockaddr_in>()`, which is null for them.
6. `RefSameAsDocumented`: the doc of `ref_has_changed` says that it returns true
   if the references are the same (`polling_handler.hpp:110`); it returns true if
   they differ, as its name says and the loop needs. `RefTracksChanges` states
   the code's side.
7. `EveryReadyIsCalled`: the doc of `poll_impl` says that every socket that is
   readable or writeable is called (`poll_impl.hpp:38`); the loop breaks off once a
   callback has added or deleted a descriptor (`poll_impl.hpp:62`). With a callback
   that does so in every call (a busy listener at the front), the sockets behind
   it are not read at all. What does hold is `CompleteCycle` of undisturbed
   calls and `ServedUnlessPreempted` in the long run; `ChangeEndsCycle` states why
   the break is there, the vectors may have moved.

Two more things the models show contradict no doc and have no run:

- After a poll(2) that fails without touching the array the events of the
  previous call are delivered again (`poll_impl.hpp:47`); `FreshEvents` speaks of
  successful calls.
- The constructor and `to_string` use the same null pointer as `from()`;
  `OtherPointersAreNotNull` proves that no other operation and no other family
  does.

Two docs of addresses speak of what the code never does, found while reading it;
nothing is modelled of either. `get_ip` is documented to throw for an address
that is not an inet one (`socket_address.hpp:377`, `387`), and returns
"[invalid address family]" (`src/socket/socket_address.cpp:67`). `nameinfo` has a result
`NAME_TOO_BIG`, documented as "name is too big for name buffer"
(`socket_address.hpp:85`), which no line returns: such a name is an `ERROR` of
getnameinfo, and so the model has it.

A `tcp::client` installs no WRITEABLE callback at all, so that its buffer is
never flushed. `RoundTripsEnd` names the case: unless a signal left the end of a
message in the send buffer of a client.

## Proofs

Every theorem is of the form `Spec => []P` unless it is an action property, and
holds for every value of the constants the named assumptions allow. TLC
evaluates each assumption in the runs of its module, and checked each inductive
invariant on a small instance before it was proved.

**The poll loop** (`PollLoopProofs`), for every set of descriptors and objects,
every `RefModulus >= 2` and every bound on the changes of a callback smaller than
it: `TypeCorrect`, `VectorsPaired`, `RefIsExact`, `CursorIsStable`,
`EventsAreFresh` and `ChangesEndTheCycle`. Assumptions: `FlagsAssumption`,
`RefModulusAssumption`, `OwnersAssumption` and `MaxHookChangesAssumption`. The last
is the code's own proviso ("the value can overflow as long as the overflowed
value is not same as the old value", `polling_handler.hpp`). The inductive
invariant is `IInv == TypeOK /\ Paired /\ CountingInv /\ CursorInv /\ FreshInv`.

- `CountingInv` replaces `RefTracksChanges`, which compares two numbers for
  equality and says nothing about the next increment: it gives the *distance*
  between `invalid` and `handler_ref`, modulo `RefModulus`.
- `CursorInv` states the stability of the iterator in terms of `changes`, which
  only user code moves, instead of the counter.
- `FreshInv` relates what the vector still holds to what was reported: an event
  that was delivered is fresh because no entry ever gains a flag during a call.

The lemmas come in three layers: what `RemoveAt` and `Find` return; that each
handler operation keeps the vectors typed and paired; that each action keeps
`IInv`, with one lemma for each of the pieces the loop is made of (`Leave`, `Call`,
`EndIteration`, `StartLoop`).

**What the loop delivers** (`DispatchProofs`), under the same assumptions:
`DeliveredOnce` (`AtMostOnce`), `CyclesAreComplete` (`CompleteCycle`) and
`LoopImplementsDispatch`, the refinement of `EventDispatch`. What they need beyond
`IInv` is `WalkInv`, about a call in which no callback has changed the set of
descriptors:

- `UndeliveredInv`: nothing was delivered of the entries the iterator has not
  come to, so that a callback is never the second for its event.
- `DeliveredInv`: everything was delivered of the entries it has passed, and of
  the one it is at what comes before the running callback.
- `CountInv`: the vector still holds all that was reported, and `n_changes` is the
  number of entries left with something to report. When it reaches zero, what
  was reported lies behind the iterator, and was delivered.

The mapping of the refinement reads the vectors as functions of the descriptor.
`Mapped` states it entry by entry, because that is how the actions change them;
one lemma for each kind of step then shows that it is a step of `EventDispatch`
or leaves its variables alone.

**Sockets, containers, server and client** (`ProgramProofs`), for any number of
descriptors, objects and calls per hook, to any depth: `ProgramTypes`,
`HandlerMatchesObjects`, `NothingDangles`, `EachClosedIsErasedOnce`,
`AcceptNeverCollides`, `NothingLeaks` and two action properties,
`CloseEmptiesServer` and `InsertDoesNotFail`. Assumptions: `FdsAssumption`,
`SocketsAssumption`, `MaxCallsAssumption`, `ContainersAssumption`. Nothing is
assumed of `HookOps`: any hook, ERROR included, may call anything, as far as the
guards `ToBeClosed` and `SafeToDrain` allow the call (see "What is assumed of
programs"). The inductive invariant is `Inv == KernelInv /\ StackInv /\ CloseInv`.

- `KernelInv` is about objects, handler and descriptors. Besides what the
  properties say it knows the record of each object, its CLOSED list included,
  from which `ClosedListRuns` derives that the hook is run before the eraser; it
  cites the lemmas of `ActionListProofs` about `AddCallback` and `Executed`.
- `StackInv` is about the call stack, and is what makes nested closes safe. The
  properties of one task are not inductive: whether a socket may be erased
  depends on what is pending below. `Below` says it of a whole stack: it holds
  exactly one eraser for each closed socket of a container and
  none for another, a CLOSED or DISCONNECT hook right above the eraser of its
  socket, and the drain of the listeners below the drain of the clients, or the
  clients are gone.
- `CloseInv` is about the calls of `socket::close` on the stack. The one at the
  top may be of any live socket. One further down is that of a `listen` or a
  `connect` that failed, and `Waiting` says that its socket is still open and that
  nothing above it closes that socket, by itself or by draining its container, so
  that the object is there when the call's turn comes. The guards keep this for
  what hooks add; for what the library adds it follows from `Spares`: a socket
  that closes, and its hooks, are never those of one that waits.
- `Below` composes (`BelowConcat`): a stack of that kind on top of another, whose
  closed sockets are disjoint, is one. So each operation only has to show that
  what it pushes is such a stack by itself. `BelowTail` is its converse for a
  task that ends.

`NothingLeaks` (`NoDescriptorLeak`) and `InsertDoesNotFail` (`InsertNeverFails`,
the property finding 2 refutes) have a hypothesis of their own, `ClosingOpensNothing`:
the hooks of a socket that is being closed, and those a call made in them can lead
to, neither listen nor connect. It is met in `Program_calls_return` (whose
ERROR hook may close sockets), and finding 2 is what happens without it.
A descriptor leaks only if it is inserted under a key that is still in the map;
such a key belongs to a socket whose eraser is pending, and `CalmAboveErasers`
says that above an eraser the stack holds no other hooks: nothing there can
listen, connect or accept. It is kept because whatever is pushed by such a hook is
again of their kind, and it composes like `Below`.

**Action lists** (`ActionListProofs`, `ActionHandlerProofs`), for lists of any
length: `ListIsOrdered`, `EraserIsLast`, `NoDestroyedListRead` and
`CallsAreExecuted`. `Ordered` is inductive; the next two need to know what a
walk has called: `RanInv` says that it is what it passed and does not skip, and
`PastDestroyer` that a walk that goes on after the object died did not stop at
the callback that destroyed it. `CallsAreExecuted` (`WalkIsExecuted`) says that
the walk, one callback at a time, calls exactly the sequence `Executed`, which
the containers use as one step. Its invariant `OrderInv` gives each place that
is called a `Rank`, the number of called places up to it, and says which call
each rank is; that every rank is taken is part of the invariant, since proving
it afterwards would need an induction over the list.

**Connections** (`ConnectionProofs`), for messages of any length, any number of
them and any partial sends, under `ConnectionAssumption`:
`ConnectionTypeCorrect`, `NoByteLost`, `BufferStaysInOrder`, `NeverIdleWakeups` and
`CarefulUseStreams`. The buffer is in order because what joins it is newer than
all it holds: `Numbered` says how bytes are numbered, `BufferedAccepted` that the
buffer holds none that `send` did not accept.

**Addresses** (`SocketAddressProofs`), for any number of retries and any set of
ports (`RetriesAssumption`, `PortsAssumption`): `AddressTypeCorrect`,
`ResolverIsAskedAgain`, `FailureKeepsTheAddress`, `PortIsSet` and
`OtherPointersAreNotNull`. The properties speak of calls that have returned;
`AskingInv` is what holds while one runs: the tries made and the tries left add up
and the address is untouched.

**Example programs** (`ExamplesProofs`), for any number of
clients, message length, receive buffer, kernel capacity and number of faults:
`ExamplesTypeCorrect`, `RoundTripBytesConserved`, `RoundTripErrors`,
`UdpTurnsConserved` and `ConnectionsDoFollowCommand`. `BytesConserved` is inductive
with `ClientPlace` and `ServerPlace`, which say where each program can be and what
it has on the connection it is on, and with what holds of connections that are
not tried yet and of each stage of one that is. `RoundTripErrors` follows from it:
an error of a connection that was made would need a count that is past the length
of the message, or a connection closed before it is complete. `CloseCommandInv`
adds to `ConnectionsFollowCommand` that nobody is connected to a server that did
not get to poll, because none of its `listen` calls succeeded, and that the server
closes by command only.

**Only model-checked:** the liveness properties, which are out of reach of the
proof system: `ServedUnlessPreempted`, `CallsReturn`, `DrainsWhenCareful`,
`RoundTripsEnd`, `PingPong` and `CommandEnds`. Every invariant and every action
property the passing runs check is stated by a theorem.

## Not modelled

- Hooks that call `events::poll` on the same handler: the inner call would
  overwrite the revents the outer loop still walks.
- `on()` called for the action being executed: undefined behaviour.
- Hooks that close what a `listen` or `connect` is still about to close (see "What
  is assumed of programs").
- Sockets destroyed without `close()`: `~socket` does not deregister.
- `raw::open` of a socket that is open, which leaks the old descriptor; the free
  `send_to`, which opens and closes a descriptor of its own and leaves nothing
  behind.
- The connection speed test, whose hooks do nothing, and the raw listener, which
  prints what it hears.
- `get_ip`, the text of an address.
- Contents of messages and bytes of addresses, names and wording of errors; `tcp::client::send`, which
  cannot be instantiated; the handler types that are declared and not implemented.

## Plan

1. (done) Handler and poll loop, their abstract specification and its
   refinement; action lists; sockets, containers, server and client on one
   handler, raw and udp sockets beside them; the send buffer; proofs of the
   invariants of the poll loop.
2. (done) Addresses; the example programs with their networks; proofs about
   sockets and containers, action lists, connections, addresses and examples.
3. (done) ERROR hooks that call the library. Breadth that is left: objects
   destroyed without `close()`; nested `events::poll`, as a stack of loop
   activations in `PollLoop`.
4. (done) Proofs that `PollLoop` implements `EventDispatch`, of what a call
   delivers, that a walk calls what `Executed` says, and that careful programs
   leak nothing.
5. (done) The proofs about `Program` with ERROR hooks that call the library.
