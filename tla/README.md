# libuvutils: models, checks and proofs

libuvutils wraps libuv in C++ classes: TCP connections, servers and clients,
UDP sockets, UNIX pipes, timers, signals, threads, and a linked list in C. This
directory holds TLA+ models of those classes, the TLC configurations that check
them and proofs about them.

Run a check with `tlc -config <name>.cfg <module>`, for instance
`tlc -config TcpServer_hooks.cfg TcpServer`, and a proof with
`tlapm <module>_proofs.tla` (eight modules, a few minutes in all).
`PROJECT.json` lists the runs, the theorems, the source lines each definition
stands for, the hazards and, for each property of a passing run, an operator with
a plausible error that this property notices.

## 1. Inventory of the system

All networking code runs on one thread in the libuv loop (`DepLibUV::RunLoop`).
Concurrency is the interleaving of callbacks, and re-entrancy: a class calls its
listener, its subclass or a user callback, and these may call back into it
before they return. Only `Thread` starts threads of its own.

| Component | State | Operations | Talks to |
|---|---|---|---|
| `TcpConnection` | `closed`, `isClosedByPeer`, `hasError`, receiving buffer, counters, `uvHandle` (and `uvHandle->data`, the way back) | `Setup`, `Start`, `Close`, `Write` (one or two buffers), `ErrorReceiving`, destructor; callbacks for alloc, read, write, shutdown, close | libuv; its listener (server or client), which deletes it; the user callbacks given to `Write` |
| `TcpServer` | `connections` (a set of pointers it owns), `closed`, listening handle | constructor (listens), `Close`, destructor; `OnUvConnection`, `OnTcpConnectionClosed` | the subclass's three `UserOn…` hooks; the connections |
| `TcpClient` | `connection` (a pointer never cleared), `req` (embedded connect request), `closed` | `Connect`, `Close`, destructor; `OnUvConnection`, `OnTcpConnectionClosed` | the connection's handle directly, the hooks |
| `PortManager` | none that is used (the port maps are declared only) | `BindTcp`/`BindUdp` with or without a port, `Unbind…` (does nothing), `GetFamily`, `NormalizeIp` | the operating system's ports; whoever takes the handle |
| `UdpSocket` (`UdpServer`, `UdpClient` add nothing) | `closed`, counters, one static receiving buffer for all | constructor, `Send`, `Close`, `OnUvRecv`, `OnUvSend` | libuv, callbacks given to `Send` |
| `UnixStreamSocket` | as `TcpConnection`, without listener | constructor (opens a pipe by descriptor), `Write`, `Close`, callbacks | libuv, the subclass |
| `Timer` | `timeout`, `repeat`, `closed` | `Start`, `Stop`, `Reset`, `Restart`, `Close`, `OnUvTimer` | the loop's timer, a listener |
| `SignalsHandler` | vector of handles, `closed` | `AddSignal`, `Close`, `OnUvSignal` | the loop, a listener |
| `lstLib` | head, tail and count of a doubly linked list; links inside the nodes | init, add, insert, get, delete, extract, concat, find, nth, nStep, free | its callers |
| `Thread`, `Mutex`, `UVCondition` | `exitPending` under a mutex | start, `Join`, `RequestExit`, `RequestExitAndWait`, `IsQuit` | the runnable |
| `DepLibUV` | the loop | `ClassInit`, `ClassDestroy`, `RunLoop` | everything |
| `LibUVErrors`, `Logger` | – | exceptions, macros | – |
| `libuv`, `include/` | bundled library | – | – |

What is hard here, and what each component must get right:

* **Objects and handles live different lives.** A handle may only be freed in its
  close callback; the object is usually deleted long before. The link
  `uvHandle->data` must be cut in time, `uv_close` must happen exactly once, and
  no callback may reach a deleted object.
* **Several discoverers of one death.** A read, a queued write, a new `Write` and
  the subclass may all find the same socket dead. The owner must be told once.
* **Callbacks in the middle.** Failure callbacks and `UserOn…` hooks run before
  the code around them is finished.
* **Writes are split.** `uv_try_write` takes any part of one or two buffers, the
  rest is copied and queued; order and content must survive, and a graceful close
  must wait for it.
* **Ownership of callbacks.** Each `onSendCallback` must be deleted once, and run
  at most once.
* **Connecting takes time.** The client may be closed or deleted before the answer.
* **Limits.** The receiving buffer, the wrap-around of the port range, the give-up
  after 100 attempts, unsigned shorts in the address parser.

`PROJECT.json` has the full list under `hazards`, each at its line.

## 2. The modules

| Module | Models |
|---|---|
| `UvStream` | what the classes rely on in a libuv stream: write queue, partial writes, shutdown, close, cancellation, a socket that may break. External code, modelled from its use |
| `TcpConnection` (extends `UvStream`) | one connection with its application and owner |
| `ByteChannel` | abstract specification of what a connection or a pipe promises about bytes |
| `TcpServer` | a server, its set of connections, and hooks that call back |
| `TcpClient` (extends `TcpConnection`) | a client composed with the connection it drives |
| `PortManager` | the two `Bind`s with their handles, against other processes |
| `IpFamily` | `GetFamily` character by character, and `NormalizeIp` |
| `UdpSocket` | a datagram socket with its application; its requests and handle included, since they are not a stream's |
| `DepLibUV` | the loop object, and whose turn it is on the loop's thread |
| `Timer`, `SignalsHandler` | the two classes with their handles and listeners |
| `UnixStreamSocket` (extends `UvStream`) | one end of a pipe with its subclass |
| `EventLoop` (extends the four above) | a program that uses them on the loop |
| `Thread` | threads, the mutex in each `Thread` object, and their owner |
| `LstLib` | the routines of the list library, link by link |
| `Lists` | abstract specification of the list library: sequences of nodes |
| `ListTasks` (extends `Thread`, `LstLib`) | threads that share lists under a mutex |
| `TcpConnection_proofs`, `TcpServer_proofs`, `TcpClient_proofs` (extends the first), `PortManager_proofs`, `IpFamily_proofs`, `UdpSocket_proofs`, `EventLoop_proofs`, `ListTasks_proofs` | theorems |

### Conventions

* One action is one call or callback, from entry to return, unless the code calls
  out with work of its own left to do. Such calls go on a stack, `frames`
  (failure callbacks in `TcpConnection`, hooks in `TcpServer`, all send callbacks in
  `UdpSocket`), and while it is
  not empty only the application moves, and only by the deeds the constants
  `CbCalls`, `InNew` and `InClosed` list. Where the call out is the last thing a
  function does (all hooks in `EventLoop`) no stack is needed: it is the
  application's turn until the hook returns.
* Variables carry the names of the members. `fault` becomes true where libuv
  would abort (second `uv_close`, refused `uv_shutdown`) or freed memory would be
  used. `mem` (or `conn`, `client`, `server`) says whether the object is deleted.
* Operators under a comment that starts with "Mistake" are not part of a
  specification: each is the definition after it with a plausible error.
* A byte is a pair of the write it belongs to and its number, so that lost,
  doubled or reordered bytes can be told apart. Contents are not modelled.

### TcpConnection

`handle`, `reading`, `shutting`, `queue`, `completed`, `backlog`, `sock`, `wire`
and `fin` are the libuv side; `closed`, `isClosedByPeer`, `hasError`,
`bufferDataLen`, `recvBytes`, `sentBytes` the members; `data` says whether
`uvHandle->data` is still set. `issued`, `cbLog`, `notified` and `accepted`
record what was asked for and what the application was told.

`Write` has one disjunct per way through it (refused, all at once, queued rest,
error), for one and for two buffers; `PendingOfTwo` is the splice. `OnWrite` and
`WriteError` end at the call of `cb(false)`; `CbReturn` is the rest. `OnReadEnd`
covers both closing branches of `OnUvRead`. The owner is the pair of effects of
`OnTcpConnectionClosed` that concern the connection: told once more, deleted.
When the application calls `Close` itself nobody is told and the object stays
with its owner until it is deleted.

Left out: `uv_tcp_init` does not fail on Linux, so the error path of `Setup` is
not taken; `uv_write` fails only on a closed or shut-down stream, which `Write`
has excluded; `nread == 0` and a read callback without object change nothing;
the addresses are text.

### TcpServer

A connection is what the server can see: open, closed, deleted. Its end is one
action, `ConnectionEnds`, which calls the listener and leaves a frame for
`UserOnTcpConnectionClosed`; `ClosedReturns` deletes. `OnUvConnection` leaves a
frame for `UserOnNewTcpConnection`; `NewReturns` inserts or deletes. `Close`
deletes the objects of the set and does not empty it, as in the code. Hooks nest.

### TcpClient

The client extends `TcpConnection`: its actions are the connection's, started and
ended by the client, and the client's own. `ClientClose` closes the connection's
handle without telling the connection, so the connection still counts as open
in its own eyes, and its object is never deleted. That makes the class correct
only for an application that keeps five rules, which are the values `Slips` may
have when it does not: no `Close` or `delete` once the connection has closed, nor
from inside a failure callback of its writes, nor after `Connect` has thrown (it has
closed the handle itself by then, so such a client can only be leaked); no `delete`
before the connect request has answered; no use of the connection after `Close`. TLC
finds `NoFault` violated when any one of the five is broken. `Connect` is called once. (`Close` before `Connect` follows a null
pointer; this is left out.)

### PortManager and IpFamily

`TryPort` is one turn of the search loop, so that other processes can take and
free ports between turns. UDP and TCP differ only in libuv calls. `IpFamily`
reads a text that is not known in advance, one character per action. What counts as
an address is said three times: `IsLegal` is what the comment above `GetFamily` calls
legal, `IsAddress` what libuv reads (no spaces), `IsLooseAddress` what the code lets
through once the spaces at the ends are gone.

### UdpSocket

`handle`, `receiving`, `queue`, `completed` and `data` are the libuv side; `closed`,
`sentBytes` and `received` (`recvBytes`, one per datagram) the members. `Send` has
one disjunct per way through it. The caller of a callback has nothing left to do
but delete it (`CbReturn`), so the application may do anything in it: send again,
close, delete the socket. `Transmit` is libuv's attempt to send, within
`uv_udp_send` and later. Datagrams that are empty, cut off or come with an error
change nothing when received. `SendRefused` calls the callback and leaves it
allocated; `refused` remembers which.

### EventLoop: DepLibUV, Timer, SignalsHandler, UnixStreamSocket

`EventLoop` is one program: it initialises `DepLibUV`, constructs the objects of
one of the sets in `Programs`, and makes any of their calls before the loop runs,
from within the functions the loop calls, and after `RunLoop` has returned. `turn`
says which of these it is: "main", "hook", or "loop" while libuv is busy. The four
modules it extends have the actions, `EventLoop` says when they are possible
(`AppCalls`, `Hooks`, and one action for each kind of step of the loop). `Alive`
is what keeps `uv_run` from returning. The program takes `DepLibUV` down only when
the loop has returned, everything it has is closed, and it has called nothing since.

* `Timer`: `timer` is the object, `uvTimer` the handle. Time is abstract: an active
  timer may come due at any turn of the loop; `due` and `again` are the timeout and
  the interval libuv was given. `shots` counts calls of `OnTimer`.
* `SignalsHandler`: `uvHandles` is the vector, `uvSignal` the state of each handle
  that was ever allocated, the lost ones of `AddSignalThrows` included.
* `UnixStreamSocket`: `pipe` is the object, the stream's variables are its handle.
  `Write` has one action per way through it, as in `TcpConnection`; but nobody
  deletes the object for the subclass, and a failure is told through
  `UserOnUnixStreamSocketClosed` only. `told` and `accepted` are history. The run
  gives it the descriptor of a pipe open in both directions; with `BadFds` it may be
  open in one only, or be refused by `uv_pipe_open`. (`uv_pipe_init` cannot fail: on
  Unix it always returns 0.)

### ListTasks: Thread, Mutex, lstLib

In `Thread` taking a mutex is a step of its own, with waiting before it. `at` is
where each thread's `run()` is; `owner` is the call the owning thread is in.
`RequestExit` and `RequestExitAndWait` differ in what happens under the mutex: the
second keeps it while it joins. The owner may use either for a thread that does not
poll `IsQuit`; for one that does, the second only with `WaitPolling` (see "Also seen").

In `LstLib` each routine that writes gives the new links, heads, tails and counts;
`Follow` and `Chain` are the loops along the links. The routines check nothing of
what they are given, so neither do the actions. Nothing in the repository uses the
library. `ListTasks` puts it to use the
way its header comment asks for (`lstLib.c:17-19`): each thread takes the mutex
(`TaskLocks`), looks a node up with `lstNth` (`TaskLooksUp`), calls one routine with
it (`TaskUses`) and gives the mutex back (`TaskUnlocks`). A node in no list is
the tasks' own memory, and its links are scribbled over, so a routine that relies
on a stale link is found out. Once the owner has joined all threads it frees the
lists. `Contents` is what the links make of each list, and the refinement mapping
to `Lists`.

## 3. What is checked

| Run | Bounds | What it shows |
|---|---|---|
| `conn_safety` (`TcpConnection_safety.cfg`) | 2 writes of 1 or 2 buffers of up to 2 bytes, buffer 2, 3 bytes received; 662 931 states | all safety properties, the refinement of `ByteChannel`, and that closed handles and all callbacks are eventually deleted |
| `conn_sentBytes` | as `conn_safety` | violated: `sentBytes` misses what `uv_try_write` took of a partial write |
| `server_hooks` (`TcpServer_hooks.cfg`) | 3 connections, `UserOnTcpConnectionClosed` does anything, `UserOnNewTcpConnection` may close the new connection; 801 states | the set is exact, nothing is deleted twice, nothing outlives the server or the hook that was told of it, the handle goes |
| `client_rules` (`TcpClient_rules.cfg`) | 2 writes, one with a null callback, 2 bytes received, all five rules kept; 6 585 states | no fault, silence after `Close`, the handle goes |
| `client_test` | the rule about `Close` after the end not kept, as in `test_TcpClient.cpp` | violated: `Close` goes through a deleted connection |
| `port_search` (`PortManager_search.cfg`) | 3 ports, 2 attempts, 3 handles; 38 372 states | range, no repetition, no handle left, the search ends |
| `port_busy` | `Bind` for a port in use | violated: the closing handle is returned |
| `udp_sends` (`UdpSocket_sends.cfg`) | 3 sends of up to 2 bytes, one with a null callback, 1 datagram received, application unrestricted; 225 161 states | answers are right and given once, order, counting, silence after `Close`, everything is freed |
| `family_texts` (`IpFamily_texts.cfg`) | texts of up to 8 characters over the digits 0, 2 and 5, dot, space, other; 2 029 011 states | no overflow; every text the comment calls legal is let through, what else is let through is characterised exactly, and spaces behind an address make the answer `true` instead of `AF_INET` |
| `family_invalid` | texts of up to 7 characters, with the digit 6 | violated: `NormalizeIp` aborts instead of throwing |
| `loop` (`EventLoop_program.cfg`) | a program with a timer (times 0, 1, 2) and 2 signal handles, and one with a pipe (2 writes of up to 2 bytes, buffer 2); 97 101 states | nothing aborts, timers do as told, the end of a pipe is told once and its bytes refine `ByteChannel`, no handle is left when `DepLibUV` goes, `RunLoop` returns |
| `lists` (`ListTasks_shared.cfg`) | 2 threads, one of them polling, 2 lists, 4 nodes; 255 777 states, up to swapping the lists | links, ends, counts and searches agree, `LstLib` refines `Lists`, no node is stale when used, no circular wait, no deadlock |

Why the bounds are enough. Two writes give every relation between writes: one
queued and one new, one finished and one queued, one failing inside the other's
callback. Two buffers of up to two bytes let `uv_try_write` stop before, at, in
and after each buffer, which is all the splice distinguishes. A buffer of two
bytes can be empty, partly filled and full. Three connections are what it takes
for one hook to run inside another and for a third connection to be in the set
while both run. Three datagrams allow one queued, one finished and one new, and
a callback within a callback. Three ports with two attempts keep the code's
proportion (a search gives up before it has tried the whole range) and include
the wrap-around. Seven characters are the shortest address, and the eighth is a
digit too many, or the space in front or behind that rule 2 of the comment speaks of; the digits 0, 2 and 5 make zeros in front, 255, and
numbers beyond it. The timer and the signal handler share a program because both
only keep the loop alive; a pipe shares nothing with them but the loop, so it has
a program of its own. The times 0, 1, 2 make a timeout and an interval differ
while both are not 0; two signal handles allow one that was started and one that
failed. Four nodes are what it takes to cut two nodes out of the middle of a list,
and for `lstNth` to start from either end; but its loop from the head
(`lstLib.c:409`) takes a first step only with six nodes, so that for this loop it is
the theorem `AlwaysWellFormed` that counts. Two lists are all that any routine
touches; they differ in nothing but their names, which makes `SYMMETRY` sound for
them (the properties are all of states and steps). With two threads, one polls and
one does not, so that both calls that ask for an exit are made while the other
thread is at work. Larger instances are what
the proofs are for.

Fairness. Weak fairness is only assumed of steps that the loop takes by itself:
a queue that can be flushed or has failed, callbacks that are due, the close
phase; the kernel takes or refuses a datagram in the end. `RunLoop` runs until
no handle is left, and libuv visits every handle in each turn. The peer of a
connection or pipe either reads or breaks. The application owes nothing but to
return from callbacks. In `PortManager` only the search loop is fair: nothing in it
waits. `EventLoop` makes no timer or signal fair: `RunLoop` returns because
everything is closed, whether or not anything came due before. `ListTasks` assumes
no fairness and has safety properties only; that its threads are never all stuck
is TLC's deadlock check.

`CHECK_DEADLOCK` is off in the other runs because those systems may stop: when
the handles are freed and the application is done, or when it just does nothing
more. `ListTasks` has an explicit step, `Finished`, for the end of its work.

### Disagreements found

1. `sentBytes` counts only the queued rest of a partly written buffer
   (`TcpConnection.cpp:262`, `379`; `conn_sentBytes`).
2. `TcpClient::Close` uses a connection that was deleted when it ended, as in the
   repository's client test (`TcpClient.cpp:120`; `client_test`).
3. `PortManager::Bind` for a given port returns a handle it has closed when the
   port is in use (`PortManager.cpp:498`; `port_busy`).
4. `NormalizeIp` aborts on texts that the comment above `GetFamily` calls illegal but
   that `GetFamily` answers with a family, such as the empty text, `123`, `1.1.1.` or
   `192.168.01.1` (`family_invalid`). IPv6 addresses always throw, since `GetFamily`
   refuses a colon.
5. Spaces at both ends of an address are legal by rule 2 of that comment
   (`PortManager.cpp:519`: "字符串两端含有空格视为合法ip"), and the samples at line 602
   include `"1.1.1.1 "` and `" 1.1.1.1 "`. With a space behind, `GetFamily` returns
   `true` (line 566), which is neither `AF_INET` nor `AF_INET6`, so `NormalizeIp` throws
   "invalid ip". With a space in front only it returns `AF_INET`, but libuv does not
   read the text and `NormalizeIp` aborts. A caller that asks yes or no is answered as
   the rules say. `RulesKept` (`family_texts`) says all this: a legal text is always
   let through, and answered `AF_INET` exactly when there is no space behind it.

Also seen, without a statement in the repository they contradict:

* A write that fails inside `UserOnNewTcpConnection` leaves a deleted connection in
  the server's set (`InNew = {"connection ends"}` violates `SetExact`).
* A failure callback that writes again on the same connection re-enters the
  failure path and notifies the listener of an object that is gone
  (`CbCalls = {"Close", "Write"}` violates `NoFault`).
* The constructor of `UnixStreamSocket` goes on after `uv_pipe_open` or
  `uv_read_start` has failed and the handle was closed; after the former a `CONSUMER`
  closes it again, on which libuv aborts. And when the descriptor cannot be written,
  `Close` aborts on the refused `uv_shutdown` (`BadFds = TRUE` violates `NoAbort`,
  with a descriptor that is refused as with one open in one direction only).
* A client whose `Connect` has thrown has no way out: `Close`, which the destructor
  calls, closes the handle a second time (`Slips = {"close after throw"}` violates
  `NoFault`).
* `Thread::RequestExitAndWait` joins while it holds the mutex that `IsQuit` needs:
  for a thread that polls `IsQuit` neither ever returns (`WaitPolling = TRUE` violates
  `NoCircularWait`). Used for other threads only, it is safe: that is the run.
* `AddSignal` forgets a handle whose `uv_signal_start` failed: it stays in the loop
  when `DepLibUV` goes (the exception in `CleanDestroy`).
* A failed connect is reported to nobody, and the connection of a client never
  learns its local address.

## 4. What is proved

All theorems hold for every value of the constants that satisfies the assumptions
stated where the constants are declared; where a theorem needs a further
hypothesis it says so, and TLC shows that the hypothesis cannot be dropped.

| Theorem | Property | Hypothesis |
|---|---|---|
| `TcpConnection_proofs`: `TypeCorrect`, `NoFaultEver`, `DispatchAlwaysSafe`, `ListenerToldOnce`, `NothingEverLost` | `TypeOK`, `NoFault`, `DispatchSafe`, `NotifiedOnce`, `NothingLost` | failure callbacks do no more than `Close` (`CbCalls \subseteq {"Close"}`) |
| `TcpConnection_proofs`: `CallbacksOnce`, `NeverAnsweredAfterClose` | `CallbackDiscipline`, `SilentAfterClose` | the same |
| `TcpConnection_proofs`: `ImplementsChannel` | `ChannelSpec` (refines `ByteChannel`) | the same |
| `TcpServer_proofs`: `NoFaultEver`, `TypeCorrect`, `SetAlwaysExact`, `NothingEverOutlives` | `NoFault`, `TypeOK`, `SetExact`, `NothingOutlives` | `UserOnNewTcpConnection` does no more than close a connection (`CloseOnly`) |
| `TcpClient_proofs`: `ClientNeverFaults`, `EndsAfterAnswer`, `ClientLosesNothing`, `QuietOnceClosed` | `NoFault`, `EndAfterAnswer`, `NothingLost`, `QuietAfterClose` | the application keeps all five rules (`Slips = {}`) and failure callbacks do no more than `Close` |
| `PortManager_proofs`: `TypeCorrect`, `PortsApart` | `TypeOK`, `AttemptsApart` | – |
| `UdpSocket_proofs`: `TypeCorrect`, `NoFaultEver`, `SendsAlwaysRight`, `NeverAnsweredAfterClose` | `TypeOK`, `NoFault`, `SendsRight`, `SilentAfterClose` | – |
| `EventLoop_proofs`: `NeverAborts`, `TimersAsTold`, `PipesToldOnce`, `NothingLeftBehind`, `TypeCorrect` | `NoAbort`, `TimerAsTold`, `PipeToldOnce`, `CleanDestroy`, `TypeOK` | descriptors are those of pipes open in both directions (`BadFds = FALSE`) |
| `EventLoop_proofs`: `PipesImplementChannel` | `PipeSpec` (refines `ByteChannel`) | the same |
| `ListTasks_proofs`: `Exclusive` | (two tasks are never inside at once) | – |
| `ListTasks_proofs`: `NoCircle` | `NoCircularWait` | `RequestExitAndWait` is not called for a thread that polls (`WaitPolling = FALSE`) |
| `ListTasks_proofs`: `TypeCorrect`, `AlwaysWellFormed`, `NeverStale` | `TypeOK`, `WellFormed`, `NoStaleNode` | – |
| `ListTasks_proofs`: `ImplementsLists` | `ListSpec` (refines `Lists`) | – |
| `IpFamily_proofs`: `NoOverflow`, `RulesAlwaysKept` | `TypeOK`, `RulesKept` | – |

Each module has an inductive invariant, shown to hold at the start and to be kept by
each action; the properties follow from it. Hardly any of them is inductive by itself.

**TcpConnection.** `IInv == TypeOK /\ Life /\ Backlog`.
`Life` ties the object to its handle: `data` is set exactly while not closed; a
deleted object is closed; a closed object's handle is either waiting for its
shutdown or closing, and never both, so that `onShutdown` and `Close` cannot
both call `uv_close`; at most one failure callback is running, and its object
is live. The last is where the hypothesis is used: the one call a callback
makes closes but does not delete. `Backlog` describes the write queue:
`wire \o backlog = accepted`, the ends of the requests are increasing and lie
within the backlog, and on a sound open stream the last request ends with the last
byte. Without it `uv__write` could not be shown to take bytes that are there. The
lemmas below are about sequences: `SplitParts` and `SplitJoins` (cutting and
rejoining), `SpliceIsPending` (the two-buffer splice leaves exactly what a cut of
the concatenation would), `WriteForm` (both forms of `Write` are one write of some
bytes), `FlushBacklog`.

**Callbacks of Write.** `CInv` adds three parts. `Requests`: libuv has at most one
request of a write, in the queue or finished. `Logs`: what has happened to each
callback determines where its request is, and conversely. `Positions`: the last byte
of a write lies at or before the `end` of its request, and within `wire` once the
request has finished well, which is why `cb(true)` is only told of bytes that left.
`SilentAfterClose` is a property of steps, and follows from `CInv` action by action.

**The byte channel.** Under the mapping of `delivered` to `wire` and of `status` to
`channelStatus` every step of a connection is a step of `ByteChannel` or leaves
its variables alone. `RInv` adds `Sealed` to `IInv`: a stream that was shut down in
order is closing or gone, so nothing can be written to it or take it back.

**TcpServer.** The invariant relates four things that the code keeps apart: the
state of each connection, whether it is in the set, whether a hook is running
for it, and whether the server is open. A connection handled by a hook is in no
set, so `Close` in the middle of a hook cannot delete it; and one that is alive is
in the set or handled, so `Close` forgets none.

**TcpClient.** `ClientInv` takes the types and `Backlog` from the connection. What the
client adds is that the shared handle may be closed behind the connection's back:
either that has not happened and the connection lives as any other (`Life`), or it
is `Abandoned`: its handle is closing or gone, its object stays, counts as open and
hears nothing. `Stage` says what the connect request rules out until it is
answered: reading, writes, callbacks, and the end of the connection. Nearly every
step is a step of the connection (`ConnectionSteps`), for which the lemmas of
`TcpConnection_proofs` are cited; the others close the handle. The rules enter where
`Close` and the destructor reach through the pointer: a client that is not closed
has a connection that is.

**UdpSocket.** Six parts. `Life` is about object and handle, `Requests` says that
libuv has at most one request of a `Send`, `Order` that what has left followed by
what is queued was given in that order, `Logs` what has happened to each callback
and where its datagram then is, `Counted` that `sentBytes` lies between the bytes
of what left or will leave and the bytes given. No hypothesis is needed, as here a
callback is the last thing a call does and the object is not touched after it. The
sums are folds over sets of datagrams, so they first had to be shown to be
sums: `SumsExist`, `SumsAgree`, `SumAdd`, `SumMono`.

**PortManager.** `Arc`: the ports tried are the last `attempt` ones up to the index,
counted around the end of the range. The next one is outside because a search
makes no more attempts than the range has ports (`RangeAssumption`).

**EventLoop.** One invariant for each object, which says that its handle is open exactly
as long as the object is not closed (and that the vector of `SignalsHandler` holds
exactly the handles that started), and one for the loop: when it has returned and
nothing was called since, nothing is alive in it. `CleanDestroy` needs both: no
object is open, and no handle is still closing. For the bytes of a pipe `RInv` adds
`StreamInv`, in which `Backlog` and `Sealed` are those of `TcpConnection`; a program
without a pipe leaves its stream as it was.

**ListTasks.** Who holds which mutex when: a `Thread`'s own mutex is held by its thread
in `IsQuit` or by the owner that joins it in `RequestExitAndWait`, and the latter,
by hypothesis, never for a thread that polls; the mutex of the lists by the one task inside. So
every chain of waiting threads ends, after the owner and one waiting thread, at a
task that waits for nobody.

For the lists, `Represents(c)` says that sequences `c` of nodes, all different, are
what the links, ends and counts stand for: each node's `next` is its successor, its
`previous` its predecessor, and nothing freed is among them. Links of nodes in
no list are arbitrary. Then reading the lists gives `c` (`ContentsAre`), and each
routine turns sequences that are represented into the ones `Lists` says
(`Implements`), however it splices: at an end, in the middle, into an empty list.
`WellFormed` and `ListSpec` follow. `NoStaleNode` also needs the mutex: while a task
is inside, no other changes a list (`FoundInv`).

**Induction over data.** The library's induction theorems cannot be instantiated
here, but its theorem about well-founded minima can: where the sums of `UdpSocket` and
the walks along links need induction, the proof takes a least counterexample
(`LeastElement`, `Smallest`) and refutes it. In `IpFamily` the end of a text without
its trailing spaces is a least element (`EndExists`).

**IpFamily.** For texts of any length below 65536 no unsigned short ever overflows,
and a number has at most four digits. `LeastValue` relates the number of digits to
the least value a number with so many digits can have; with four digits it is at
least 100, so the next one exceeds 255 and is refused. Which texts are taken follows
from a second invariant, `PInv`: while `GetFamily` reads, the text behind the spaces in
front splits at `count` dots (`Scanned`), there is a loose octet before each of them,
and `s`, `digitNumber` and `hasZero` say what the digits behind the last one amount to
(`Number`); once it has refused a character, the text has a piece that is no loose
octet and that nothing read later can repair (`Bad`). While it passes over trailing
spaces the text in front of them is what `Scanned` left (`Padded`), and is a loose
address or not once and for all (`PaddedLoose`, `PaddedNone`). What `Bad` says is not
undone by taking spaces away at the end either (`BadUnpadded`), so `RulesKept` may
speak of the trimmed text. That every legal text is let through is `LegalIsLoose`: an
octet is a loose octet.

Only model-checked: liveness (`AllFreed`, `HandleFreed`, `ClientHandleFreed`,
`SearchEnds`, `LoopReturns`), which is out of the prover's reach.

## 5. Not modelled, and what is left

Not modelled: `UVCondition`, which does not compile as it stands (`nsecs_t` is
declared nowhere) and is used by nothing; `Logger` and the exception classes, which
keep no state (an exception is the disjunct of an action in which a call fails);
the text of addresses (`GetAddressInfo`, `SetLocalAddress`), `Dump` and getters; the
echo programs and the build; and libuv beyond its interface, of which `UvStream`
and the operators named after libuv functions have what the classes rely on.

Left for later: theorems for the other hypotheses under which the properties may
hold, such as failure callbacks that write to another connection.
