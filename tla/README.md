# A TLA+ model of rito

rito is a C++ library with which an application talks to the League of Legends
client (the LCU) over a WebSocket and over REST, and to the Riot REST API. This
directory holds TLA+ modules for the parts of it that keep state, the TLC
configurations that check them, and proofs that TLAPS checks. File names without
a directory are those of `src/src/` and `src/include/rito/`.

## The system

| Component | State | Operations | Who calls it |
|---|---|---|---|
| `Lcu_websocket_handler` | `m_stop`, `m_is_state_connected`, `m_socket_mutex`, `m_websocket`, three callbacks | `run`, `stop`, `send_message`, `register_*`, destructor | one thread in `run()`, any number of others; callbacks call back in |
| `Https_websocket_client` | `m_connected`, the Poco WebSocket | `start`, `stop`, `is_connected`, `send_message`, `receive_message` | the handler, from all its threads |
| `Lcu_wamp_handler` | five callbacks; subscriptions and calls are kept by the LCU | `call` (two), `subscribe`, `unsubscribe`, dispatch of messages | as the WebSocket handler, which it owns |
| `Lcu_rest_handler`, `Riot_rest_handler` | `m_client`; `m_region` | `request`, `set_region` | one thread |
| `Https_rest_client` | a keep-alive session | `request` | the REST handlers |
| `Lcu_process_handler` | none on Linux, a loaded DLL on Windows | `get_lcu_process_parameters` | the handlers, when they (re)connect |

The handlers connect by asking `Lcu_process_handler` for the port and the token
of the running LCU. The WAMP handler receives everything through the callbacks
of the WebSocket handler, and these run on the thread that is in `run()`.

What is hard here: threads that meet in the WebSocket handler, where some
accesses of `m_websocket` are under `m_socket_mutex`, some follow a check that
has already released it, and two flags are plain bools; an LCU that starts,
restarts and goes at any moment; exceptions that leave a state change half done;
a blocking receive that `stop()` must end; a retry that repeats a request;
frames and messages that do not correspond. `PROJECT.json` lists each hazard at
its line with the properties that would catch it.

What makes each component correct:

* WebSocket handler: the loop only dereferences a client that is there and is
  not destroyed under a sender; nobody locks the mutex twice; callbacks come in
  protocol order; `stop()` ends `run()`; it reconnects, and reports each loss.
* WebSocket client: a message is returned whole, once, unmixed, unless something
  cuts it; a call reads a bounded number of frames; it is disconnected exactly
  when the connection has been found useless.
* WAMP handler: each received message reaches its own callback, and what is
  reported belongs to this connection.
* REST handlers: state left by earlier calls never makes a request fail.
* Process lookup: what it returns are the parameters of one LCU that ran, it
  misses none that runs throughout and can be read, closes what it opens, and
  ends.

## The modules

| Module | Models |
|---|---|
| `ConnectionEvents` | abstract: what an application is promised about its callbacks |
| `ReportedConnection` | abstract: what the owner of a handler relies on: `ConnectionEvents` tied to the connection |
| `LcuWebsocketHandler` | `Lcu_websocket_handler`, the life cycle of its client, the LCU |
| `MCLcuWebsocketHandler` | constants and symmetry for TLC |
| `LcuWebsocketHandlerProofs` | its theorems about the mutex, the loop and the callbacks |
| `HandlerClientProofs` | its theorems about the client, what the application knows, `stop()`, and freed memory |
| `ClientContract` | abstract: what the event loop relies on in its client |
| `HttpsWebsocketClient` | `Https_websocket_client`, frame by frame |
| `HttpsWebsocketClientProofs` | its theorems about messages |
| `ClientContractProofs` | its theorem about the contract |
| `LcuWampHandler` | `Lcu_wamp_handler` and the LCU as its router |
| `LcuWampHandlerProofs` | its theorems |
| `RestHandler` | both REST handlers and `Https_rest_client` |
| `RestHandlerProofs` | its theorems |
| `LcuLookup` | abstract: what a handler may expect of the process lookup |
| `LcuProcessHandler` | `Lcu_process_handler` on Linux and on Windows, the processes of the system |
| `MCLcuProcessHandler` | constants for TLC |
| `LcuProcessHandlerProofs` | its theorems |

They fit together through the abstract modules. `LcuWebsocketHandler`
implements `ConnectionEvents` (`EventProtocol`), `LcuWampHandler` takes
`ConnectionEvents` for the handler underneath it (`Base`) and implements it
again for its own callbacks (`UserEventProtocol`). `ConnectionEvents` speaks of
callbacks only. `ReportedConnection` adds the connection: it is made after the
last loss has been reported, stays while `on_connected` or `on_message` runs, and
is gone in `on_disconnected`. The handler implements it (`ReportsConnection`), and
the WAMP handler's model has no step of the handler underneath that it does not
allow (`ReliesOnReports`): with both proved, the WAMP handler's properties rest on
nothing that the WebSocket handler was not shown to do, as long as callbacks do
not throw and nobody destroys the handler under `run()`.

`ClientContract` stands in the same way
between the handler and its client, and both sides are checked and proved
against it: `HttpsWebsocketClient` implements it frame by frame
(`KeepsContract`), and the actions `Start`, `DestroyClient`, `ReceiveMessage`,
`ReceiveNothing`, `ReceiveFails` and those of the LCU in `LcuWebsocketHandler`
are steps of it (`UsesClientByContract`), so that the handler's model of its
client has no step that the contract does not have.
`LcuProcessHandler` implements `LcuLookup` (`KeepsLookup`). The handlers' steps
take of it that `GetParams` uses the parameters of an LCU that ran, and that the
lookup may fail; parameters of a process that is no LCU, which `LcuLookup` lists
among its deviations, are left out there.

Definitions that a comment calls faulty are variants of the definition after
them with a mistake that the code does not make. No specification uses them.
They show that each property can fail.

### LcuWebsocketHandler

`pc` is where the thread in `run()` stands, `api[t]` where thread `t` stands in
a public member function (the loop's own thread has one as well, for calls from
a callback). A step ends wherever another thread can interfere: at a lock, at an
access outside of it, at a call that blocks. Locking, a short piece of code and
unlocking is one step that needs the mutex free (`Unlocked`); `reconnect()`,
which holds the mutex while it looks for the process and connects, and
`send_message()`, which holds it over `sendFrame()`, keep `m_socket_mutex` over
several steps. `m_websocket` stands for the pointer and the client's state;
`stale` are the threads still in `sendFrame()` of a client since destroyed.
`fate` is what ends the process: null dereference, use after free, an exception
out of a `noexcept` function. The plain bools are read and written as single
values; a torn or delayed value of these bools is not modelled.

Registration of callbacks is possible while no thread is in `run()`: the
members are `std::function`s without a lock. Every LCU that starts has new
parameters, so `GetParams` may read those of a process that is gone before
`Start` uses them, and `start()` may throw although the LCU listens (a handshake
that fails, `StartsFail`). `sendFrame()`, and `shutdown()` of a connected client in
the destructor of `Https_websocket_client`, may throw whenever they are called: the
LCU has closed the connection, or it is up and a send times out or TLS fails.
`receive_message()` may report a message, throw with the
client still connected, or find it disconnected.

### HttpsWebsocketClient

A frame is a kind, the message it belongs to, its place in that message, and
FIN. Poco is modelled from how the code uses it: `receiveFrame()` appends the
payload and reports length and flags; a closed connection gives 0 and 0, as an
empty continuation frame does; other failures are exceptions; there is a
time-out. Ping, pong and close frames are handed to the caller. Time-outs fall
between frames: one in the middle of a frame, after which Poco would take
payload for a header, is left out. `returned`, `whole` and `damaged` are
histories for the properties: what was returned last, which messages were
returned whole, and which were cut or lost.

### LcuWampHandler

A message is its type, its second element, whether the elements after it are
there and not null, and whether the array is closed. `send_message()` is one
step. The LCU carries out what it understands, and is free to ignore, carry out
or hang up on a message whose array is not closed, as are all of `subscribe()`
and `unsubscribe()` (l.98-106 write no bracket).

### RestHandler

One module for both handlers, as `request()` is the same in both: `kind` is
chosen at the start. `target` is the region set by the caller, or the LCU that
runs. The old LCU is gone for good, the server of an old region is not.
`disturbed` is a history: the network failed in this call, or there was no
target, or it changed. `executed` holds the servers that have executed the
request of this call.

### LcuProcessHandler

`platform` is chosen at the start. On Linux, `cursor` is the position in `/proc`
and `listed` holds the entries that `directory_iterator` has obtained in its
buffer and not handed out, so that an entry may be of a process that is gone, or
has become another one, when its `cmdline` is read. On Windows `listed` is the
array of `EnumProcesses()`. Beside the scan processes start, end, and turn into
an LCU (`exec`); an LCU may restart under another number. A process that only
mentions `LeagueClientUx.exe` in its command line is a kind of its own.

A text is abstracted to four things: is the name in it, which token, which port,
and whether the text ends right after one of the two (then the regular
expression does not match). `TextsOf` are the texts `getline()` may give for a
process: whole, or cut at a newline or at the limit of the kernel. A process that
runs may also be passed with nothing read (`FindsNothingUnread`): its `cmdline`
cannot be opened, which the code does not test, or its number is not taken for
one, as `is_positive_integer()` is given a view of a string that has been
destroyed (an undefined behaviour, modelled as a choice for each entry).

On Windows each process is opened, its name is read, and it is closed, in three
steps of which the first may give no handle and the second may throw
(`std::bad_alloc`, of the conversion of the name). That call stands outside the
`try` (l.104), so that its exception leaves the handle open. Memory that runs out
elsewhere has no outcome of its own.

`LcuLookup` has the documented results (`Answers`, `Fails`) and those that the
header does not know (`Deviates`), each with its condition, and `Found` maps every
outcome to a result of its own:

* parameters are those of an LCU that ran at some moment of the call; a token with
  the port of another LCU, or a wrong port, is allowed by nothing;
* "not_running": every LCU was absent at some moment of the call (`throughout`), or
  nothing could be read of it when it was its turn (`unread`);
* "unreadable" (`Lcu_parameters_exception`): on Linux an LCU or a process that
  mentions one ran; on Windows no condition, as the code throws it for an absent
  LCU, too (l.126), against `lcu_process_handler.h:61-63`;
* "foreign" and "undocumented" (`std::out_of_range` of `stoi()`): a process that
  mentions the LCU ran. The code returns such parameters, with a port cut to 16
  bits, where the header speaks of those of the LCU;
* "no_directory" on Linux, and "out_of_memory" anywhere.

What the code does against its header is so named in `LcuLookup`, not excluded by
it: `KeepsLookup` says that nothing else happens, and on Windows, where no lookup
returns parameters, it says little more than that.

There the address of the
command line in the other process is converted instead of the copy: that step
ends in an access violation or in an exception, and never in parameters.

## The runs

| Run | Shows | Bounds |
|---|---|---|
| `handler_safety` | types; unlocked accesses find a client; the lock protects senders and keeps their frames apart; no self-deadlock; calls from callbacks find the client; `ClientContract` respected; a loss is told before the next connection; `stop()` leaves no loop asleep; `run()` ends disconnected | two users (symmetric), all calls, callbacks that call back and throw, time-outs, lookups and starts that fail beside a running LCU, frames that cannot be sent, 2 unread messages |
| `handler_liveness` | `ConnectionEvents` and `ReportedConnection` implemented; each connection in use is told; `stop()` ends the loop; it reconnects, reports losses; calls return | one user and calls from callbacks, no exceptions, no time-outs, 2 unread messages |
| `send_after_loss` | violation: `send_message()` dereferences null | one sender |
| `stop_before_loop` | violation: `stop()` is erased by `m_stop = false` | one stopper |
| `throwing_callback` | violation: after `on_connected` throws, the loss is not reported | no calls |
| `client_frames` | uncut messages are returned whole, nothing lost or mixed; bounded reading; `ClientContract` implemented | 3 messages of up to 5 frames, limit 3 of 4 counter values, 3 frames on the way |
| `fragment_returned` | violation: a ping or a fragment is returned as a message | 2 messages of 2 frames |
| `wamp_session` | answers and events are of this connection and reach their callback; `ConnectionEvents` implemented, `ReportedConnection` relied on | one ID, one topic, 1 message out and 2 in |
| `wamp_call` | violation: `call()` without arguments makes its ID a subscription | as above, 1 in |
| `rest_retry` | a call that nothing disturbs succeeds, and its request is executed once | 3 servers or LCUs |
| `rest_region` | violation: `set_region()` does not reach a client that exists | 2 regions |
| `process_lookup` | `LcuLookup` implemented; a returned token of an LCU has its own port, and the LCU ran; each process that is opened is closed, with the exception of l.104; each step brings the end nearer, and the scan ends | 3 process numbers, 2 LCUs, ports of 6 bits (64) and integers up to 100 |

The bounds leave the interesting cases in. In the handler, one thread races with
the loop and the second with both: senders interact only through the mutex and
the client, and a third is in the place of one of the two. Two unread messages
let `stop()`'s wake-up queue behind another. Without time-outs the loop blocks
for ever in a receive, the hardest case for `stop()`. In the client the limit
(3) is the last value the counter can reach below its range (4), as 255 is for a
`uint8_t`, and messages are longer than the limit by two. In the WAMP run two
messages can wait behind one another, an answer behind an event for instance.
In REST, a client, the current LCU and the next one need three. In the lookup,
three numbers give one behind the scan, one in its buffer and one ahead, and two
LCUs one that leaves and one that follows it; the ports are 41 and 63, so that a
port cut by a digit, one above the 6 bits, and one above what `stoi()` can
return are all different. `LookupsFail` and `StartsFail` are
only `TRUE` in `handler_safety`: `Reconnects` speaks of an LCU whose parameters can
be read and that accepts connections.

### Fairness

`FairSpec` of `LcuWebsocketHandler` assumes: the thread in `run()` and every
thread inside a member function is scheduled, and gets a mutex that is free
again and again (strong fairness of `LoopStep` and `ApiStep(t)`: `std::mutex`
promises no order, and implementations do not starve a waiter for ever);
callbacks return ("should be non-blocking", headers); `sendFrame()` returns; a
`stop()` frame is answered by the LCU or it hangs up (weak fairness of
`AnswerExit`: the comment "any message will do" at `lcu_websocket_handler.cpp`,
`stop()`, relies on it). No caller has to call anything, and the LCU has to do
nothing else: `Reconnects` has its premise `<>[](lcu = "listening")` written out.

`FairSpec` of `LcuProcessHandler` is weak fairness of `LookupStep`, the thread
that looks. Nothing is assumed of the processes of the system: they may start
and end for ever.

## What the violations say

1. `send_message()` tests `is_connected()` and locks again afterwards; the loop
   can drop the client in between (`lcu_websocket_handler.cpp:161-164`).
2. `run()` starts with `m_stop = false` and so erases a `stop()` that came after
   `run()` was called (l.28).
3. An exception of `on_connected` leaves `m_is_state_connected` false with a
   client that is connected: its loss is never reported (l.74, 84).
4. `call()` without arguments sends SUBSCRIBE (`lcu_wamp_handler.cpp:202`).
5. `set_region()` does not affect a client that exists
   (`riot_rest_handler.cpp:22`).
6. `receive_message()` returns control frames and fragments as messages
   (`https_websocket_client.cpp:120`).

Theorems say how far these reach, and with each the property that the run violates
holds for every value of the constants:

* `CallbacksSendSafely`: the first takes a thread beside the loop. An application
  that calls the handler only from its callbacks never meets it.
* `ConnectionAlwaysTold`: the third takes a callback that throws. Otherwise the
  application knows of every connection in use, so that there is a loss to report.
* `CallsWithArgumentsAreCalls`: the fourth takes that one overload. `call()` with
  arguments, `subscribe()` and `unsubscribe()` never make an ID a subscription.
* `RegionHonouredWithoutClient`: the fifth takes a `set_region()` while there is a
  client. If regions are set only without one, every response comes from the
  region's server, whatever fails in between.
* `UndisturbedIsWhole`: the last takes a control frame, a time-out, or a message of
  more frames than the limit. Without these, every message is returned whole,
  whatever is lost or broken beside it.

The second is a liveness property and stays with TLC.

The models also reach what no property excludes. `sendFrame()` may throw at any
frame, and its exception leaves `send_message()` or `stop()`, which are `noexcept`:
the process ends, where `lcu_websocket_handler.h:117` promises false.
`SendReturnsABoolean` does not speak of that, but of the null dereference alone.
An exception of `on_disconnected` (l.105, l.127), or of the `shutdown()` of a client,
ends the process as well. `stop()` may be overtaken by the loop on another thread
and dereference null or use a destroyed client (l.39), and the destructor does not
wait for `run()`. A request may be executed twice by the server; `ExecutedOnce` says
only that it takes a disturbance. An answer with a null payload is dropped. One
theorem bounds the use of freed memory: by `StopsInCallbacksAreSafe` it takes
`stop()` or the destructor beside the loop, as `stop()` from a callback is on the
loop's own thread.

More were met and have no run. A caller of `request()` can get Poco's own
exceptions from the second attempt, where `lcu_rest_handler.h:63-64` names those
of rito. On Windows an absent LCU is a `Lcu_parameters_exception`
(`lcu_process_handler_impl_windows.cpp:126`), where `lcu_process_handler.h:61-63`
says `Lcu_not_running_exception`, no lookup can succeed there (l.188), and a handle
stays open when reading a name throws (l.104). On Linux a process that mentions the
LCU hides it, and its parameters are returned (l.44); `std::out_of_range` is no
documented exception (l.26).

## What is proved

The theorems hold for every value of the constants, under the assumptions named
in the modules, which TLC evaluates in every run.

* `LcuWebsocketHandlerProofs`: `TypeOK` and six invariants of
  `handler_safety`, `StableWhileLocked`, and `EventProtocol` if callbacks do
  not throw, for any number of threads. None of them is inductive alone.
  `LockInv` ties the owner of `m_socket_mutex` to where each thread stands, from
  which `OwnerNeverWaits` and `SenderIsAlone` follow;
  `ClientInv` says what `m_websocket` and the link can be at each label of the
  loop; `StaleInv` says a thread that is stale was in `stop()`, never in
  `send_message()`, as its frame is sent under the lock that `DestroyClient`
  needs; `ReportInv` ties `m_is_state_connected` to the loop. A run() that ends
  has gone through `StopReset`, and between it and the return nothing makes a
  client. `EventsImplemented` rests on `EventInv`: each step of the loop is a
  step of `ConnectionEvents` or leaves its variables alone.
* `HandlerClientProofs`: the six other safety properties of the handler, again
  for any number of threads. `UsesClientByContract` is a refinement step by step;
  it needs `ClientInv` and `ConnectionInv` (nothing arrives for a client that has
  not been started). `CallbackCallsFindClient` is inductive: the only thread that
  could replace the client is in the callback (`LoopIsOutside`).
  `StopWakesLoop` is the safety half of `StopTerminates`: `WakeInv` starts it at
  the moment the loop has passed its test of `m_stop`, and each step of `stop()`
  hands the wake-up on to the next until "Exit" is on its way
  (`StopHandsWakeUpOn`), while senders and callbacks do not touch it.
  `LossIsToldFirst` holds even if callbacks throw, `ConnectionIsTold` only if
  they do not, and follows from `EventInv`. `ReportsConnection` is a refinement
  whose every step needs one of these: `Connect` that the loss was told
  (`LossIsToldFirst`), `Lose` that the connection had been (`EventInv`), a report
  that the client is what it says (`ClientInv`); its hypotheses are callbacks that
  do not throw and no destructor. `OnlyCallbacksStop` is the invariant of
  `StopsInCallbacksAreSafe`: the loop, if it is the one in `stop()`, cannot
  destroy the client it is using.
* `HttpsWebsocketClientProofs`: `TypeOK` and `BufferBounded`, for every limit
  below the number of values of the counter. `Counted` is the strengthening: in
  the loop the buffer has as many frames as the counter says. The lemma
  `CounterReachesLimit` is where the limit must be smaller than the range.
  `OneMessageAtATime`, `UncutIsWhole` and `NothingLost` for any number and
  length of messages: `FrameInv` speaks of `Unread`, the frames in the buffer
  followed by those on the way. They are numbered, each data frame follows the
  data frame before it, nothing of a message comes after its last frame, and a
  frame whose predecessor is gone is of a damaged message (`OrderInv`);
  `SentInv` says what the LCU's next frame will follow, `ReadingInv` that the
  buffer is consecutive, `Accounted` that no message is missing.
  `UndisturbedIsWhole` adds `AlignedInv`: without control frames and time-outs,
  and with messages no longer than the limit, a call starts at the first frame of
  a message, so that no call can end inside of one.
* `ClientContractProofs`: `KeepsContract`. What is pending for the contract is
  the number of calls that the frames on the way will end. `CallsEndedBy` counts
  them with a recursive function over positions: the frame counter at each
  position depends on the frames before it. Its lemmas, what a frame more or a
  frame less does to the count, are inductions over the natural numbers, done
  with a set of positions and the theorem on minimal elements, as the library's
  induction rule cannot be used with the provers at hand.
* `RestHandlerProofs`: `TypeOK`, `NoNeedlessFailure` and `ExecutedOnce`, for any
  number of servers. `CleanInv`: in a call that is not disturbed the target
  listens, and a second attempt has a new client for it and a new session.
  `ExecutedInv` counts the executions by the attempts. `RegionHonouredWithoutClient`
  states its hypothesis as an action property of the application,
  `RegionSetWithoutClient`, beside `Spec`.
* `LcuWampHandlerProofs`: `TypeOK`, `AnswersAreForCalls`, `EventsAreSubscribed`
  and `UserEventProtocol`, for any IDs, topics and bounds. `SessionInv`: both
  queues, the LCU's subscriptions and the calls it executes hold nothing that
  was not asked over this connection. `CallbackInv` ties the application's
  callback to that of the handler underneath. `ReliesOnReports` needs `LinkInv`: no
  message of a connection that has been given up waits to be handed over.
  `CallsWithArgumentsAreCalls` has `CallsHaveArguments` as its hypothesis, and
  `PlainInv`: no subscription on the way to the LCU is for the ID of a call.
* `LcuProcessHandlerProofs`: `TypeOK`, `HandlesAreClosed` and `KeepsLookup`, for any
  processes, LCUs and ports and any width of the port and of `int`. `ProcessInv`:
  an LCU is one process and starts once. `CallInv`: what runs now is in `ran`, what
  is in `throughout` runs now, and a process is open only while its name or its
  command line is read, or after an exception of the former. `ScanInv`: an LCU that
  has run since the call began is in the buffer or ahead of the cursor, or has been
  passed unread, so that the scan cannot end without it. Every step of the scan is
  then a step of `LcuLookup` or leaves its variables alone. `ParametersAreReal`
  does not need `ScanInv`: whatever the scan skips, a token of an LCU that is
  returned has its own whole port, and the LCU ran during the call. `LookupAdvances`,
  for any finite number of processes, is the safety half of `LookupEnds`: each step
  of a lookup brings the natural number `StepsLeft` down, and no process that starts
  or ends beside it brings it up.

Only model-checked: the five liveness properties of a `FairSpec`
(`StopTerminates`, `Reconnects`, `DisconnectionIsReported`, `CallsReturn`,
`LookupEnds`), as liveness under fairness and ENABLED are out of the prover's
reach. Every invariant, action property and refinement of a passing run is the
statement of a theorem, some with the hypotheses named above
(callbacks that do not throw, no destructor) under which the runs check them, too.

## What is not modelled

* The syntax of the regular expressions, the name of a Windows process in its
  parts, and the leak of buffers when the conversion of a command line throws.
  In `LcuWebsocketHandler` the lookup is one step: failures other than "no LCU"
  (parameters missing, no `/proc`) act on the handler as that one does. In
  `RestHandler` a lookup fails only if no LCU runs.
* TLS, credentials, headers, JSON beyond the first elements, exception texts.
* A data race on a `std::function` (registration during `run()`) and torn reads
  of the plain bools.
* Build files and tests: no run-time behaviour.

## Plan

1. Done: the WebSocket handler; the WebSocket client and its contract, from both
   sides; the WAMP handler; the REST handlers; the process lookup on both
   platforms with `LcuLookup`; proofs of every safety property and refinement
   that the passing runs check; the reach of each finding that is one of safety.
2. Exceptions of the REST handlers, and of the Windows lookup, against the
   documented ones, and `sendFrame()` that throws against `noexcept`, as runs of
   their own.
3. Sharing of one LCU between the REST and the WebSocket handler if it proves to
   matter: today each of them looks it up for itself.
4. Liveness of the WAMP handler (an answer that is sent is reported while the
   connection lasts), which needs fairness of the handler underneath it.
