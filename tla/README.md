# Verification of traced-web-terminal

TLA+ models of the traced web terminal, TLC configurations that check them on
small instances, and TLAPS proofs for every value of the constants. Paths below
are relative to the repository root; line numbers refer to the modelled commit.

## 1. The system

A browser shows a terminal and a live trace of one guest at a time. The pieces:

```
page (index.html) --/ws------> BFF relay --/attach--> GW bridge ------> SSH PTY session --> guest sshd
  | postMessage
  v
trace worker ------/ws/trace-> BFF relay --/trace---> GW trace bridge -> SSH tail --------> guest log
                                                      GW runtime: launches, probes, stops the QEMU guests
```

| Component | Source | State | Operations | Interacts by |
|---|---|---|---|---|
| GW trace bridge | `internal/gw/tracebridge.go` | bounded channel, drop counter, sync.Once, three goroutines | read a line, drop oldest, write frame, notice close, shut down | channel, atomic counter, WebSocket, SSH stream |
| GW terminal bridge | `internal/gw/bridge.go` | two goroutines, sync.Once | copy bytes, resize, shut down | WebSocket, Session |
| GW handlers | `internal/gw/server.go` | what one request has opened | targets, attach, trace | HTTP, Runtime, bridges |
| QEMU runtime | `internal/runtime/qemu.go`, `launch.go` | status and process per target, q.mu, wait group, done | launch, poll, attach, trace, stop | goroutines, child processes |
| SSH session, trace stream | `internal/runtime/ssh.go`, `trace.go` | SSH client, session, keepalive | dial, health gate, tail, close | network |
| Gateway process | `cmd/gw/main.go` | context, HTTP server | start, signal, drain, stop | signals, Runtime |
| BFF | `internal/bff/relay.go`, `server.go`, `cmd/bff` | two connections and a sync.Once per relay | list targets, dial Gateway, upgrade, copy frames, shut down | HTTP, WebSockets |
| Trace worker | `web/trace-worker.js` | sockets, reconnect timers, OPFS handle, pending lines, counters | open, message, close event, reconnect, flush, export | WebSocket events, OPFS promises, postMessage |
| Terminal pane, target picker | `web/index.html` | the variable `ws`, sockets it no longer refers to, the list shown, polls under way | connect, key, resize, poll, render | WebSocket events, fetch |
| Trace pane | `web/index.html` | recent buffer, DOM ring, filters, pause | append, redraw, clear | postMessage |
| Configuration | `internal/runtime/config.go` | the targets, fixed at the start | load, validate | read by the runtime |
| Wire format | `internal/wire` | none | encode, decode | frames of page, bridge and trace bridge |
| Provisioning | `vm/`, scripts | none at run time | | |

What is hard in them, and what makes each correct:

- **Trace bridge.** Producer and writer both take lines off one channel, and an
  eviction and its count are two steps. Correct: every line accounted for, order
  kept, gaps reported, the tail never blocked, everything released when either
  peer goes.
- **Runtime and process.** Pollers, launch loop, shutdown and signals interleave
  with guests that boot late, never or crash. Correct: no guest outlives the
  Gateway, a status is declared once, shutdown and readiness end.
- **Trace worker.** One task at a time, but any task may run between two awaits,
  and an abandoned socket still delivers events. Correct: one subscription, to the
  selected target; captured lines kept once, in order, in the right file;
  resubscription after a loss.
- **Sessions and bridges.** Every failure path releases what was opened; a dead
  peer is noticed; teardown runs once.
- **BFF.** Two goroutines copy in opposite directions and either may be blocked; the
  Gateway is dialled first. Correct: frames unmodified and in order, neither
  direction waits for the other, no session at the Gateway outlives its request.
- **Page and configuration.** Handlers of replaced sockets run after the new one is
  set; polls are answered out of order; the guest that answers is the one behind a
  port. Correct: keys reach the selected target and no other, only ready targets are
  offered, the list ends up true.

`PROJECT.json` lists the hazards line by line with the properties that cover them.

## 2. Modules

| Module | What it is |
|---|---|
| `LossyFeed` | abstract specification: what the Gateway promises of a trace |
| `TraceBridge` | the goroutines of `tracebridge.go`; implements `LossyFeed` |
| `TraceBridge_proofs` | its theorems, the refinement included |
| `Fleet` | `cmd/gw/main.go`, the QEMU runtime's lifecycle and `Stop` |
| `Fleet_proofs` | its theorems |
| `TraceWorker` | `trace-worker.js`: subscription, reconnect and durable capture |
| `TraceWorker_proofs` | its theorems |
| `GatewayEnd` | abstract specification: what the Gateway promises whoever asks for a terminal or a trace |
| `Session` | one Gateway request: handler, SSH side, health gate, terminal bridge, keepalive; implements `GatewayEnd` |
| `Session_proofs` | its theorems, the refinement included |
| `Duplex` | abstract specification: what the relay promises of two directions |
| `Relay` | one BFF request: handler, two pumps, the end of the process, and the two peers; implements `Duplex` |
| `Relay_proofs` | its theorems, the refinement included |
| `Page` | configuration, ports, list of targets, picker and terminal sockets |
| `Page_proofs` | its theorems |
| `MCTraceBridge`, `MCFleet`, `MCTraceWorker`, `MCSession`, `MCRelay`, `MCPage` | constants for TLC |

Each module models its own part in detail and the neighbouring parts by what they
may do to it: `Relay` and `Page` know of the Gateway that a session opens, is refused
or ends, which is the `stage` of `GatewayEnd`, and `Session` implements that; `Session`
knows of a target that it is ready, which `Fleet` models. The subscription that a selection
starts is in `TraceWorker`, not in `Page`.

Operators marked `(mutant)` are altered copies of the definition that follows them.
They are not part of the specification; replacing the definition by one of them
must break a property, which shows that the property depends on the code.

### TraceBridge

`pc` says where each goroutine is; the other variables are the Go variables
(`queue`, `dropped`, `lastReported`), what the writer holds (`out`), what was sent
(`lines`, `meta`) and the state of the two ends (`open` is ours, `up` the peer's).
A channel operation, an atomic access or a socket call is one action:

| Code | Actions |
|---|---|
| `ReadBytes`, size cap (66-79) | `ReadLine`, `ReadError` |
| `enqueueDropOldest` (104-117) | `Send`, `SendFull`, `Evict`, `Count` |
| deferred `close(queue)` (63) | `CloseQueue` |
| writer loop (84-98) | `Receive`, `Load`, `WriteMeta`, `WriteLine`, `WriteFails` |
| read pump (51-58) | `NoticeClose` |
| `shutdown` (37-43) | `CloseStream`, `CloseWs`, `AwaitShutdown` |

Lines are numbered in the order of the tail, so contents are not needed. After the
stream has been closed the producer may still read lines that were buffered.
Blank lines change nothing and are left out, as is the failure of
`EncodeTraceMeta`, which encodes an integer and a constant.

`LossyFeed` knows only lines offered, pending, delivered, lost and reported. The
mapping counts an eviction as lost when it happens (`dropped` plus `Uncounted`), and
takes a line as pending while it is in the producer's hand, queued or in the
writer's hand.

### Fleet

`main` follows the main goroutine, `poller[t]` each `pollReady`, `guest[t]` the QEMU
process. `main = "launch"` is the whole of `EnsureStarted`, which holds `q.mu`, so
`SetReady` and `SetError` have to wait for it. `trap` records whether signals cancel
the context: from `NotifyContext` until `stop()`. A guest is in a process group of
its own, so the end of the Gateway does not touch it. A probe is an outcome: it
succeeds only if the guest's sshd is up, and may fail at any time.
Targets are launched and stopped in any order; configuration order is one of them.

### TraceWorker

An action is one JavaScript task. `openStream` is three: up to its first await
(`OpenStream`), the browser's answer about the file (`HandleGranted`,
`HandleRefused`) and the continuation (`ResumeOpen`), which also runs `connect`.
`sockets` holds every WebSocket ever created, because sockets that `ws` no longer
refers to go on delivering events; `locked` holds files with an open sync access
handle. `closedByMain` is not a variable: it is set and cleared in one task, so
every `onclose` finds it false. Capture lines carry the target they came from and
a number in the order received; the size cap counts lines.

### Session

One request, because requests share only the target's status. `pc["handler"]` walks
through the calls of `sshDial` or `sshTraceStream`, the upgrade and its loop in the
bridge; the other goroutines are started where the code starts them:

| Code | Actions |
|---|---|
| `Attach`, `TraceStream` (`qemu.go`) | `Lookup` |
| `sshDial` (`ssh.go`) | `Dial`, `DialFails`, `OpenChannel`, `StartShell`, `OpenFails` |
| `sshTraceStream`, `checkTraceHealth` (`trace.go`) | `Dial`, `GateIsActive`, `GateOffsets`, `OpenChannel`, `StartTail`, `OpenFails` |
| upgrade (`server.go`) | `Upgrade`, `UpgradeFails` |
| `bridge.go`; for a trace the skeleton of `tracebridge.go` | `ReadSsh`, `ReadSshFails`, `Receive`, `WriteWs`, `WriteWsFails`, `ReadWs`, `ReadWsFails`, `WriteSsh`, `WriteSshFails` |
| `shutdown` | `CloseSession`, `CloseWs`, `AwaitShutdown` |
| `keepalive`, `sshTrace.Close` | `Tick`, `Stopped`, `Ask`, `KeepaliveClose` |

`conn`, `channel` and `ws` are our ends. `peer` is the guest's end of the connection:
it answers, takes what is sent and never answers (`wedged`), has vanished without a
word (`cut`), or the connection has ended in an error (`reset`). A call that waits for
a reply returns when the peer answers or the connection breaks. `tracer` and `journal`
are bloodhound and what it left in its journal. A gate's command may exit 0 as they say, exit
non-zero or be killed whatever they say, which is an answer too, or end in a failure of the
connection. `seen` is a history variable: the tracer's states while the gate asked, whether
a question went unanswered, and whether a command misreported. The
queue of the trace is a number of lines here: their order and losses are the subject
of `TraceBridge`.

`GatewayEnd` knows only the answer (`stage`) and the SSH side, which is held from the
dial to the close of both the connection and the channel. It says that a request is
refused, or sees its WebSocket close, only when the SSH side is released, and that it is
never taken again: what the page and the trace worker rely on when they ask again.

### Relay

`pc["handler"]` is the goroutine of the request: it dials, upgrades, and is then the
pump from the Gateway to the browser; `pc["up"]` is the other pump. `in[d]` and
`out[d]` are what a direction's two connections hold, `hand[d]` the frame between
`ReadMessage` and `WriteMessage`, `conn` our ends and `far` the other ends.

| Code | Actions |
|---|---|
| `handleWS`, `handleTraceWS` (`server.go:81-130`) | `MissingId`, `Dial`, `Dialed`, `DialFails`, `Upgrade`, `UpgradeFails` |
| `pump` (`relay.go:33-44`) | `Read`, `ReadFails`, `Write`, `WriteFails` |
| `shutdown` (`relay.go:19-25`) | `CloseBrowser`, `CloseGw`, `AwaitShutdown` |
| `cmd/bff/main.go:41-48` | `ProcessEnds` |
| `bridge.go:49-67` and the page | `Takes`, `Sends` |
| the Gateway's handlers, and either peer's end | `GatewayAnswers`, `Leaves`, `Notices` |

A frame is its type and a payload. The two handlers differ in the frames that pass:
a trace's browser says nothing. A close may lose any tail of what is on its way
(`Cut`); a write toward a peer that has gone may succeed or fail. The Gateway may
answer after the dialer's handshake timeout. `window` is the size of the shell's
window: the bridge sets it when a frame is still a control message of type resize.
`Duplex` knows only what each end has sent and received, and which ends have left.

### Page

The initial states are the configurations `Validate` accepts, among all that the
file's fields can be; a field is a string that may be empty, or a port that may be 0. A target is known by its
place in the list. `up` is the guests whose `hostfwd` is in place: of two that want
one host port, one starts. What a session reaches is therefore the guest behind
the port that is dialled (`Reached`), and the target that is looked up is the last
one with the id asked for (`ById`).

| Code | Actions |
|---|---|
| `LoadConfig`, `Validate`, `NewQEMU` | `Init` |
| `pollReady`, launch failures | `BecomesReady`, `BecomesError` |
| `refreshTargets`, `handleTargets` of BFF and Gateway, `Targets` | `Refresh`, `Answer`, `RefreshFails`, `Render` |
| `connect` and the socket's handlers | `Connect`, `SocketOpens`, `SocketCloses` |
| `onData` | `Key` |

`sockets` holds every terminal socket ever created, as in `TraceWorker`, and
`SocketCloses` clears `ws` whichever socket it is. Two history variables serve the
properties: a socket's `before`, the sockets that had not closed when it was made, so that
`Overtaken` says whether one of them has reported its close since, and `key`, for the last
key the entry selected last, the guests it went to and those it was due at. A request for the list is answered
with a snapshot and rendered in whatever order the answers come in.

## 3. Runs

| Run | Result | Shows |
|---|---|---|
| `trace_bridge` | pass, 132 685 states | `Conservation`, `InOrder`, `GapReported`, refinement of `LossyFeed`, `Teardown`, `TailNeverStalls` |
| `trace_bridge_torn` | violation | `WholeLines`: a fragment is forwarded when the tail ends mid-line |
| `fleet` | pass, 16 351 states | `NoOrphans`, `SomebodyDeclares`, `StatusFinal`, `Settles`, `ShutdownCompletes` |
| `fleet_signal` | violation | `SignalStopsFleet`: an untrapped signal leaves guests running |
| `fleet_hung_probe` | violation | `ShutdownCompletes`: a probe that hangs blocks shutdown |
| `trace_worker` | pass, 41 863 states | `CaptureInOrder`, `CaptureKept`, `AliveMeansConnected`, `StreamsNeverFork`, `NeverGivenUp`, `StaysSubscribed` |
| `trace_worker_switch` | violation | `OneSubscription`: changing target can leave two subscriptions |
| `trace_worker_routing` | violation | `CaptureRouting`: lines in another target's capture |
| `session` | pass, 259 641 states | `Released`, `FailsOpen`, `BlindRefused`, `ShutdownFrees`, refinement of `GatewayEnd`, `Teardown`, `LostPeerNoticed` |
| `session_slow_guest` | violation | `BridgeReturns`: the browser's close goes unnoticed while a keystroke cannot be written |
| `relay` | pass, 150 528 states | `Released`, `ShutdownFrees`, refinement of `Duplex`, `WindowFollows`, `Teardown`, `NoOrphan` |
| `page` | pass, 225 586 states | `KeysReachTheirTarget`, `OneSession`, `OffersOnlyReady`, `PickerSettles` |

Bounds:

- `TraceBridge`: a queue of 2 and 5 lines. Two slots distinguish head from tail
  and allow an eviction to race a receive; five lines fill the queue, the hands of
  both goroutines and one more, so gaps of two and repeated evictions occur. The
  proofs lift both bounds.
- `Fleet`: two targets, so one can fail, time out or crash while the other is
  launched, ready or being stopped. The proofs hold for every set of targets.
- `TraceWorker`: two targets, two selections, two lost connections, three lines, a
  capture of two lines. Two selections are what overlapping `openStream` calls and
  late close events need; three lines pass the cap. The violation runs use as many
  selections and no lost connection: the loss of a connection plays no part in them.
- `Session`: a queue of two lines; everything else is finite. The tracer may start,
  resolve, turn out blind and stop any number of times up to the verdict.

- `Relay`: one frame per buffer and two frames sent by each end, so that a frame can be
  on its way, in hand and waiting for room at once, and a second one be lost or
  overtaken by a close; two outputs and two sizes, so that a swap or a stale size shows.
  The proofs lift these bounds.
- `Page`: every configuration of at most two targets in which the second is good or wrong in
  one field, each with tracing, with and without watcher and runtime, and one without
  tracing; two requests, which can overtake each other; two selections, which a late close
  event needs. The safety properties were also run with three selections (1 700 758
  states). The proofs hold for every set of configurations, requests and number of
  selections.

`TraceWorker` is checked without deadlock detection, since a worker with nothing to
do is idle; the others are checked with it, with an explicit final state.

### Fairness

- `TraceBridge!FairSpec`: each goroutine that can run runs. There is none on reading
  a line, on a peer leaving, or on a write being accepted, so a stalled browser may
  stay stalled. Fairness of `ReadError` says that a closed stream delivers only what
  was buffered. Fairness of the two closes assumes that `Close` returns.
- `Fleet!HungProbeSpec`: main, pollers and timers run; probes need not return.
  `FairSpec` adds that each probe returns. Launch, the HTTP drain (bounded by ten
  seconds), and `Wait` after SIGKILL return. Nothing obliges a guest to boot, to
  exit or to obey SIGTERM. A poller that sees both `done` and a tick may take the
  tick: that it ends follows from the deadline.
- `TraceWorker!FairSpec`: timers fire and the browser answers file requests. No
  fairness on lines, losses or selections.
- `Session!SlowGuestSpec`: goroutines run, the ticker ticks, and TCP resets a
  connection on which something stays unacknowledged (`KernelGivesUp`). `FairSpec`
  adds, for a terminal only, that a write is taken in the end on either side;
  a stalled browser would otherwise keep a terminal whose guest has died.
- `Relay!FairSpec`: goroutines run, the Gateway answers a handshake in the end, its
  bridge goes on reading, and a peer that has read everything notices a closed
  connection. The browser need not read: `Teardown` alone supposes that it does,
  because a close reaches it behind what it has not read.
- `Page!FairSpec`: the page goes on polling, and an answer or a rendering that is possible
  again and again happens (strong fairness, as a request may fail at any time but not
  every time). No fairness on guests, selections, sockets or keys.

### What the code does otherwise than its documents say

1. **Torn lines** (`tracebridge.go:66`). `ReadBytes` returns data with the error, and
   the fragment is sent as an event frame.
2. **Signals outside the trapped window** (`cmd/gw/main.go:50`, `57`). Before
   `NotifyContext`, or after `stop()` when serving failed, a signal kills the
   Gateway and the guests stay. TLC shows the first; the second is a behaviour of the
   same model.
3. **Hung probes** (`qemu.go:216`). `Shutdown` waits for pollers before it stops any
   guest, and nothing interrupts a probe. The default probe's timeout covers
   the TCP connect only.
4. **Second subscription** (`trace-worker.js:94`). On a change of target the old
   socket's close event comes after `closedByMain` was cleared, and schedules a
   reconnect. TLC's shortest trace overlaps two `openStream` calls; the ordinary
   change of target (open, close event, timer, connect) is another behaviour of it.
5. **Wrong capture** (`trace-worker.js:62`). `connect` reads `currentId` after an await.
6. **Blocked keystroke** (`bridge.go:56`). The goroutine that would notice the
   browser's close is the one that writes to the shell.

Also seen, without a run:

- The gate greps everything the journal keeps of the unit (`trace.go:80`), so a blind
  tracer passes if an earlier run had resolved its offsets. `README.md:137-138` wants
  the pane of a blind tracer refused; `BlindRefused` states how far that holds: it exempts
  exactly this case.
- "Only a definitively blind tracer is reported", says `trace.go:69-70`. The gate reports
  more than that. A tracer that is still starting, or off again by the second
  question, has no line in its journal and is refused as blind. So is one that has resolved,
  if the second command itself fails or is killed, or the journal has been rotated past the line:
  `remoteExitZero` takes every non-zero exit for an answer (`trace.go:56-59`). For the same
  reason a failing `systemctl` counts as an absent tracer, and the stream is opened, even
  of a blind one. `FailsOpen` states what is left: nobody is refused after a command that
  could not be run, and a resolved tracer only after a command that misreported.
- The keepalive waits for its reply without a deadline (`trace.go:170`). It finds a
  peer that vanished (`LostPeerNoticed`), through TCP, and not one whose kernel goes on
  acknowledging.
- On every change of target the old terminal socket's `onclose` runs after `connect` has
  assigned the new socket, and sets `ws` to null (`index.html:268`, `290`). From then on
  keys and resizes are dropped, the next selection does not close the session the page
  has forgotten, and both write to the one terminal. `DESIGN.md:279-280` has keystrokes
  relayed once a target is selected, so this is a disagreement, and an ordinary one, not a
  rare interleaving: only the first selection, or one made when no session was left, keeps its
  keyboard. `KeysReachTheirTarget` and `OneSession` say what does hold: a key never
  reaches the wrong guest, it is dropped for no other reason as long as the session is
  open and its guest runs, and a second live session needs such an event.
- `config.go:93-94` promises "a supported runtime" and "fully specified target entries".
  Any name passes as a runtime, and neither `image` nor `sshPort` is looked at.
  Two targets with one `sshPort` and `port` are both declared ready on the one guest
  that got the port; `KeysReachTheirTarget` supposes ports of their own (`OwnPorts`).
- The readiness deadline is looked at only after a failed
  probe, so a target may become ready shortly after it (`qemu.go:147-151`).

## 4. Proofs

`tlapm` checks the six proof modules to the last leaf. Assumptions are those of the
modules: bounds and sizes are natural, queues and buffers hold at least one element;
`None` is not a target; `Other` is not a size; the files `Page` considers have the fields
that `json.Unmarshal` fills.

**TraceBridge.** `GapReported` is not inductive: when the writer receives a line,
nothing in it says how many lines before it are missing. The inductive invariant
`IInv` adds

- `Spacing`: behind a queued line there is room for the lines queued after it and
  the one in the producer's hand. With `Conservation` it bounds the gap before the
  head of the queue by `dropped + Uncounted`, at the moment of `Receive`;
- `QueueOrder`: the queue is sorted and newer than what left it, which gives
  `InOrder` and makes the writer's line the oldest pending one;
- `Reports`: the gap before the line in hand is at most the counter (before the
  load) or one more than the reported count (after it).

`Room`, inductive by itself, says that the queue is not full while an eviction is being
counted: the writer only takes lines off it, and the producer alone puts them on. `Closers`
says that a shutdown under way has a goroutine at its second close, and that the queue is
open only while the producer may put a line on it.

From them follow `TypeCorrect`, `NothingUnaccounted`, `OrderKept`, `GapsReported`,
`RetrySucceeds`, `NobodyLeftBlocked` and `Refinement`: each step is a step of `LossyFeed` or
leaves it unchanged. `Evict` maps to `Shed`, `WriteMeta` to `Report`, `WriteLine` to `Deliver`.

**Fleet.** `NoOrphans` needs `Owned`: a live guest is referred to by its target's
`st.proc`, by the slice `Shutdown` took over, or by the `Stop` that waits for it.
`Phases` says which of these are empty where main is; `Undeclared` that a status is
still booting while a launch or a poller may declare it. From them `TypeCorrect`,
`FleetStopped` and `StatusesFinal`. `SomebodyDeclares` is the converse of
`Undeclared`, and inductive with it (`AlwaysSomebody`): a target leaves the launch loop with
a poller or an error, and a poller ends with a declaration or because `done` is closed.

**Session.** `Released` says what holds when the handler has returned. Its invariant
adds `Progress` (what may be open before each call), `Opening` (no bridge before the
upgrade) and `Closing`: once `shutdown` has begun the SSH side is closed, once it is
done the WebSocket too, and a handler that came through the bridge returns only then.
It gives `TypeCorrect` and `NothingHeld`. The gate's invariant relates `seen` to
`journal`: a tracer that has resolved is in the journal, and while the gate asks, what
the tracer is now is in `seen`; once a question has gone unanswered the gate is past its
verdict. It gives `GateFailsOpen` and `BlindNotStreamed`.
`LInv` says who does what for the others: which calls each pump of either kind makes
(`Pumps`), that a shutdown under way has a goroutine at its second close (`Closer`), what is
open at each call (`Holding`), and that `done` is closed only together with the connection,
so that nothing else lets the keepalive go (`Watching`). `NobodyLeftBlocked` follows because
after the first close of `shutdown` every wait is for a thing that is closed, or for the
goroutine that is closing the rest; `KeepaliveStays` is a part of `Watching`. For
`PromiseKept` each step is mapped: `Dial` is `Acquire`, `Upgrade` is `Accept`, every path
that answers with a refusal is `Refuse`, the first close of the SSH side by `shutdown` or by
the keepalive is `Release`, `CloseWs` is `End`; everything else is a stutter.

**TraceWorker.** `CaptureInOrder` is inductive once `Order` adds that every number is at
most `received`. `Locks` says that a handle granted and not yet kept is locked, is not the one
kept, and was granted to one call: without it a continuation could keep a handle
that is not locked. `Budget` counts what a selection or a loss can still become a socket:
sockets, timers, calls that have not resumed and sockets that are closing are at most two
per selection and one per loss. `StreamsNeverFork` is inductive: each step leaves the streams
alone, ends one, moves one on, from a call to a socket, from a socket to a reconnect or from
there to a socket, or adds one, which only a selection does. It asks for no stream to go on,
so a worker that closed the stream of a target deselected would satisfy it. During the first
selection there is one stream at most, which gives `ReconnectsOnce`. `NeverGivenUp` is inductive as well: a call that resumes, or a
reconnect, connects to the target selected by then. From all of them `TypeCorrect`,
`CaptureOrdered`, `AliveMeansOpen`, `StreamsCounted`, `SubscriptionKept` and, as an action
property, `NothingLost`.

**Relay.** `Released` needs `Phases`, which connections are open in each phase and who
runs `shutdown`. For the refinement `Order` gives each frame that is got, on its way from
us, in hand or on its way to us its place in what was sent: what is got and on its way
from us is a beginning of it (`Ahead`), what is in hand and on its way to us comes next
(`Behind`), and as long as the pump may read nothing is missing in between (`All`).
Every step is then a step of `Duplex` or changes nothing it sees: `TypeCorrect`,
`ReleasesBoth`, `RelayRefinesDuplex`. A shutdown under way has a goroutine at its second
close (`Closer`), which gives `PumpsFreed`. A goroutine gives up only when something is
closed or gone (`Fallen`), and before the dial nothing is sent (`Silent`): as long as nothing
is closed or gone, the pumps may read, and `Order` makes what was sent the concatenation of
what is got, on its way and in hand (`EveryFrameKept`).

**Page.** A status other than booting stays as it is, hence every list shown or under way is right
about the targets it calls settled (`Offers`), and every socket was selected by its entry's own id
(`Chosen`), which, ids being distinct, `ById` takes back to that entry. `Current` says that
`ws` is the last socket or none. `Served` says that with ports of their own an open socket has
the selected entry's guest as long as that runs, and `Before` that the sockets a socket
remembers are earlier ones, and that those which have not closed are among them: when a socket
closes while another one is the last, it is one of them, and that other one is `Overtaken`. So an open
last socket that is not overtaken is the one `ws` refers to (`OneSession`), and a key reaches what it
is due at (`Keyed`). From them `TypeCorrect`, `KeysArriveHome`, `SecondSessionDisowned`,
`SelectionsAreReady` and `ShownSettledIsTrue`.

Only model-checked: the liveness properties, because the prover does not reason about
fairness. What each says beyond fairness, that the state it must leave offers a way out, is
proved as a safety property for every value of the constants:

| Liveness, checked by TLC | Rests on | Proved as |
|---|---|---|
| `TraceBridge!TailNeverStalls` | `RetryFindsRoom` | `RetrySucceeds` |
| `TraceBridge!Teardown` | `ShutdownFrees` | `NobodyLeftBlocked` |
| `Fleet!Settles` | `SomebodyDeclares` | `AlwaysSomebody` |
| `TraceWorker!StaysSubscribed` | `NeverGivenUp` | `SubscriptionKept` |
| `Session!Teardown` | `ShutdownFrees` | `NobodyLeftBlocked` |
| `Session!LostPeerNoticed` | `KeepaliveWatches` | `KeepaliveStays` |
| `Relay!Teardown` | `ShutdownFrees` | `PumpsFreed` |
| `Relay!WindowFollows` | `NoneMissing` | `EveryFrameKept` |
| `Relay!NoOrphan` | `Released` | `ReleasesBoth` |
| `Page!PickerSettles` | `ShownIsTrue` | `ShownSettledIsTrue` |

`Fleet!ShutdownCompletes` has no such core. Every safety property of a passing run, the three
refinements and the action properties included, is proved. Six more properties are stated
in the modules and proved, and are in no configuration because the theorem covers every
instance: `RetryFindsRoom` and `ShutdownFrees` of `TraceBridge`, `OneReconnect`,
`KeepaliveWatches`, `NoneMissing` and `ShownIsTrue`.

## 5. Not modelled

- Provisioning (sequential scripts), the QEMU command line but for the forwarded port,
  JSON encoding, the formatting of trace lines, static file serving.
- The trace pane of `index.html` and the display feed and counters of the worker: a view
  that nothing else reads back. Lines of the previous target may reach the pane of the
  new one in a batch that was collected before the change (`trace-worker.js:192`).
- The status line, the clipboard and the terminal emulation of the page.
- A capture write that throws for lack of quota. It leaves `pending` in place with
  `writeOffset` moved on, so lines already written are written again by the next flush. Out of
  `closeStream` it would abort `openStream`, and with `closedByMain` left set there
  would be no reconnect either (`trace-worker.js:53-63`, `175-181`). `CaptureInOrder`
  and `StaysSubscribed` hold as long as writes succeed.
- SSH, WebSocket, OPFS, TCP and QEMU are environment, modelled by what the code relies
  on.

What is left to do, in this order: the failing write in `TraceWorker`, with
`StaysSubscribed` restated for it; the pane with its recent buffer, ring, filters and
pause, composed with the worker's display feed; `Relay` put between `Page` and `Session`
as one specification instead of three that meet at their interfaces.
