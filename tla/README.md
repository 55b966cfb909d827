# Verification of shello

shello shares a terminal over the web. A native **agent** (`agent/`, Rust) runs a
shell in a pseudo terminal and keeps a WebSocket to a **session object**
(`apps/web/src/worker/session-do.ts`, a Cloudflare Durable Object addressed by a
pairing code). **Viewers** (`apps/web/src/client`, React) connect to the same
object, watch the terminal and may ask for control; the person at the agent
approves, refuses or revokes it. This directory holds TLA+ models of that system,
their TLC configurations and proofs checked by TLAPS. Paths below are relative to
the repository.

## 1. Inventory

| Component | State it keeps | Operations | Talks to |
|---|---|---|---|
| Session object, `apps/web/src/worker/session-do.ts` | the record (state, controller and lease, pending request, known viewer identities, four deadlines, generation), a copy of it in storage, the one alarm, the sockets of the host and the viewers, cached terminal details | `/init`, `/status`, WebSocket upgrades, frames, close notifications, `alarm`, construction from storage | agent and viewers by WebSocket, worker by `fetch`, the runtime's storage and alarm |
| Worker HTTP API, `worker/index.ts` | none | routing; `createSession` tries up to eight random codes | session object |
| Agent output queue, `agent/src/output.rs` | screen model (it knows whether a control sequence is incomplete), bounded queue, account of bytes, overflow flag | push, restart (a snapshot and an empty queue), take | filled by the PTY reader, drained by the transport |
| Agent transport, `agent/src/transport.rs` | connection, back-off, heartbeat times, last status | connect, run one WebSocket, flush output, shut down | session object; queue, control channel, prompt |
| Agent host terminal, `agent/src/terminal.rs` | input decoder and paste guard; status, dismissed viewer, scrolling; the modes of the physical terminal it has changed | frames of input, statuses, output, resizes, start, stop | transport by a control channel of four, shell by an input channel |
| Agent threads, `agent/src/main.rs` | seven threads, four bounded channels, one lock around the host terminal | start, shut down | each other, the shell |
| Agent HTTP client and URLs, `agent/src/connection.rs`; command line, `cli.rs` | none over time | parse arguments and URLs, create a session, decode the response, print the command that shares again | worker by HTTP |
| Agent platform layer, `platform.rs`, `platform_windows.rs`, `tls/` | the console's modes as they were found | raw mode, pseudo terminal, TLS | operating system |
| vt100 emulator, `agent/vendor/vt100` | screen | third party | output queue |
| Web viewer, `client/app.tsx` | connection attempt, generation of the host, staged output, input batch, reconnect timer | connect, frames, reconnect, type, request control | session object |
| Web terminal, pairing form, analytics, replay | UI state | | viewer |

### What is hard, and what makes each component correct

*Session object.* Events of five origins (HTTP, host, viewers, alarm, runtime)
meet in every order. A socket's close notification comes long after sends to it
have begun to fail, and also for sockets that were replaced. The object may be
dropped from memory between any two events and be rebuilt from storage and the
sockets that survived. A single alarm serves four deadlines, and it may be late. Correct means: the permission protocol is kept
(nobody types without a grant in force); memory, storage, sockets and what
everybody was told agree; every deadline takes effect; an expired pairing code is
dead.

*Agent output.* The connection is slower than the shell or down. Correct means
that a viewer that applies what it receives shows the agent's screen: bytes are
never lost or repeated unless a snapshot follows, and a snapshot never splits an
escape sequence.

*Agent prompt and control path.* Keystrokes come in reads that are cut anywhere, and
a lone Escape is told from a sequence by 25 ms of silence. A decision travels prompt →
channel of four → transport → socket → session object, a status the other way, and
any stage may drop or delay it; connections are lost in between. Correct means that
only the host's answer approves, that nobody is granted control whom the host has not
approved, that the prompt shows each request once and gives it up, and that the host
sees in the end what the server holds.

*Agent process.* Bounded channels and one lock, sends that wait and sends that drop,
a shell that reads only when its output is read. Every step of the start may fail.
Correct means that nobody waits in a circle, that a dead shell ends the process, that
the host gets its screen and console back on every way out, and that what is shown
and printed leads to the session the agent has joined.

*Viewer.* Results of abandoned connection attempts, output of an earlier host
generation and timers that fire late must not touch what replaced them.

`PROJECT.json` lists the hazards line by line; the properties below are aimed at
them.

## 2. Modules

| Module | What it is |
|---|---|
| `RemoteControl` | Abstract specification of the permission protocol: who may type, with no sockets, storage, alarms or restarts. |
| `SessionDO` | The session object, complete: one action per request, frame, close notification, alarm, loss of a peer, restart. Properties, mutants and the mapping to `RemoteControl`. |
| `MCSessionDO` | Symmetry for TLC. |
| `SessionDOProofs` | The inductive invariant of `SessionDO` and the theorems that follow from it. |
| `OutputStream` | The shell's output and the window's sizes on their way to the viewers' terminals: queue, transport thread, relay in the session object, viewers. |
| `MCOutputStream` | Symmetry for TLC. |
| `OutputStreamProofs` | The inductive invariants of `OutputStream` and the theorems that follow from them: what is shown, the queue's limits, the sizes under way. |
| `Paths` | Lemmas about sequences that lead from one state to another; they stand for the inductions the prover cannot do. |
| `SessionDOControl` | Proofs that `SessionDO` implements `RemoteControl`, that storage holds the current record, and that forwarded input was covered by a lease. |
| `SessionDOSockets` | Proofs about the object's sockets, its alarm, what its peers have been told, and that neither a grace period, a lease nor an expired session is prolonged. |
| `InputFraming` | From the bytes the host's terminal sends to frames: decoder, mouse reports, paste guard. Operators only. |
| `InputFramingProofs` | What `InputFraming`'s decoder and guard do with any bytes a terminal sends. |
| `HostTerminal` | The approval prompt and the footer: what a frame, a status and output do to them. Operators only; uses `InputFraming`. |
| `ControlPath` | A request on its way to the prompt and the decision on its way back: `HostTerminal` composed with the input thread, the transport and a reduced session object. |
| `MCControlPath` | The instances of `ControlPath`. |
| `ControlPathProofs` | The inductive invariants of `ControlPath` and the theorems that follow from them. |
| `AgentConnection` | Arguments, URLs and the HTTP response that creates a session. Operators only. |
| `HostScreen` | The modes of the host's physical terminal and console: what is changed, saved, restored. Operators only. |
| `AgentProcess` | The agent from its arguments to its end: `AgentConnection` and `HostScreen` composed with the threads, the channels, the lock and the shell. |
| `MCAgentProcess` | The instances of `AgentProcess`. |
| `AgentProcessProofs` | The inductive invariant of `AgentProcess` and the theorems that follow from it. |

### SessionDO and its code

`obj` is one record: `rec` is `this.record`; `host`, `hostConnected`, `viewers`,
`details` are the fields of the same names (`details` stands for the cached
`hostTerminalSize` and `hostTerminalProfile`, of which only the presence
matters); `stored` and `alarm` are the contents of `ctx.storage`; `sock` and
`ident` are the runtime's side of the WebSockets and their attachments; `told` is
the last `session.status` sent on each socket. `now` is `Date.now()`. `typed`
records whose input the last step forwarded to the host.

*Handlers are chains of operators.* A method of the class is an operator from
object to object that has its name (`clearHost`, `broadcastStatus`,
`advanceRecordAndPersist`, ...), and a handler applies them in the order of the
code's statements. Everything a handler does is part of its action: the deadlines
that `handleMessage` applies before it looks at the frame, the viewers a
broadcast drops because they cannot be reached, the host a failed send clears in
the middle of a broadcast, the record's write and the alarm.

*Why a handler is one step.* Handlers await storage only. The runtime of Durable
Objects delivers no other event while a storage operation is under way (input
gates) and holds back messages until writes are confirmed (output gates), so that
handlers are atomic and a crash falls between events. `sendHost` starts
`clearHost` without awaiting it; `clearHost` runs up to its first storage call, and
the handler that was sending goes on while that call is under way. What remains
of `clearHost` then writes storage, alarm and messages, which nothing later in
those handlers reads; the record it writes is the current one. The model lets it
run at once.

*The runtime* is not in the repository and is modelled from how the code uses it:
an alarm fires at its time or any time later (`AlarmFires`), storage forgets it
before the handler runs, `getWebSockets()` returns the open sockets in an order
nobody knows (`Keepable`), frames are still delivered from a socket that the
object has closed (`Delivers`), and a peer may vanish unnoticed: sends fail from
then on and the close notification comes later (`PeerGone`, `CloseEvent`). A
restart may come between any two events.

*Abstraction.* A viewer's token and the id derived from it are one identity. The
payload of terminal frames is left out: `terminal.size` and `terminal.profile`
matter by being cached or not and by being new or not. A restart keeps the
sockets that are open; which of several hosts, and which of several connections
of one viewer, is any of them.

### The refinement

A request or grant of the object is, in the abstract specification, a claim with
the first instant at which it is over; a claim whose deadline has passed counts
as gone (`claim`), whether or not the object has noticed. So `RemoteControl` says
more than the object's fields do: input that is forwarded after the deadline,
before any alarm, would be refuted.

### OutputStream and its code

The module composes five parts of the code along one path: `pty_output_loop` and
`resize_loop` (`terminal.rs`) push into the queue (`output.rs`); the transport
thread (`transport.rs`) takes from it and writes frames; `session-do.ts` relays
them; each viewer's terminal (`client/app.tsx`) draws them.

*Data.* Everything pushed is one stream of numbered messages. A screen is a number:
the last message it shows, all earlier ones included. Drawing a message that is not
the next one makes the screen `Broken`, for good: this is how loss and repetition
show. A screen also is at `rest` or not, as the last message left it (inside a
control sequence or a character vt100 has no snapshot), and has a size. Chunks have
a length for the account of bytes; how many fit into a frame of 16 KiB is left open
(`Drain` has both choices).

*State.* `out` is `output::State`, every operation on it one step, as under its
lock. `screen` and `asks` are `screen` and `snapshot_requests` of `run_websocket`;
`pc`, `left`, `taken`, `pending` are where the transport thread is: between the
two checks for overflow in `flush_outgoing` the other threads go on. `wire` and
`down` are the WebSocket's two directions; a new connection starts with empty
ones. `known` is `hostTerminalSize`. A viewer's connection has a number that
stands for its `snapshotRequestId`, `pic` is its terminal's screen and `shown` its
terminal's size. `exit` is the last message when the shell ended, `ended` that
the server has handled the end marker; both are there for the properties
(`exit` also is the shutdown signal).

*Steps.* `Connect` is the server's `acceptSocket` for the host and the frames the
transport sends first; the new generation clears the viewers' terminals
(`applySessionStatus`). `StartOutput`/`CannotStart` are `start_output`; `Flush`,
`Drain`, `EndOfFlush`, `EndOfLastFlush`, `Overflow` are `flush_outgoing` cut where
the queue's lock is released, with the answers to snapshot requests that follow
it; the `Read...` actions are the `match` on the socket; `EndSession`, `Finish` are
`end_session`. `Fail` stands for everything that breaks a connection: errors, close
frames, the heartbeat's timeout. `Over` is a session that was ended or given to
another host (status 410, close codes 4000 and 4001). `Evict` takes the cached size
away at any time; `restoreSockets`, which runs when the object comes back, asks a host
that is still connected for it, and the reply overtakes the queue like any other.

*Abstraction.* The frame of a relay reaches the viewers in the step in which the
server handles it, and what `app.tsx` stages until its terminal is ready counts as
drawn. Statuses are sent by the model where the code's handlers send them; the
control channel of `flush_outgoing` carries no output and is left out.

### ControlPath and its code

*Input.* A byte carries the keystroke it belongs to (`key`), which the code cannot
see and which only the properties read. `feed`, `flush_key` are `InputDecoder`,
`guarded`, `IsKey` are `InputGuard`, with `MaxFrame` for the 256 bytes at which both
give up. `Read` takes any part of what was typed (when the instance's `cut` allows),
`ReadTimesOut` is the silence of 25 ms, and `HandleFrame` is the body of
`stdin_loop`'s loop: one frame under the terminal's lock and what it leads to.

*Prompt.* Each method of `HostTerminal` in `terminal.rs` is an operator of the same
name from terminal to terminal (`sync_status`, `request`, `decide_request`,
`handle_input`, ...). The screen is reduced to what the prompt reads of it: lines,
the alternate screen, or a program with mouse reports of its own. A request carries
its number in the server, a decision the number and the connection it was made for;
the code has neither and tells requests apart by viewer and lease (`Same`).

*Transport.* `pc` is `websocket_loop`: `Connect`, `ConnectFails`, `ConnectGone` are the
`match` on `connect_websocket`; `SendDecisions`, `ReadStatus`, `Lose` are what
`run_websocket` does with this path; `Drain`, `Report` are the two statements behind
it. A status waits for room in its queue, a decision does not.

*Server.* `SessionDO` reduced to request, controller and the host's connection, which
it may lose before or after the agent does (`HostLost`), or give to another agent.
`Poll` and an overdue `Ask` are the two ways a request lapses without a broadcast
(`silent`, `told`).

### AgentProcess and its code

`pc` says of each thread what it does next. `main` runs through `run`: `ParseArgs`,
`CheckNested`, `Resolve`, `Spawn`, `EnterRaw`, `Start`, `CloneReader`, `CloneWriter`
up to the threads; `Shutdown`, `Stop`, `LeaveRaw`, `WaitForShell`, `Exit` from the end
of the output on. A step that returns an error leads through the destructors in their
order: `ScreenGuard`, `RawTerminal`, `Pty` (`unwind`, `leave_failed`, `HangsUp`).

*Threads.* `enqueue` is `try_send`, `CanSend` the condition of a `send` that waits.
A step under the terminal's lock needs `~holds`; only `resize_loop` keeps the lock
over a wait (`NoticeResize` to `SendResize`), all others take and release it in one
step. `WriteInput` waits for room in the pseudo terminal. Of the transport is kept
when it waits, what it sends to the other threads and when it ends.

*Failed writes.* Each frame is drawn (`Draws`) or its write fails (`DrawFails`), with
nothing or all of it written: `render` has noted the modes as changed by then, but not
the screen as drawn. A failure ends the thread that draws (`pty_output_loop`, and with
it the sharing; `stdin_loop`), is ignored by `status_loop` and `resize_loop`, and
leads `Start` to the destructors. `Start` may also fail before the first frame, when the
write that takes the screen does. `Redraw` are the frames `stdin_loop` draws because the
wheel scrolls or a request is answered; a key that leads back to the live end draws one
in `Stdin`, and is not passed on if that fails. Of `stop`'s own write a failure is not
modelled: nothing could be restored.

*Shell.* External: it writes, reads, closes its terminal, dies. A `sequential` shell
does not read while it waits for room for its output.

*Screen.* `HostScreen` knows modes, saved modes and the alternate screen; a terminal
knows how to save and restore modes or ignores both. `render` follows the code's
order: remember what is about to change, hide the cursor, turn wrapping off, set what
differs. The mouse is captured from the first frame on, since a fresh screen keeps lines
to scroll (`owns_scroll`), released for a program that uses it or the alternate screen,
and captured there too while the footer has something to click (`view.attends`). While
earlier lines are shown (`view.scrolled`) the cursor is hidden. `enter`/`leave` are `RawTerminal` on both systems. `torn` is a ghost: the modes
of failed writes, of which the code cannot know whether they were saved or set, and
which `HostRestored` therefore excepts.

*Arguments, URLs, responses.* A URL is a record of its parts, a word of the command
line what `parse_args` sees in it. A response is a sequence of size lines and bytes of
which any part may arrive, before the connection is closed or fails (`ends`); a size is a
number below `MaxUsize`, and `size + 2` wraps. A failure is a reset, an error of TLS or of
a write, or 15 seconds without a byte: `read_to_end` then returns the error, whatever has
arrived.

## 3. Runs

| Run | Instance | Shows |
|---|---|---|
| `session_hosts` | 2 hosts, 1 viewer, 6 units of time | Types; presence of the host; no unowned socket; storage equals memory; the alarm; the grace period runs and is never prolonged; the end of the sharing and the expiry of the code are told; an expired code stays expired while its host can be reached. |
| `session_viewers` | 1 host, 2 viewers, 2 identities, 3 units | Who is in control and who is asking; forwarded input; one connection per identity; control is told; leases are never prolonged; refinement of `RemoteControl`. |
| `session_deadlines` | 1 host, 1 viewer, 6 units, fair, alarms never late | Every deadline takes effect without anybody sending a message. |
| `output_stream` | 1 viewer that joins once, 2 sizes, 4 messages (2 before the first connection), queue of 2 messages and 3 bytes | No screen misses or repeats output or goes back; the queue's limits and account; the end marker comes last; the cached size is the host's. |
| `output_catches_up` | 1 viewer, 1 size, 4 messages, fair | Every connected viewer comes to show all of the output. |
| `control_path` | 3 instances: bytes, mouse, lost connections; 2 keystrokes each, queues of 1 | Only the answer approves; the prompt is shown live, once rung, hidden only when answered; grants are approved; decisions for a lost connection; the host is told in the end and the prompt free again. |
| `agent_process` | 6 instances: start, screen, wheel, console, threads, failed writes; queues of 1 | The response is read as sent or refused; all links lead to one session; screen and console are restored; who may wait for whom; a dead shell ends the process. |
| `finding_dimensions` | 1 viewer, 2 sizes | violated: see below. |
| `finding_reconnect` | 1 viewer, 1 size, fair | violated: see below. |
| `finding_expired` | 1 host, 1 viewer | violated: see below. |
| `finding_told` | 1 host, 1 viewer | violated: see below. |
| `finding_overdue` | 1 host, 1 viewer, fair, alarms may be late | violated: see below. |

**Bounds.** `MaxTime` stops the clock, `MaxGeneration` caps the number of times a
host connects. Durations keep the order of the code's constants: request 1 <=
lease 1..2, grace 2, idle 3, lifetime 4, renewal threshold 1. Three units are
enough for a request to lapse, for a lease to be granted late in a request and to
lapse, and for a grace period to start and end; the expiry of the code (3) and of
its maximum lifetime (4) need the longer runs. Two hosts let one replace the
other and its late close notification arrive; two viewers with two identities let
requests compete and one identity reconnect; with one of each an actor can still
reconnect, because a socket is reused once its close notification was handled.
One generation more than a replacement needs is `MaxGeneration = 2`. `LeaseAsks`
holds one number outside the limits, so that clamping is exercised; the absent
value is always tried. Sockets of one role and identities are symmetric in the
runs without liveness.

`session_viewers` leaves the cached terminal details out; `session_hosts` has them.

*Output.* Two messages of two bytes are one byte more than `Capacity = 3` lets in,
and a third message one more than `MaxQueue = 2`: the queue overflows by length
and by count, before and during a connection. `Turn = 2` makes batches of one and
of two messages, `Rounds = 1` is the fewest flushes `DrainAssumption` allows. A
chunk may or may not leave the screen at rest. One join is enough for a snapshot
to be asked for, delayed, overtaken by a lost connection, and for its viewer to
leave before it comes; the theorems cover any number. Connections may fail and
restart without limit. The server's object is evicted any number of times, with at most
`MaxUnderWay = 1` frame on the connection: enough for the new request to follow another,
and for the reply to overtake a queued size. The theorem has no such limit. `SlowResizes` lets the window keep each size until the poll
has seen it, which cuts the states to those in which the poll matters.

*Instances.* `ControlPath` and `AgentProcess` have a variable `bound` that never
changes: one run checks several instances, each wide in one direction and narrow in
the others.

- `Typing`: two keystrokes, each a plain or a pasted or an over-long or a cut one, in
  reads cut anywhere. Two is what one to prepare a state and one to misread takes.
  `MaxFrame = 6` is longer than the mark of a paste and shorter than `long`.
- `Clicking`: clicks and the wheel over all three kinds of screen, and a change of it.
- `Losing`: two requests of one viewer or of two, two connections, statuses that are
  repeated. A queue of one drops the second decision and makes the second status wait.
- `resolving`: command lines with every option in both forms, every error, URLs of
  every scheme, and responses of up to two chunks of up to two bytes, complete or cut
  anywhere, with true and false sizes; those of at most one chunk also on a connection that
  fails. `MaxUsize = 31` keeps the order of the code's
  numbers: message 3 < response 14 < `MaxUsize - 1`.
- `restoring`: terminals with input modes on and the cursor hidden, able to save modes
  or not; every call that can fail; a full-screen program, for which the mouse is released
  and captured again with the footer; a status.
- `scrolling`: the wheel, keys and output over a program that takes the mouse and one that
  does not, on a terminal with input modes on and the cursor hidden; draws may fail.
- `leaving`: the same failures and a resize, on a terminal as after a reset, over
  consoles of both systems.
- `flowing`: both kinds of shells, input at any time, a resize and a status, connections
  that come and go, queues of one.
- `failing`: a sequential shell, input at any time, two resizes, and any draw may fail: the
  shell's output may lose its reader while a resize holds the lock.

In `scrolling`, `leaving` and `failing` no attempt to connect ends (`connects`): the
transport has no part in what they ask, and would only multiply their states.

**Deadlock** is checked in the runs of `SessionDO`: the object can always answer a
request. The output stream stops when the shell has ended and all is delivered,
the control path when the session is over, the agent when it has exited.

**Fairness.** `AlarmFairness` (`[]<>~AlarmDue`) says that an alarm that is due
fires some time: the runtime promises at-least-once delivery. It is weak fairness
of `AlarmFires`, written without its effect, since `AlarmFires` is enabled
exactly when `AlarmDue` and leaves no alarm due. `WF_vars(Tick)`: the clock goes
on up to its bound. Nothing is assumed of clients. `PromptSpec` adds that an alarm
that is due comes before any other event; the run `session_deadlines` uses it, and
`finding_overdue` shows what happens without.

For the output: the transport thread and the relay go on (`WF`), the poll has its
period, and a request that keeps waiting on the socket is read some time (`SF`,
since the thread alternates between flushing and reading). `CatchesUp` assumes
that the network stops failing (`<>[][~Fail]_vars`) and that the output comes to
rest between two control sequences; `finding_reconnect` shows that without the
latter there is no connection at all.

For the control path: every thread goes on; a request or a lease is over some day; a
connection that the server has given up ends (45 seconds without a message at the
latest); attempts to connect do not fail for ever (`SF`).

For the agent: every thread goes on once what it waits for is there. The two sends that
wait (`SendReplies`, `SendResize`) compete with sends that do not, hence `SF`; so does
a shell that reads between its writes. Nothing is assumed of connecting, and not that
the shell ends.

Liveness properties of the session name a deadline `d` and are stated up to `MaxTime`, with room
for one grace period where a chain of deadlines is possible.

## 4. Findings

1. **An expired code lets a connection in** (`finding_expired`).
   `finishClosedSession` (`session-do.ts:862`) broadcasts before it lets go of the
   host. If the host's socket is already lost, `sendHost` calls `clearHost`, which
   sets the closed record back to `ready` with a new grace period; `acceptSocket`'s
   test for `closed` then passes and `touchSession` renews the session.
   `docs/architecture.md:32`: "Pairing code expired; new connections receive HTTP
   410". `ExpiryIsFinal` states, and `session_hosts` confirms, that this is the
   only way: while the host can be reached an expired code stays expired.
2. **A restart without the host is not announced** (`finding_told`).
   `reconcileRecordWithSockets` changes the record and broadcasts nothing, and the
   close notification that follows is ignored because `this.host` is null. Viewers
   keep showing the host as online. `tests/session-lifecycle.test.mjs:74-75`
   expects `reconnecting` after an unexpected disconnect.
3. **A late alarm can be lost** (`finding_overdue`). `scheduleNextAlarm` leaves out
   deadlines that have passed; a handler that schedules without applying the
   deadlines first (a close notification, the constructor) while an alarm is
   overdue drops it, and a session nobody talks to is never closed.
   `docs/architecture.md:23-24`: "An idle session expires after two hours".
4. **A viewer keeps a wrong size** (`finding_dimensions`). The reply to
   `terminal.size.request` bypasses the queue, a snapshot does not. A snapshot that
   is answered after the reply and before the queued size is taken resizes its
   viewer to the older size (`app.tsx:494`); the queued size then equals the cached
   one, `handleHostTerminalSize` (`session-do.ts:512`) returns early, and nobody
   tells the viewer until some other status is broadcast.
   `docs/architecture.md:53`: "The host's dimensions are authoritative."
   `CachedSizeIsHosts` holds: the server itself is not wrong.
5. **No connection while output rests in a control sequence** (`finding_reconnect`).
   `start_output` (`transport.rs:90`) then fails, the connection just made is
   dropped, and the next attempt, a new generation for which viewers clear their
   terminals, does the same 250 ms later. `README.md:41`: "Temporary disconnections
   reconnect automatically."

### Where the code does less than one might expect

`control_path` and `agent_process` hold; what their properties except is part of what
they say.

- *Input* (`OnlyAnswersApprove`). Pasted text never approves. Two keystrokes that are
  not the letter do: the application keypad's `ESC O y` when its bytes are more than
  25 ms apart (`flush_key` lets the two go, `InputGuard` takes `O` for the end), and a
  control sequence of more than 256 bytes cut before a `y`. A paste whose first byte is
  cut off rejects.
- *Lost connections* (`LostDecisionsAreLate`). `transport.rs:75`: "Approvals belong to
  the lost connection, never to a later request." A decision typed after the queue was
  emptied, while the footer still shows the lost connection or during the back-off, is
  sent on the next one. `GrantIsApproved` shows that it can only grant the viewer the
  host has approved, once for each approval: the server compares viewers, and a new
  host starts without a request.
- *Silent expiry* (`HidesOnlyAnswered`, `BellRingsOnce`, `DecisionEnds`). A request
  that lapses without a broadcast and is followed by another of the same viewer is to
  the host the same request: no bell for the second, and it stays hidden if the first
  was answered too late. `docs/architecture.md:59` promises a bell for each.
- *The circle* (`Jam`, `OutputFlows`, `LockIsFreed`). A program that asks the terminal
  for replies, or a resize, while input fills the queue of 64 and the program does not
  read: the reader of its output waits for room in the queue of its input
  (`terminal.rs:74`), or for the lock of a resize that waits for it (`terminal.rs:240`).
  As long as it lasts keys and statuses may wait with it. It is the only way for the output
  to stay unread while its reader lives.
- *A failed draw* (`Unread`, `LockIsFreed`). A write to the host's terminal that fails
  ends `pty_output_loop` (`terminal.rs:68`), and with it the sharing; nobody reads the
  shell's output from then on. A shell that does not read while it writes then waits for
  ever, and if input fills its queue, so does a resize, with the lock. `run` is in `stop`
  by then (`main.rs:184`) and waits for that lock: the screen is not given back before the
  shell dies. `LockIsFreed` excepts this state, which the instance `failing` reaches;
  without the exception it is violated. When no resize waits, the screen is restored, but
  `run` still waits for a shell that nobody sees (`Pty::wait`). `Exits` starts from a dead
  shell for both reasons, and covers `stop` waiting for the lock.
- *Modes of a failed frame* may stay changed (`HostRestored` excepts `torn`).
- *Chunk sizes* (`ResponseIsRead`). A size line within 2 of the largest `usize` makes
  the agent panic; of the other size lines that are wrong those are refused that lead to no
  end of line (`Misleads`), and no decoder could refuse more. A response without chunks that
  is cut short by a close is caught only because its JSON is; one that is cut short by an
  error is refused, and so is a whole one when the connection fails before it is closed.

## 5. Proofs

| Module | Theorem | States |
|---|---|---|
| `SessionDOProofs` | `Invariance` | `Spec => []IInv` |
| | `TypeCorrect` | `Spec => []TypeOK` |
| | `HostIsPresent` | `Spec => []HostPresence` |
| | `ControlIsHosted` | `Spec => []ControlNeedsHost` |
| | `GraceIsRunning` | `Spec => []GraceRuns` |
| `SessionDOControl` | `RecordIsStored` | `Spec => []StoredIsCurrent` |
| | `InputIsCovered` | `Spec => []InputNeedsLease` |
| | `Implements` | `Spec => ControlSpec` |
| `SessionDOSockets` | `NoSocketIsOrphaned` | `Spec => []NoOrphanSocket` |
| | `AlarmIsSet` | `Spec => []AlarmCovers` |
| | `ControlIsKnown` | `Spec => []ControlIsTold` |
| | `EndIsKnown` | `Spec => []EndIsTold` |
| | `GraceIsNotExtended` | `Spec => GraceNotExtended` |
| | `LeaseIsNotExtended` | `Spec => LeaseNotExtended` |
| | `ExpiryFinal` | `Spec => ExpiryIsFinal` |
| `OutputStreamProofs` | `StreamConsistent` | `Spec => []Inv` |
| | `StreamTypes` | `Spec => []TypeOK` |
| | `ScreensHaveNoGap` | `Spec => []NoGap` |
| | `ScreensNeverGoBack` | `Spec => NeverBack` |
| | `EndComesLast` | `Spec => []EndIsComplete` |
| | `QueueKeepsItsLimits` | `Spec => []QueueBounded` |
| | `KeptSizeIsHosts` | `Spec => []CachedSizeIsHosts`, if `SlowResizes` |
| `ControlPathProofs` | `PathTypes` | `Spec => []TypeOK` |
| | `OnlyTheAnswerApproves` | `Spec => []OnlyAnswersApprove` |
| | `LostDecisionsOnlyLate` | `Spec => []LostDecisionsAreLate` |
| | `PromptStaysLive` | `Spec => []PromptIsLive` |
| | `OnlyAnsweredIsHidden` | `Spec => []HidesOnlyAnswered` |
| | `OneRingEach` | `Spec => []BellRingsOnce` |
| | `GrantsAreApproved` | `Spec => GrantIsApproved` |
| `AgentProcessProofs` | `TypeCorrect` | `Spec => []TypeOK` |
| | `ScreenRestored` | `Spec => []HostRestored` |
| | `OneSessionForAll` | `Spec => []SameSession` |
| | `ResponseRead` | `Spec => []ResponseIsRead` |

### What they assume

- *Session object*: `SocketAssumption`, `TimingAssumption`, `BoundAssumption`,
  `RecordAssumption`: distinct nulls, positive durations, a minimal lease not above the
  maximal one. Any number of sockets and identities, any clock.
- *Output*: `ViewerAssumption`, finitely many viewers; `SizesAssumption`, positive
  capacities; for the end `DrainAssumption`, the flushes after the shutdown are enough
  for a full queue. `KeptSizeIsHosts` has the hypothesis `SlowResizes`: a window that
  changes twice between two polls is seen once, and `CachedSizeIsHosts` speaks of the
  window.
- *Control path*: `MaxFrameAssumption`, a frame holds more than two bytes (the code's
  holds 256), `TerminalAssumption`, `PathAssumption`, a null that is no viewer, positive
  capacities and finite instances. The keystrokes are those of `InputFraming`; any number
  of them, of requests, of connections.
- *Agent*: `ProcessAssumption`, `BoundsAssumption`: positive capacities, instances made of
  the terminals, consoles and programs of the model, the host's screen not the alternate
  one at the start; `ConnectionAssumption`, `CommandsAssumption`, `RepliesAssumption`:
  URLs that parse are URLs, and a WebSocket's URL on the command line, as the session
  in a response, is one the server has given out (`SameSession` cannot hold of any other); a
  response has chunks that are not empty, any number of them, each with a size line that
  is any number of a `usize` or none, no more of it arrives than was sent, and its
  connection is closed or fails.

TLC evaluates all of them on the runs' constants.

### The session object

**The inductive invariant.** None of the properties is inductive. A restart
takes the record from *storage*, so whatever is to hold of the record afterwards
must hold of the stored copy now; and in the middle of a handler some of it does
not hold, because the operators restore it one after the other. The argument has
three layers:

- `RecordOK(r)`: what holds of every record ever written: control and request
  exclude each other and have deadlines, only an active session has either, a
  session that had a host is active, in its grace period or over.
- `Valid(o)`, `Sound(o)`: what holds of an object between two operators of a handler: its
  types, that a record in memory and one in storage are both `RecordOK`, and that
  sockets have the role they are used in.
- `Settled(o)`: what holds between two events: in addition memory and record agree
  on the host. `IInv` is `Settled(obj)`, the range of the clock and of `typed`.

Each operator has a lemma that says which layer it needs and which it
re-establishes; each handler's lemma chains them; `Invariance` has one step per
action.

**Storage.** `Saved(o)` says that storage holds the record, or that the object was
never written and is unused. It is not kept by every operator: `advanceRecord` and
the operators on claims change the record in memory. The lemmas say of each handler
that it ends with a write whenever it changed something.

**The refinement.** The abstract specification sees claims in force; the object
keeps a claim until it next looks at its deadlines. The proof therefore compares
two objects in one of three ways:

- `Follows(o, p)`: what messages, writes and closes do: fields are unchanged,
  except that the host may be lost and a request withdrawn.
- `Fewer(o, p)`: of the claims in force none is new and none is prolonged; such a
  step is `HostLeaves`, `Withdraw`, `Revoke` or `Other` (`DropStep`).
- `Exact(o, p)`: what applying the deadlines does: as long as there is a host, the
  claims in force are the same and the fields now show exactly them
  (`PersistExact`, `TellExact`). This is the step that makes the deadlines of the
  object and of the abstract specification the same although the object looks at
  them late.

All handlers but five only drop claims (`HostActionsQuiet`, `ViewerActionsQuiet`,
`OtherActionsQuiet`). A host that connects, an approval, a request and typed input
each have a lemma that names the abstract action they are; for a restart, `Saved`
gives that the claims read from storage are the ones that were in memory.

**Sockets, alarm, what is told** (`SessionDOSockets`). The invariant `SocketInv` adds to
`SavedInv` two predicates on the object. `Kept(o)`: every open socket is owned (`Owned`);
host and viewers know generation, controller and request (`HostKnows`, `ViewersKnow`) and
the end (`EndKnown`); a session that is idle or closed runs no grace period, and a closed
one has no viewers (`Resting`). `Covered(o)`: the alarm comes no later than any deadline to
come, or the session is closed, or nothing was ever written (`Unused`). The last case is why
`AlarmCovers` is not inductive by itself: an unused object has an expiry and no alarm, and
its first write must set one. `Resting` is needed because a new session keeps the viewers of
an idle one: they know its generation only because that is still 0.

What makes this hard is that a broadcast can find the host's socket closed in the middle of
any handler, and then clears the host, starts the grace period, writes, sets the alarm and
broadcasts again. So the operators are compared by what they may take away. `Calm(o, p)`: no
socket is opened and none that stays open is let go, nobody is given control and no lease
changes, without a host no grace period begins, and the object stays covered and its peers
informed. `Mild` adds that the state changes only by the loss of the host, `Still` that no socket
changes. Nearly every operator is one of these; they compose, and `MildKept`, `CalmOutcome`
draw the conclusions once. The exceptions write something new and have a lemma each: `acceptHost`,
`acceptViewer`, an approval, a request, the end of the sharing and the restored object. They all
end in a write and a broadcast (`AnnounceKept`), which informs everybody whatever was there before.

`ExpiryIsFinal` needs no more than that its condition, the host's socket is open, excludes the
detour through `clearHost`: then whatever looks at the expired session closes it (`ExpiredCloses`),
and every frame and request finds it closed. Without the condition the run
`finding_expired` shows what happens.

### The output stream

That no screen is broken depends on what
lies between the shell and the screen, so the invariant follows the stream from one
end to the other. `QueueOK`: the queue is the end of the stream, without a gap.
`SenderOK`: the transport has taken all that precedes the queue, and its batch is
the end of what it has taken. `WireOK`: all viewers that have been restored show
the same screen, and the frames on the wire lead from it to the screen that was
sent (`Reach`: a sequence of screens between the frames, each frame leading from
one to the next). Every action lengthens that path at its end (`ReachAppend`,
`ReachSame` for answers), shortens it at its beginning (`ReachTail`), or starts a
new one (`Connect`). Once a batch was dropped before the end marker the path may
end anywhere, hence `Live`. The end marker is no part of the path: when one is on
the wire it comes after the path, and the path then ends at or after what the shell
had written when it ended (`Closing` in `PathOK`). For that `DrainOK` counts: the
flushes left, `Turn` messages each, reach beyond that message, whatever is pushed
in the meantime, and a flush that takes less has emptied the queue. A connection
that fails while draining sends no marker, and an overflow is excepted by the
property. `ScreensNeverGoBack` uses the same path: no frame but
the one that follows a clearing leads to an earlier screen.

*The account and the sizes.* The account is the last value of a
recursive function over the queue; `AccountOK` says that there is a function of sums
that ends in it, and every operation makes the one for the new queue from it. For the
sizes the invariant is `SizesFollow`: whichever of reply, queue and `start_output` has
overtaken the others, the *last* size under way (`EndsIn`) is the window's, or none is
under way and the server's is (`FinalSize`); while the poll has yet to see a change
(`last # os`) nothing is claimed. A server that keeps no size has asked the host for
one, or one is under way (`SizeAsked`): that is why an eviction cannot leave it without.

### The control path

*Sequences without induction.* Most of what lies between keystroke and grant is in
queues, and what holds of them is not a property of their members but of how each
follows the one before. `Path(S, c, q, d)` (module `Paths`) says that `q` leads from
state `c` to state `d` by steps `<<state, member, state>>` of `S`. Its lemmas (append,
head and tail, concatenation, a wider `S`, a state every step preserves) are proved from
the states along the path; where an induction is needed it is a smallest counterexample
(`LeastNumber`, from the well-foundedness of the naturals), since the library's
induction theorems cannot be instantiated. Recursive functions are used by their
defining equation alone.

*Keystrokes* (`Typing`, part of `Types`). Frames, bytes kept back and bytes unread are
a path through the keystrokes: a place is a keystroke and how many of its bytes are
past, and a step goes on in the keystroke or to the first byte of any other; a frame
is a piece of the path that is not empty (`Framed`). `GuardAt` ties the guard to the place
the path begins at: within the mark of a paste it has the bytes so far, at its end it
knows of the paste, wherever the frames are cut. From this `KeyApproves` derives that a
frame that is a `y` alone and that the guard takes for a key is the answer key or one of
the two exceptions. `OnlyAnswersApprove` alone says nothing about what is still unread,
and no step could be proved from it.

*Decisions* (`LateOK`). What is queued while there is no connection is late: the thread
emptied the queue before `report`. Hence a new connection finds only late decisions.

*Requests shown* (`ShownOK`). The statuses queued and on the way down are a path whose
state is the request shown and the highest number ever shown (`Cursor`): each status has
none, the same, or a higher one, and a higher one takes the place of another only if it is
`silent`. So a number rings when it first comes, cannot come back, and a request that
is hidden follows a silent one. The path ends in what the server told last.

*Grants* (`GrantsOK`). For each viewer the decisions on their way up and then the queue are
a counting path whose gain is at most what is left of the host's approvals
(`UnusedFor`). A lost connection cuts the path at its front, `Drain` at its end; a grant
takes a step from the front.

### The agent

`IInv` has four parts. `ThreadsOK` says where the threads can be in the life of the host's
screen: nobody draws before `start`, and `finished` is set exactly on the ways out. `ScreenOK`:
while the screen is the agent's, every mode that is not as it was found is `changed`, and
saved if the terminal saves (`Restorable`), from the first frame, which captures the mouse,
through every change of what is shown; after `stop` the modes are what
`HostRestored` says (`Kept`). That needs the order of `render`: modes are noted before
they are touched, also when the write fails. `ConsoleOK`: what was done to the console is
what `RawTerminal` remembers, on both systems. `HostRestored` itself says nothing of the
time in between and is not inductive.

`ConnectOK` carries the session from the arguments to the URLs: a configuration that was
resolved is `Sound`, and `OneSession` proves of every sound configuration and every reply
that link, connection and printed command agree. `reconnect_command` cuts a path apart
that `viewer_url_from_websocket` has put together; the lemmas about paths do this
for every server with any path.

*The response* (`ResponseRead`). Server and decoder are two recursive functions: `frames` gives
what is sent from a chunk on, `decode_chunked_body` what the turns of its loop from a position
on lead to. Neither has a value until a function is exhibited that satisfies its equation;
that is built from the end backwards with `UpTo` (`FramesFacts`, `DecodeFacts`), for the
decoder because a turn only looks ahead (`TurnLooksAhead`). Then `Reads(r, k, n, v)`, "v is what
the chunks from k on are read as when n bytes are decoded", goes backwards from the last
chunk to the first: `LastTurn` is its beginning, `OneTurn` its step, which follows the
early returns of the loop in their order. It has to speak of every `n`, since the limit
of the body counts what came before.

### Only model-checked

Everything about liveness and what needs `ENABLED`: out of the prover's reach
(`DeadlinesTakeEffect`, `SessionExpires`, `CatchesUp`, `HostIsTold`, `DecisionEnds`,
`Exits` and the other properties of the agent's threads). Every invariant and every action
property that a passing run checks is a theorem. The five runs that find a violation
are TLC's as well.

## 6. Plan

In order of importance:

1. `ViewerClient` (`client/app.tsx`): attempts, generations, staged output, input
   batches; the two hazards without a property.
2. `OutputStream`: an abstract specification of the stream that it refines.
3. `SessionAllocation` (`worker/index.ts`): eight random codes against `/init`.

## 7. Not modelled

Bootstrap scripts, downloads and release tooling (text and build steps); the
vt100 emulator (third party; the models use its snapshot and its modes as a whole);
TLS and the system calls behind pseudo terminals (operating system); UI, pairing
form, analytics; the payload of terminal frames in the session object; the text the
agent shows; the clocks of the heartbeat and the back-off, which are any time.
