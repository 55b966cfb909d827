----------------------------- MODULE AgentProcess -----------------------------
(***************************************************************************)
(* The agent as a process (agent/src/main.rs): what run does from the      *)
(* arguments to the end, its threads (terminal.rs, transport.rs), the      *)
(* channels and the lock between them, and the shell behind the pseudo     *)
(* terminal.                                                               *)
(*                                                                         *)
(* Messages are reduced to what makes a thread wait, and a status to       *)
(* whether the footer attends to it: what they say is ControlPath's and    *)
(* OutputStream's.                                                         *)
(***************************************************************************)
EXTENDS AgentConnection, HostScreen, FiniteSets

CONSTANTS
  InputCapacity,   \* PTY_INPUT_QUEUE_CAPACITY: 64
  StatusCapacity,  \* STATUS_QUEUE_CAPACITY: 8
  PtyCapacity,     \* what the pseudo terminal holds of input, and of output
  DefaultServer,   \* http://localhost:5173
  Commands,        \* the command lines of each instance
  Replies,         \* what may arrive of the response that creates a session
  Bounds           \* the instances, by name

ASSUME ProcessAssumption ==
  {InputCapacity, StatusCapacity, PtyCapacity} \subseteq Nat \ {0}

\* The host's screen is not the alternate one when the agent starts.
ASSUME BoundsAssumption ==
  \A b \in DOMAIN Bounds :
    LET has == Bounds[b]
    IN  /\ has.ttys \subseteq Terminal /\ \A t \in has.ttys : ~t.alternate
        /\ has.consoles \subseteq Console
        /\ has.systems \subseteq [windows : BOOLEAN, pages : BOOLEAN, active : BOOLEAN]
        /\ has.programs \subseteq Program
        /\ has.kinds \subseteq {"independent", "sequential"}
        /\ has.fails \subseteq {"nested", "tty", "spawn", "raw", "clone", "draw"}
        /\ has.types \in BOOLEAN /\ has.scrolls \in BOOLEAN /\ has.connects \in BOOLEAN
        /\ has.resizes \in Nat /\ has.statuses \in Nat

\* A server's URL that parses is one of Url.  The URL of a WebSocket is one that the
\* server has given out for a session, and so is the session that a response names.
ASSUME CommandsAssumption ==
  \A b \in DOMAIN Bounds : \A words \in Commands[b] :
    LET command == parse_args(words, DefaultServer)
        url     == command.config.server
    IN  /\ command.kind \in {"version", "error", "run"}
        /\ command.kind = "run" /\ parse_url(url) # None =>
             /\ url \in Url
             /\ url.scheme \in {"ws", "wss"} =>
                  \E session \in SessionId : url.path = HostPath(session).path

\* A server splits its message into chunks that are not empty; what it says of one's
\* length is a number that fits, or none.  No more arrives than is sent.
Response ==
  [ addresses : Seq(BOOLEAN), head : {"ok", "refused", "torn"}, chunked : BOOLEAN,
    chunks : Seq([length : Nat \ {0}, says : {Bad} \cup (0 .. MaxUsize)]),
    arrived : Nat, ends : {"closed", "failed"}, session : SessionId ]

ASSUME RepliesAssumption ==
  \A r \in Replies : r \in Response /\ r.arrived <= Len(framed(r))

VARIABLES
  bound,     \* the name of the instance
  pc,        \* of each thread, what it does next
  config,    \* Config
  reply,     \* the response that created the session, or None
  connect,   \* ConnectInfo, or None
  before,    \* the host's terminal and console as the agent finds them
  console,   \* the mode of the host's console
  undo,      \* RawTerminal
  tty,       \* the host's terminal
  comp,      \* HostTerminal, the part that draws
  program,   \* the modes of the shell's virtual screen
  view,      \* what is shown of the shell's virtual screen
  torn,      \* modes of the host's terminal that a failed write has spoilt
  holds,     \* resize_loop holds the terminal's lock
  shell,     \* the shell and its pseudo terminal
  input,     \* the queue of input for the shell
  statuses,  \* the queue of statuses
  resizes,   \* resizes so far
  told       \* statuses so far

fixed == <<bound, before>>
start_up == <<config, reply, connect>>
counts == <<resizes, told>>
drawing == <<tty, comp, torn>>
screen == <<drawing, program, view>>
channels == <<input, statuses>>
vars == <<fixed, pc, start_up, console, undo, screen, holds, shell, channels, counts>>

\* What there may be: terminals, consoles and what RawTerminal::enter finds, screens of
\* programs, kinds of shells, calls that fail, whether there is input for the shell,
\* whether the wheel is turned, whether an attempt to connect ends, and the most resizes
\* and statuses.
may == Bounds[bound]

\* A shell that reads while it writes is "independent".  at: it may do anything
\* ("ready"), it waits for room for its output, it has closed the terminal but lives
\* on, or it is dead.  in, out: what the pseudo terminal holds.
Shell ==
  [ kind : {"independent", "sequential"},
    at : {"none", "ready", "writes", "closed", "dead"},
    in : 0 .. PtyCapacity, out : 0 .. PtyCapacity ]

Open == shell.at \in {"ready", "writes"}

\* What the shell's input queue carries.
PtyInput == {"bytes", "resize"}

Threads == {"main", "output", "stdin", "status", "resize", "input", "transport"}

\* Threads end with the process.
Alive == pc.main \notin {"exited", "failed"}

Goes(thread, from, to) ==
  /\ Alive
  /\ pc[thread] = from
  /\ pc' = [pc EXCEPT ![thread] = to]

\* A frame is drawn, c and t being the compositor and the terminal before.
Draws(c, t, p, v) ==
  LET drawn == render(c, t, p, v)
  IN  /\ comp' = drawn.compositor /\ tty' = drawn.tty
      /\ UNCHANGED torn

\* Writing a frame fails, with nothing written or all.
DrawFails(c, t, p, v) ==
  /\ "draw" \in may.fails
  /\ comp' = render_fails(c, p, v)
  /\ tty' \in {t, render(c, t, p, v).tty}
  /\ torn' = torn \cup spoilt(c, t, p, v)

----------------------------------------------------------------------------
(* run, up to the threads.                                                 *)

ParseArgs ==
  /\ pc.main = "args"
  /\ \E words \in Commands[bound] :
       LET command == parse_args(words, DefaultServer)
       IN  /\ config' = command.config
           /\ pc' = [pc EXCEPT !.main = CASE command.kind = "version" -> "exited"
                                          [] command.kind = "error"   -> "failed"
                                          [] command.kind = "run"     -> "nested"]
  /\ UNCHANGED <<fixed, reply, connect, console, undo, screen, holds, shell, channels,
                 counts>>

\* SHELLO_AGENT_ACTIVE is set in the shell that an agent has started.
CheckNested ==
  /\ \/ Goes("main", "nested", "exited") /\ "nested" \in may.fails
     \/ Goes("main", "nested", "resolve")
  /\ UNCHANGED <<fixed, start_up, console, undo, screen, holds, shell, channels, counts>>

Resolve ==
  /\ pc.main = "resolve"
  /\ \E r \in IF Creates(config) THEN Replies ELSE {None} :
       /\ reply' = r
       /\ connect' = resolve_connection(config, r)
  /\ pc' = [pc EXCEPT !.main = IF connect' = None THEN "failed" ELSE "spawn"]
  /\ UNCHANGED <<fixed, config, console, undo, screen, holds, shell, channels, counts>>

\* terminal_size, which needs a terminal, and Pty::spawn
Spawn ==
  /\ \/ /\ may.fails \cap {"tty", "spawn"} # {}
        /\ Goes("main", "spawn", "failed")
        /\ UNCHANGED shell
     \/ /\ "tty" \notin may.fails
        /\ Goes("main", "spawn", "raw")
        /\ shell' = [shell EXCEPT !.at = "ready"]
  /\ UNCHANGED <<fixed, start_up, console, undo, screen, holds, channels, counts>>

\* An error hangs the shell up: its pseudo terminal is closed.
HangsUp == shell' = [shell EXCEPT !.at = "dead"]

\* RawTerminal::enter
EnterRaw ==
  /\ \/ Goes("main", "raw", "failed") /\ "raw" \in may.fails
        /\ HangsUp /\ UNCHANGED <<console, undo>>
     \/ Goes("main", "raw", "start") /\ UNCHANGED shell
        /\ \E os \in may.systems :
             LET raw == enter(console, os.windows, os.pages, os.active)
             IN  console' = raw.console /\ undo' = raw.undo
  /\ UNCHANGED <<fixed, start_up, screen, holds, channels, counts>>

\* The host's terminal is taken; the thread of the transport starts.  The first write,
\* of what takes it, may fail as the first frame may.
Start ==
  /\ pc.main = "start"
  /\ \/ /\ Draws(started(comp), entered(tty), Idle, view)
        /\ pc' = [pc EXCEPT !.main = "clone", !.transport = "connect"]
     \/ /\ DrawFails(started(comp), entered(tty), Idle, view)
        /\ pc' = [pc EXCEPT !.main = "unwind"]
     \/ /\ "draw" \in may.fails
        /\ comp' = started(comp) /\ tty' \in {tty, entered(tty)}
        /\ UNCHANGED torn
        /\ pc' = [pc EXCEPT !.main = "unwind"]
  /\ UNCHANGED <<fixed, start_up, console, undo, program, view, holds, shell, channels,
                 counts>>

\* The handle for the output; four threads start.
CloneReader ==
  /\ pc.main = "clone"
  /\ \/ pc' = [pc EXCEPT !.main = "unwind"] /\ "clone" \in may.fails
     \/ pc' = [pc EXCEPT !.main = "writer", !.output = "read", !.stdin = "read",
                         !.status = "recv", !.resize = "sleep"]
  /\ UNCHANGED <<fixed, start_up, console, undo, screen, holds, shell, channels, counts>>

\* The handle for the input; the last thread starts.
CloneWriter ==
  /\ pc.main = "writer"
  /\ \/ pc' = [pc EXCEPT !.main = "unwind"] /\ "clone" \in may.fails
     \/ pc' = [pc EXCEPT !.main = "recv", !.input = "recv"]
  /\ UNCHANGED <<fixed, start_up, console, undo, screen, holds, shell, channels, counts>>

----------------------------------------------------------------------------
(* run, from the end of the output.                                        *)

\* done_rx.recv, and the signal to the transport
Shutdown ==
  /\ pc.output = "done"
  /\ Goes("main", "recv", "stop")
  /\ UNCHANGED <<fixed, start_up, console, undo, screen, holds, shell, channels, counts>>

\* HostTerminal::stop, or ScreenGuard::drop when a call has failed
Stop ==
  /\ ~holds
  /\ Goes("main", "stop", "leave") \/ Goes("main", "unwind", "leave_failed")
  /\ LET stopped == stop(comp, tty)
     IN  comp' = stopped.compositor /\ tty' = stopped.tty
  /\ UNCHANGED <<fixed, start_up, console, undo, torn, program, view, holds, shell,
                 channels, counts>>

\* RawTerminal::drop
LeaveRaw ==
  /\ \/ Goes("main", "leave", "wait") /\ UNCHANGED shell
     \/ Goes("main", "leave_failed", "failed") /\ HangsUp
  /\ console' = leave(console, undo)
  /\ UNCHANGED <<fixed, start_up, undo, screen, holds, channels, counts>>

\* Pty::wait
WaitForShell ==
  /\ shell.at = "dead"
  /\ Goes("main", "wait", "join")
  /\ UNCHANGED <<fixed, start_up, console, undo, screen, holds, shell, channels, counts>>

\* Mutant: the transport is waited for however long it takes.
Exit_joins ==
  /\ pc.transport = "done"
  /\ Goes("main", "join", "exited")
  /\ UNCHANGED <<fixed, start_up, console, undo, screen, holds, shell, channels, counts>>

\* The transport is done, or three seconds are over.
Exit ==
  /\ Goes("main", "join", "exited")
  /\ UNCHANGED <<fixed, start_up, console, undo, screen, holds, shell, channels, counts>>

----------------------------------------------------------------------------
(* The loops.                                                              *)

\* Mutant: input waits in memory.
enqueue_unbounded(value) ==
  input' = IF pc.input # "gone" THEN Append(input, value) ELSE input

\* try_send of input: a full queue, or one that is read no more, drops it.
enqueue(value) ==
  input' = IF Len(input) < InputCapacity /\ pc.input # "gone"
           THEN Append(input, value) ELSE input

\* send: waits for room; an error when the queue is read no more.
CanSend == Len(input) < InputCapacity \/ pc.input = "gone"

\* pty_output_loop reads all there is, or the end.
ReadOutput ==
  /\ \/ shell.out > 0 /\ Goes("output", "read", "draw") /\ shell' = [shell EXCEPT !.out = 0]
     \/ shell.out = 0 /\ ~Open /\ Goes("output", "read", "done") /\ UNCHANGED shell
  /\ UNCHANGED <<fixed, start_up, console, undo, screen, holds, channels, counts>>

\* handle_pty_output and the push, under the lock; the output may ask for replies.  It
\* leads back to the live end when the wheel is the program's now, or was meanwhile.
\* Writing to the host's terminal may fail, which ends the loop.
DrawOutput ==
  /\ ~holds
  /\ \/ comp.finished /\ Goes("output", "draw", "read") /\ UNCHANGED screen
     \/ /\ ~comp.finished
        /\ \E p \in may.programs, scrolled \in {FALSE, view.scrolled} :
             /\ scrolled => owns_scroll(p)
             /\ program' = p /\ view' = [view EXCEPT !.scrolled = scrolled]
        /\ \/ /\ Goes("output", "draw", "reply") /\ may.types
              /\ Draws(comp, tty, program', view')
           \/ Goes("output", "draw", "read") /\ Draws(comp, tty, program', view')
           \/ Goes("output", "draw", "done") /\ DrawFails(comp, tty, program', view')
  /\ UNCHANGED <<fixed, start_up, console, undo, holds, shell, channels, counts>>

\* The replies go to the shell, without the lock.
SendReplies ==
  /\ CanSend
  /\ Goes("output", "reply", "read")
  /\ enqueue("bytes")
  /\ UNCHANGED <<fixed, start_up, console, undo, screen, holds, shell, statuses, counts>>

\* stdin_loop: bytes for the shell, under the lock, while the screen is the agent's.
\* Among earlier lines a key leads back to the live end first, what is pasted does not;
\* a failed write ends the loop.
Stdin ==
  /\ ~holds /\ ~comp.finished /\ may.types
  /\ \/ /\ Goes("stdin", "read", "read") /\ enqueue("bytes")
        /\ UNCHANGED <<drawing, view>>
     \/ /\ view.scrolled
        /\ view' = [view EXCEPT !.scrolled = FALSE]
        /\ \/ /\ Goes("stdin", "read", "read") /\ enqueue("bytes")
              /\ Draws(comp, tty, program, view')
           \/ /\ Goes("stdin", "read", "done") /\ UNCHANGED input
              /\ DrawFails(comp, tty, program, view')
  /\ UNCHANGED <<fixed, start_up, console, undo, program, holds, shell, statuses, counts>>

\* stdin_loop: the wheel scrolls, or a request is answered, after which the footer may
\* still show who has control.
Redraw ==
  /\ ~holds /\ ~comp.finished
  /\ \/ /\ owns_scroll(program) /\ may.scrolls
        /\ \E scrolled \in BOOLEAN : view' = [view EXCEPT !.scrolled = scrolled]
     \/ /\ view.attends
        /\ \E attends \in BOOLEAN : view' = [view EXCEPT !.attends = attends]
  /\ \/ Goes("stdin", "read", "read") /\ Draws(comp, tty, program, view')
     \/ Goes("stdin", "read", "done") /\ DrawFails(comp, tty, program, view')
  /\ UNCHANGED <<fixed, start_up, console, undo, program, holds, shell, channels, counts>>

\* status_loop, which does not mind a failed write; a request leads to the live end.
ShowStatus ==
  /\ Alive /\ pc.status = "recv" /\ ~holds
  /\ statuses # <<>>
  /\ statuses' = Tail(statuses)
  /\ \E scrolled \in {view.scrolled, view.scrolled /\ ~Head(statuses)} :
       view' = [attends |-> Head(statuses), scrolled |-> scrolled]
  /\ Draws(comp, tty, program, view') \/ DrawFails(comp, tty, program, view')
  /\ UNCHANGED <<fixed, pc, start_up, console, undo, program, holds, shell, input, counts>>

\* resize_loop finds a new size, and takes the lock.  It sleeps 250 ms first, by when
\* run has started the last thread.
NoticeResize ==
  /\ resizes < may.resizes /\ ~holds
  /\ pc.main \notin {"writer", "unwind", "leave_failed"}
  /\ resizes' = resizes + 1
  /\ IF comp.finished
     THEN Goes("resize", "sleep", "gone") /\ UNCHANGED <<drawing, holds>>
     ELSE /\ Goes("resize", "sleep", "send")
          /\ holds' = TRUE
          /\ Draws(comp, tty, program, view) \/ DrawFails(comp, tty, program, view)
  /\ UNCHANGED <<fixed, start_up, console, undo, program, view, shell, channels, told>>

\* The size goes to the shell, with the lock.
SendResize ==
  /\ CanSend
  /\ Goes("resize", "send", "sleep")
  /\ enqueue("resize")
  /\ holds' = FALSE
  /\ UNCHANGED <<fixed, start_up, console, undo, screen, shell, statuses, counts>>

\* Mutant: a resize is applied under the terminal's lock.
TakeInput_locks ==
  /\ input # <<>>
  /\ input' = Tail(input)
  /\ \/ Head(input) = "resize" /\ ~holds /\ Goes("input", "recv", "recv")
     \/ Head(input) = "bytes" /\ Goes("input", "recv", "write")
  /\ UNCHANGED <<fixed, start_up, console, undo, screen, holds, shell, statuses, counts>>

\* pty_input_loop: a resize is applied at once, bytes are written.
TakeInput ==
  /\ input # <<>>
  /\ input' = Tail(input)
  /\ \/ Head(input) = "resize" /\ Goes("input", "recv", "recv")
     \/ Head(input) = "bytes" /\ Goes("input", "recv", "write")
  /\ UNCHANGED <<fixed, start_up, console, undo, screen, holds, shell, statuses, counts>>

\* write_all waits for room in the pseudo terminal.  When nobody has it open any more
\* it fails, the loop ends, and the queue with it.
WriteInput ==
  /\ \/ /\ Open /\ shell.in < PtyCapacity
        /\ Goes("input", "write", "recv")
        /\ shell' = [shell EXCEPT !.in = @ + 1]
        /\ UNCHANGED input
     \/ /\ ~Open
        /\ Goes("input", "write", "gone")
        /\ input' = <<>>
        /\ UNCHANGED shell
  /\ UNCHANGED <<fixed, start_up, console, undo, screen, holds, statuses, counts>>

----------------------------------------------------------------------------
(* websocket_loop, reduced to when it waits.                               *)

ShutDown == pc.main \in {"stop", "leave", "wait", "join"}

\* An attempt to connect succeeds, fails, or finds the session gone.
Connects ==
  /\ may.connects
  /\ \E next \in {"run", "lost", "over"} : Goes("transport", "connect", next)
  /\ UNCHANGED <<fixed, start_up, console, undo, screen, holds, shell, channels, counts>>

\* A viewer's input.
RemoteInput ==
  /\ Alive /\ pc.transport = "run" /\ may.types
  /\ enqueue("bytes")
  /\ UNCHANGED <<fixed, pc, start_up, console, undo, screen, holds, shell, statuses,
                 counts>>

\* The connection brings a status, is lost, or ends the session.
Receives ==
  /\ told < may.statuses
  /\ \E next \in {"tell", "lost", "over"} : Goes("transport", "run", next)
  /\ UNCHANGED <<fixed, start_up, console, undo, screen, holds, shell, channels, counts>>

\* A status waits for room in its queue.
TellStatus ==
  /\ Len(statuses) < StatusCapacity
  /\ \/ /\ Goes("transport", "tell", "run")
        /\ \E c \in BOOLEAN : statuses' = Append(statuses, c)
     \/ /\ Goes("transport", "lost", "connect") \/ Goes("transport", "over", "done")
        /\ statuses' = Append(statuses, FALSE)
  /\ told' = IF told < may.statuses THEN told + 1 ELSE told
  /\ UNCHANGED <<fixed, start_up, console, undo, screen, holds, shell, input, resizes>>

\* The signal of the shutdown is seen between two attempts and while connected.
SeesShutdown ==
  /\ ShutDown
  /\ Goes("transport", "connect", "done") \/ Goes("transport", "run", "done")
  /\ UNCHANGED <<fixed, start_up, console, undo, screen, holds, shell, channels, counts>>

----------------------------------------------------------------------------
(* The shell.                                                              *)

ShellWrites ==
  /\ Alive
  /\ \/ shell.at = "ready" /\ shell' = [shell EXCEPT !.at = "writes"]
     \/ /\ shell.at = "writes" /\ shell.out < PtyCapacity
        /\ shell' = [shell EXCEPT !.at = "ready", !.out = @ + 1]
  /\ UNCHANGED <<fixed, pc, start_up, console, undo, screen, holds, channels, counts>>

ShellReads ==
  /\ Alive
  /\ shell.in > 0
  /\ shell.at = "ready" \/ (shell.at = "writes" /\ shell.kind = "independent")
  /\ shell' = [shell EXCEPT !.in = @ - 1]
  /\ UNCHANGED <<fixed, pc, start_up, console, undo, screen, holds, channels, counts>>

\* It closes the terminal, or ends, or is killed.
ShellEnds ==
  /\ Alive
  /\ \/ shell.at = "ready" /\ shell' = [shell EXCEPT !.at = "closed"]
     \/ shell.at \in {"ready", "writes", "closed"} /\ shell' = [shell EXCEPT !.at = "dead"]
  /\ UNCHANGED <<fixed, pc, start_up, console, undo, screen, holds, channels, counts>>

----------------------------------------------------------------------------

Init ==
  /\ bound \in DOMAIN Bounds
  /\ pc = [t \in Threads |-> IF t = "main" THEN "args" ELSE "none"]
  /\ config = [server |-> DefaultServer, session |-> None]
  /\ reply = None /\ connect = None
  /\ before \in [tty : may.ttys, console : may.consoles]
  /\ console = before.console /\ undo = None
  /\ tty = before.tty /\ comp = new /\ program = Idle
  /\ view = [attends |-> FALSE, scrolled |-> FALSE]
  /\ torn = {} /\ holds = FALSE
  /\ shell \in {[kind |-> k, at |-> "none", in |-> 0, out |-> 0] : k \in may.kinds}
  /\ input = <<>> /\ statuses = <<>>
  /\ resizes = 0 /\ told = 0

Begin ==
  \/ ParseArgs \/ CheckNested \/ Resolve \/ Spawn \/ EnterRaw \/ Start
  \/ CloneReader \/ CloneWriter

End == Shutdown \/ Stop \/ LeaveRaw \/ WaitForShell \/ Exit

Output == ReadOutput \/ DrawOutput \/ SendReplies
Resize == NoticeResize \/ SendResize
Input == TakeInput \/ WriteInput
Transport == Connects \/ RemoteInput \/ Receives \/ TellStatus \/ SeesShutdown
ShellSteps == ShellWrites \/ ShellReads \/ ShellEnds

Next ==
  \/ Begin \/ End \/ Output \/ Stdin \/ Redraw \/ ShowStatus \/ Resize \/ Input \/ Transport
  \/ ShellSteps

Spec == Init /\ [][Next]_vars

\* Every thread goes on once what it waits for is there, and a send that waits for room
\* gets it some day although others send without waiting; the transport may take its
\* time to connect.  The shell completes what it writes, and reads what it can read
\* again and again; it may live for ever.
FairSpec ==
  /\ Spec
  /\ WF_vars(EnterRaw \/ Start \/ CloneReader \/ CloneWriter) /\ WF_vars(End)
  /\ WF_vars(ReadOutput \/ DrawOutput) /\ WF_vars(Input)
  /\ SF_vars(SendReplies) /\ SF_vars(SendResize)
  /\ WF_vars(ShellWrites /\ shell.at = "writes")
  /\ SF_vars(ShellReads)

----------------------------------------------------------------------------
(* Properties.                                                             *)

TypeOK ==
  /\ bound \in DOMAIN Bounds
  /\ DOMAIN pc = Threads
  /\ connect = None \/ connect.host.scheme \in {"ws", "wss"}
  /\ console \in Console /\ (undo = None \/ undo \in Undo)
  /\ tty \in Terminal /\ comp \in Compositor /\ torn \subseteq Mode
  /\ program \in Program /\ view \in View /\ holds \in BOOLEAN
  /\ shell \in Shell
  /\ input \in UNION {[1 .. n -> PtyInput] : n \in 0 .. InputCapacity}
  /\ Len(statuses) <= StatusCapacity
  /\ resizes \in 0 .. may.resizes /\ told \in 0 .. may.statuses

\* A wrong size line that looks right: it leads to an end of line (of another chunk), or
\* it says that the message ends here.
Misleads(says, rest) ==
  \/ says = 0
  \/ says + 3 <= Len(rest) /\ SubSeq(rest, says + 2, says + 3) = <<CR, LF>>

\* What is read of the response that creates a session is what was sent: the whole
\* message when its last chunk has arrived, the connection was then closed, and it is
\* within the limits; else an error, also when all of it has arrived and the connection
\* fails instead.  Without chunks the close of the connection is taken for the end of the
\* message.  Only a size line within 2 of the largest usize makes the agent panic.  Of a
\* size line that misleads nothing is said: nothing in the message tells it from a right
\* one.
ResponseIsRead ==
  reply # None =>
    LET sent   == body_of(reply)
        lies   == {k \in DOMAIN reply.chunks : reply.chunks[k].says # reply.chunks[k].length}
        whole  == reply.arrived >= Len(framed(reply)) - 2
        usable == /\ connect_tcp(reply.addresses) /\ reply.ends = "closed" /\ reply.head = "ok"
                  /\ reply.arrived <= MaxResponse
        read   == http_request(reply)
    IN  IF reply.chunked
        THEN (\A k \in lies : ~Misleads(reply.chunks[k].says, frames(reply)[k])) =>
               /\ read.kind = "panic" =>
                    usable /\ \E k \in DOMAIN reply.chunks : reply.chunks[k].says >= MaxUsize - 1
               /\ read.kind = "data" <=>
                    usable /\ whole /\ lies = {} /\ Len(sent) <= MaxBody
               /\ read.kind = "data" => read.bytes = sent
        ELSE read = IF usable /\ reply.arrived <= MaxBody
                    THEN Data(SubSeq(sent, 1, reply.arrived)) ELSE Error

\* The link that is shown, the connection of the host, and the command that is printed
\* at the end lead to one and the same session, whether the agent has created it, was
\* given its code, or was given the URL of its WebSocket.
SameSession ==
  connect # None =>
    LET command == reconnect_command(connect.viewer)
        again   == resolve_connection(command, None)
    IN  /\ command # None
        /\ again.viewer = connect.viewer
        /\ again.host = [connect.host EXCEPT !.query = FALSE]

\* On every way out the host's screen, modes and console are as the agent found them,
\* and no thread draws afterwards.  A terminal that cannot save its modes gets the
\* defaults of those that were changed; of the modes a failed write was about nothing
\* is known.
HostRestored ==
  LET kept == [m \in Mode |-> IF m \in comp.changed /\ ~tty.saves
                              THEN Default[m] ELSE before.tty.modes[m]]
  IN  /\ pc.main \in {"leave", "leave_failed", "wait", "join", "exited", "failed"} =>
           /\ ~tty.alternate
           /\ \A m \in Mode \ torn : tty.modes[m] = kept[m]
      /\ pc.main \in {"wait", "join", "exited", "failed"} => console = before.console

\* The shell waits for room for its output and does not read meanwhile, the writer of
\* its input waits for it, and the queue of input is full.
Stuck ==
  /\ shell.at = "writes" /\ shell.kind = "sequential"
  /\ shell.in = PtyCapacity /\ shell.out = PtyCapacity
  /\ pc.input = "write" /\ Len(input) = InputCapacity

\* The circle: the reader of its output waits for room in that queue, or for the lock
\* of a resize that does.
Jam == Stuck /\ (pc.output = "reply" \/ (pc.output = "draw" /\ holds))

\* A failed write has ended the reader of its output.
Unread == Stuck /\ pc.output = "done"

\* As long as its reader lives, that circle is the only way for the shell's output to
\* stay unread.
OutputFlows ==
  shell.out > 0 ~> (shell.out = 0 \/ pc.output = "done" \/ Jam \/ ~Alive)

\* Keys are heard, statuses shown and the host's screen given back: a resize that waits
\* for the shell's input queue gives up the lock, unless the circle is closed or nobody
\* reads the output of a shell that waits for that.
LockIsFreed == holds ~> (~holds \/ Jam \/ Unread \/ ~Alive)

\* When the shell is dead the agent ends, however it was caught: while a queue was
\* full, while the transport was connecting, or on the way to start.
Exits == shell.at = "dead" ~> ~Alive
=============================================================================
