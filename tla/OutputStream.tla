--------------------------- MODULE OutputStream ---------------------------
(***************************************************************************)
(* The shell's output on its way to the viewers: the bounded queue with    *)
(* its screen model (agent/src/output.rs), the resize poll that shares it  *)
(* (terminal.rs), the transport thread (transport.rs), the relay in the    *)
(* session object (session-do.ts) and the terminal of each viewer          *)
(* (client/app.tsx).                                                       *)
(*                                                                         *)
(* What is pushed into the queue is a stream of numbered messages: chunks  *)
(* of output and terminal sizes.  A screen is the number of the last       *)
(* message it shows, all earlier ones included, or one of the values       *)
(* below.  A step of the model holds the queue's lock once, or is one      *)
(* statement of the transport thread between two uses of the lock.         *)
(***************************************************************************)
EXTENDS Integers, Sequences, FiniteSets, Functions

CONSTANTS
  Viewer,       \* the viewers
  Size,         \* terminal sizes
  None,         \* no size; no value
  ChunkLen,     \* lengths of a chunk of output

  Capacity,     \* OUTPUT_QUEUE_CAPACITY
  MaxQueue,     \* 256 messages
  Turn,         \* OUTPUT_MESSAGES_PER_TURN
  Rounds,       \* flushes before the end marker: 16
  MaxRequests,  \* snapshot requests the transport keeps: 128

  SlowResizes,  \* TRUE: the window keeps each size until the poll has seen it
  MaxStream,    \* bound: messages in the stream
  MaxJoins,     \* bound: viewer connections
  MaxUnderWay   \* bound: frames under way when the server's object is evicted

ASSUME ViewerAssumption == IsFiniteSet(Viewer)

ASSUME SizesAssumption ==
  /\ ChunkLen \subseteq Nat \ {0}
  /\ Capacity \in Nat /\ Capacity >= 2
  /\ MaxQueue \in Nat /\ MaxQueue >= 2
  /\ Turn \in Nat \ {0} /\ Rounds \in Nat \ {0} /\ MaxRequests \in Nat \ {0}
  /\ MaxStream \in Nat /\ MaxJoins \in Nat /\ MaxUnderWay \in Nat
  /\ SlowResizes \in BOOLEAN
  /\ None \notin Size \cup Nat

\* The shutdown drains the whole queue (transport.rs: "Drain its bounded queue").
ASSUME DrainAssumption == Rounds * Turn >= MaxQueue

VARIABLES
  os,        \* the size of the host's window
  last,      \* resize_loop: the size it saw last
  out,       \* output::State, under its lock
  exit,      \* the last message when the shell ended, or None
  pc,        \* the transport thread: its next statement
  left,      \* flushes left before the end marker, or None
  taken,     \* messages taken in this flush
  pending,   \* pending_tty: the numbers of the chunks in the batch
  screen,    \* the transport's model of what it has sent
  asks,      \* snapshot_requests
  wire,      \* frames from the agent that the server has not handled
  down,      \* requests from the server that the agent has not read
  known,     \* the server's cached terminal size, or None
  conn,      \* the connection of each viewer, or 0
  joins,     \* viewer connections so far
  pic,       \* the screen each viewer shows
  shown,     \* the size of each viewer's terminal
  ended      \* the server has handled the end marker

window == <<os, last>>
transport == <<pc, left, taken, pending, screen, asks>>
server == <<known, conn, joins, pic, shown, ended>>
vars == <<window, out, exit, transport, wire, down, server>>

----------------------------------------------------------------------------
(* Screens.                                                                *)

Blank == -1     \* cleared for a new generation; nothing drawn since
Stale == -2     \* the connection is new: no screen has been restored on it
Broken == -3    \* shows output of which an earlier part is missing
Picture == {Blank, Stale, Broken} \cup Nat

\* The numbers in data are the ones that follow message p.
Continues(p, data) == p >= 0 /\ \A i \in DOMAIN data : data[i] = p + i

\* Screen p after drawing data on it.
Draw(p, data) ==
  IF p = Stale THEN Stale
  ELSE IF Continues(p, data) THEN p + Len(data) ELSE Broken

\* rest: the stream is between two characters or control sequences there, so a
\* snapshot may be taken (vt100's snapshot_ready).
Screen == [at : Nat \cup {Broken}, rest : BOOLEAN, size : Size \cup {None}]
Message == [n : Nat \ {0}, len : Nat \ {0}, rest : BOOLEAN, size : Size \cup {None}]

\* A parser that processes one message of the stream.
tracked(s, m) ==
  [ at   |-> Draw(s.at, <<m.n>>),
    rest |-> m.rest,
    size |-> IF m.size = None THEN s.size ELSE m.size ]

Frame ==
  [kind : {"output"}, data : Seq(Nat \ {0})]
    \cup [kind : {"size"}, n : Nat, size : Size \cup {None}]
    \cup [kind : {"screen"}, at : Nat]
    \cup [kind : {"snapshot"}, id : Nat \ {0}, at : Nat, size : Size \cup {None}]
    \cup [kind : {"end"}]

\* n = 0 for a size that did not go through the queue.
SizeFrame(n, s) == [kind |-> "size", n |-> n, size |-> s]

\* send_tty_output: nothing is sent for an empty batch.
send_tty_output(batch) ==
  IF batch = <<>> THEN <<>> ELSE <<[kind |-> "output", data |-> batch]>>

\* A request of the server: 0 asks for the size, a connection for its snapshot.
SizeRequest == 0
----------------------------------------------------------------------------
(* The queue (output.rs).                                                  *)

State ==
  [ screen: Screen, queue: Seq(Message), bytes: Int, overflowed: BOOLEAN ]

channel ==
  [ screen     |-> [at |-> 0, rest |-> TRUE, size |-> None],
    queue      |-> <<>>,
    bytes      |-> 0,
    overflowed |-> FALSE ]

chunk(o, len, rest) ==
  [n |-> o.screen.at + 1, len |-> len, rest |-> rest, size |-> None]
terminal_size_frame(o, s) ==
  [n |-> o.screen.at + 1, len |-> 1, rest |-> o.screen.rest, size |-> s]

\* OutputSender::push
push(o, m) ==
  LET seen == [o EXCEPT !.screen = tracked(@, m)]
  IN  IF o.overflowed THEN seen
      ELSE IF Len(o.queue) >= MaxQueue \/ m.len > Capacity - o.bytes
      THEN [seen EXCEPT !.queue = <<>>, !.bytes = 0, !.overflowed = TRUE]
      ELSE [seen EXCEPT !.queue = Append(@, m), !.bytes = @ + m.len]

\* Mutant: the account of bytes is kept.
restart_keepsBytes(o) == [o EXCEPT !.queue = <<>>, !.overflowed = FALSE]

\* Mutant: the messages the screen already shows stay queued.
restart_keepsQueue(o) == [o EXCEPT !.overflowed = FALSE]

\* OutputReceiver::restart, when the screen is at rest
restart(o) == [o EXCEPT !.queue = <<>>, !.bytes = 0, !.overflowed = FALSE]

\* OutputReceiver::try_recv, when the queue is not empty
try_recv(o) == [o EXCEPT !.queue = Tail(@), !.bytes = @ - Head(o.queue).len]

----------------------------------------------------------------------------
(* The host's side: the shell's output and the window.                     *)

\* pty_output_loop
Produce ==
  /\ exit = None
  /\ out.screen.at < MaxStream
  /\ \E len \in ChunkLen, rest \in BOOLEAN : out' = push(out, chunk(out, len, rest))
  /\ UNCHANGED <<window, exit, transport, wire, down, server>>

\* The user resizes the window.
Resize ==
  /\ SlowResizes => last = os
  /\ os' \in Size \ {os}
  /\ UNCHANGED <<last, out, exit, transport, wire, down, server>>

\* resize_loop, when the size has changed
Poll ==
  /\ last # os
  /\ pc # "done"
  /\ out.screen.at < MaxStream
  /\ last' = os
  /\ out' = push(out, terminal_size_frame(out, os))
  /\ UNCHANGED <<os, exit, transport, wire, down, server>>

\* The shell ends and the main thread sends the shutdown.
Exit ==
  /\ exit = None
  /\ exit' = out.screen.at
  /\ UNCHANGED <<window, out, transport, wire, down, server>>

----------------------------------------------------------------------------
(* The transport thread.                                                   *)

Present == {v \in Viewer : conn[v] # 0}

\* The orders in which the server may list the viewers.
Orders(S) == {f \in [1 .. Cardinality(S) -> S] : IsInjective(f)}

\* The server accepts the agent's connection: a new generation, for which the
\* viewers clear their terminals.  The agent sends the window's size.
Connect ==
  /\ pc = "down"
  /\ exit = None
  /\ pc' = "start"
  /\ wire' = <<SizeFrame(0, os)>>
  /\ \E order \in Orders(Present) :
       down' = <<SizeRequest>> \o [i \in DOMAIN order |-> conn[order[i]]]
  /\ known' = None
  /\ pic' = [v \in Viewer |-> IF v \in Present THEN Blank ELSE pic[v]]
  /\ UNCHANGED <<window, out, exit, left, taken, pending, screen, asks,
                 conn, joins, shown, ended>>

\* start_output: a screen and, from then on, what follows it
StartOutput ==
  /\ pc = "start"
  /\ out.screen.rest
  /\ out' = restart(out)
  /\ screen' = out.screen
  /\ wire' = wire \o <<SizeFrame(0, out.screen.size), [kind |-> "screen", at |-> out.screen.at]>>
  /\ pc' = "flush"
  /\ UNCHANGED <<window, exit, left, taken, pending, asks, down, server>>

\* start_output in the middle of a control sequence: the connection is dropped
CannotStart ==
  /\ pc = "start"
  /\ ~out.screen.rest
  /\ pc' = "down"
  /\ UNCHANGED <<window, out, exit, left, taken, pending, screen, asks, wire, down, server>>

\* The flushes left once the shutdown has been sent, or None: run_websocket looks
\* for it at the beginning of a turn.
flushesLeft == IF left = None /\ exit # None THEN Rounds ELSE left

\* flush_outgoing's first check
Flush ==
  /\ pc = "flush"
  /\ ~out.overflowed
  /\ left' = flushesLeft
  /\ pc' = "drain"
  /\ UNCHANGED <<window, out, exit, taken, pending, screen, asks, wire, down, server>>

\* One message of the queue.  The batch is sent when the chunk does not fit (the
\* model leaves open when that is) and before a size.
Drain ==
  /\ pc = "drain"
  /\ taken < Turn
  /\ out.queue # <<>>
  /\ LET m == Head(out.queue)
     IN  /\ screen' = tracked(screen, m)
         /\ \/ /\ m.size # None
               /\ wire' = wire \o send_tty_output(pending) \o <<SizeFrame(m.n, m.size)>>
               /\ pending' = <<>>
            \/ /\ m.size = None
               /\ wire' = wire \o send_tty_output(pending)
               /\ pending' = <<m.n>>
            \/ /\ m.size = None
               /\ wire' = wire
               /\ pending' = Append(pending, m.n)
  /\ out' = try_recv(out)
  /\ taken' = taken + 1
  /\ UNCHANGED <<window, exit, pc, left, asks, down, server>>

EndOfDrain == pc = "drain" /\ (taken = Turn \/ out.queue = <<>>)

\* Mutant: the screen before the batch that is about to be sent.
snapshot_text_early(id) ==
  [kind |-> "snapshot", id |-> id, at |-> screen.at - Len(pending), size |-> screen.size]

snapshot_text(id) ==
  [kind |-> "snapshot", id |-> id, at |-> screen.at, size |-> screen.size]

\* Snapshots are answered between two control sequences.
answers ==
  IF screen.rest THEN [i \in DOMAIN asks |-> snapshot_text(asks[i])] ELSE <<>>

\* Mutant: requests that cannot be answered yet are forgotten.
EndOfFlush_forgets ==
  /\ EndOfDrain
  /\ ~out.overflowed
  /\ left = None
  /\ wire' = wire \o send_tty_output(pending) \o answers
  /\ asks' = <<>>
  /\ pending' = <<>> /\ taken' = 0
  /\ pc' = "read"
  /\ UNCHANGED <<window, out, exit, left, screen, down, server>>

\* The last check and the rest of the batch; then the waiting requests.
EndOfFlush ==
  /\ EndOfDrain
  /\ ~out.overflowed
  /\ left = None
  /\ wire' = wire \o send_tty_output(pending) \o answers
  /\ asks' = IF screen.rest THEN <<>> ELSE asks
  /\ pending' = <<>> /\ taken' = 0
  /\ pc' = "read"
  /\ UNCHANGED <<window, out, exit, left, screen, down, server>>

\* Mutant: what is left of the batch is not sent.
EndOfLastFlush_unsent ==
  /\ EndOfDrain
  /\ ~out.overflowed
  /\ left # None
  /\ pending' = <<>> /\ taken' = 0
  /\ left' = left - 1
  /\ pc' = IF left = 1 THEN "end" ELSE "flush"
  /\ UNCHANGED <<window, out, exit, screen, asks, wire, down, server>>

\* Mutant: one flush too many.
EndOfLastFlush_late ==
  /\ EndOfDrain
  /\ ~out.overflowed
  /\ left # None
  /\ wire' = wire \o send_tty_output(pending)
  /\ pending' = <<>> /\ taken' = 0
  /\ left' = left - 1
  /\ pc' = IF left = 0 THEN "end" ELSE "flush"
  /\ UNCHANGED <<window, out, exit, screen, asks, down, server>>

\* The same after the shutdown: flushes only, and then the end marker.
EndOfLastFlush ==
  /\ EndOfDrain
  /\ ~out.overflowed
  /\ left # None
  /\ wire' = wire \o send_tty_output(pending)
  /\ pending' = <<>> /\ taken' = 0
  /\ left' = left - 1
  /\ pc' = IF left = 1 THEN "end" ELSE "flush"
  /\ UNCHANGED <<window, out, exit, screen, asks, down, server>>

\* Overflow found by flush_outgoing, at its beginning or at its end: the batch is
\* dropped and the connection given up, or after the shutdown the end marker sent.
Overflow ==
  /\ pc = "flush" \/ EndOfDrain
  /\ out.overflowed
  /\ left' = IF pc = "flush" THEN flushesLeft ELSE left
  /\ pending' = <<>> /\ taken' = 0 /\ asks' = <<>>
  /\ pc' = IF left' = None THEN "down" ELSE "end"
  /\ UNCHANGED <<window, out, exit, screen, wire, down, server>>

\* The socket has nothing to read yet.
ReadNothing ==
  /\ pc = "read"
  /\ pc' = "flush"
  /\ UNCHANGED <<window, out, exit, left, taken, pending, screen, asks, wire, down, server>>

ReadSizeRequest ==
  /\ pc = "read"
  /\ down # <<>> /\ Head(down) = SizeRequest
  /\ down' = Tail(down)
  /\ wire' = Append(wire, SizeFrame(0, os))
  /\ pc' = "flush"
  /\ UNCHANGED <<window, out, exit, left, taken, pending, screen, asks, server>>

\* When too many requests wait, the oldest is dropped.
ReadSnapshotRequest ==
  /\ pc = "read"
  /\ down # <<>> /\ Head(down) # SizeRequest
  /\ down' = Tail(down)
  /\ asks' = Append(IF Len(asks) >= MaxRequests THEN Tail(asks) ELSE asks, Head(down))
  /\ pc' = "flush"
  /\ UNCHANGED <<window, out, exit, left, taken, pending, screen, wire, server>>

\* end_session sends the end marker, ...
EndSession ==
  /\ pc = "end"
  /\ wire' = Append(wire, [kind |-> "end"])
  /\ pc' = "bye"
  /\ UNCHANGED <<window, out, exit, left, taken, pending, screen, asks, down, server>>

\* ... and waits for the answer, for at most two seconds.
Finish ==
  /\ pc = "bye"
  /\ pc' = "done"
  /\ UNCHANGED <<window, out, exit, left, taken, pending, screen, asks, wire, down, server>>

\* The thread is about to give the connection up itself (CannotStart, Overflow).
GivesUp ==
  \/ pc = "start" /\ ~out.screen.rest
  \/ pc = "drain" /\ out.overflowed /\ left = None

\* The connection fails: an error, a close frame or the heartbeat's timeout.
Fail ==
  /\ pc \in {"start", "drain", "read", "end", "bye"}
  /\ ~GivesUp   \* so that the step is not one of those
  /\ pending' = <<>> /\ taken' = 0 /\ asks' = <<>>
  /\ pc' = IF left = None THEN "down" ELSE "done"
  /\ UNCHANGED <<window, out, exit, left, screen, wire, down, server>>

\* The shutdown finds the thread without a connection: it returns.
GiveUp ==
  /\ pc = "down"
  /\ exit # None
  /\ pc' = "done"
  /\ UNCHANGED <<window, out, exit, left, taken, pending, screen, asks, wire, down, server>>

\* The server has ended the session or given it to another host: it returns.
Over ==
  /\ pc \in {"down", "read"}
  /\ pc' = "done"
  /\ asks' = <<>>
  /\ UNCHANGED <<window, out, exit, left, taken, pending, screen, wire, down, server>>

----------------------------------------------------------------------------
(* The server and the viewers.                                             *)

\* A status carries the cached size to every viewer in S.
told(S) == [v \in Viewer |-> IF v \in S /\ known # None THEN known ELSE shown[v]]

Deliver(kind) == wire # <<>> /\ Head(wire).kind = kind /\ wire' = Tail(wire)

\* The server forwards output to every viewer.
DeliverOutput ==
  /\ Deliver("output")
  /\ pic' = [v \in Viewer |-> Draw(pic[v], Head(wire).data)]
  /\ UNCHANGED <<window, out, exit, transport, down, known, conn, joins, shown, ended>>

\* start_output's screen is forwarded as output; it resets the terminal first.
DeliverScreen ==
  /\ Deliver("screen")
  /\ pic' = [v \in Viewer |-> IF v \in Present THEN Head(wire).at ELSE pic[v]]
  /\ UNCHANGED <<window, out, exit, transport, down, known, conn, joins, shown, ended>>

\* handleHostTerminalSize: the viewers are told of a size that is not the cached one.
DeliverSize ==
  /\ Deliver("size")
  /\ LET f == Head(wire)
     IN  /\ pic' = IF f.n = 0 THEN pic ELSE [v \in Viewer |-> Draw(pic[v], <<f.n>>)]
         /\ known' = f.size
         /\ shown' = IF f.size = known THEN shown
                     ELSE [v \in Viewer |-> IF v \in Present THEN f.size ELSE shown[v]]
  /\ UNCHANGED <<window, out, exit, transport, down, conn, joins, ended>>

\* The reply goes to the connection that asked, if it is still there.
DeliverSnapshot ==
  /\ Deliver("snapshot")
  /\ LET f == Head(wire)
         To(v) == conn[v] = f.id
     IN  /\ pic' = [v \in Viewer |-> IF To(v) THEN f.at ELSE pic[v]]
         /\ shown' = [v \in Viewer |-> IF To(v) THEN f.size ELSE shown[v]]
  /\ UNCHANGED <<window, out, exit, transport, down, known, conn, joins, ended>>

DeliverEnd ==
  /\ Deliver("end")
  /\ ended' = TRUE
  /\ UNCHANGED <<window, out, exit, transport, down, known, conn, joins, pic, shown>>

\* A viewer connects: it is told the cached size, and the host is asked for what
\* is missing.  A request to a connection that has failed is lost.
Join(v) ==
  /\ conn[v] = 0
  /\ joins < MaxJoins /\ ~ended
  /\ joins' = joins + 1
  /\ conn' = [conn EXCEPT ![v] = joins + 1]
  /\ shown' = told(Present \cup {v})
  /\ down' = IF pc \in {"down", "done"} THEN down
             ELSE down \o (IF known = None THEN <<SizeRequest>> ELSE <<>>) \o <<joins + 1>>
  /\ UNCHANGED <<window, out, exit, transport, wire, known, pic, ended>>

\* A viewer's connection is lost, or its page is left.
Leave(v) ==
  /\ conn[v] # 0
  /\ conn' = [conn EXCEPT ![v] = 0]
  /\ pic' = [pic EXCEPT ![v] = Stale]
  /\ shown' = told(Present \ {v})
  /\ UNCHANGED <<window, out, exit, transport, wire, down, known, joins, ended>>

\* Mutant: the object that comes back asks for nothing.
Evict_silent ==
  /\ Len(wire) + Len(down) <= MaxUnderWay
  /\ known' = None
  /\ UNCHANGED <<window, out, exit, transport, wire, down, conn, joins, pic, shown, ended>>

\* The object is evicted and comes back: the cache is not in storage, and restoreSockets
\* asks a host that is still there for what is missing.
Evict ==
  /\ Len(wire) + Len(down) <= MaxUnderWay
  /\ known' = None
  /\ down' = IF pc \in {"down", "done"} \/ ended THEN down ELSE Append(down, SizeRequest)
  /\ UNCHANGED <<window, out, exit, transport, wire, conn, joins, pic, shown, ended>>

----------------------------------------------------------------------------
Init ==
  /\ os \in Size
  /\ last = os
  \* the first size and the banner
  /\ LET sized == push(channel, terminal_size_frame(channel, os))
     IN  out = push(sized, chunk(sized, 1, TRUE))
  /\ exit = None
  /\ pc = "down" /\ left = None /\ taken = 0
  /\ pending = <<>> /\ asks = <<>> /\ wire = <<>> /\ down = <<>>
  /\ screen = channel.screen
  /\ known = None /\ joins = 0 /\ ended = FALSE
  /\ conn = [v \in Viewer |-> 0]
  /\ pic = [v \in Viewer |-> Stale]
  /\ shown = [v \in Viewer |-> None]

Host == Produce \/ Resize \/ Poll \/ Exit

\* What the transport thread does by itself.
Turns ==
  \/ Connect \/ StartOutput \/ CannotStart
  \/ Flush \/ Drain \/ EndOfFlush \/ EndOfLastFlush \/ Overflow
  \/ EndSession \/ Finish \/ GiveUp

Reads == ReadSizeRequest \/ ReadSnapshotRequest

Relay ==
  DeliverOutput \/ DeliverScreen \/ DeliverSize \/ DeliverSnapshot \/ DeliverEnd

Viewers == \E v \in Viewer : Join(v) \/ Leave(v)

Next == Host \/ Turns \/ ReadNothing \/ Reads \/ Fail \/ Over \/ Relay \/ Viewers \/ Evict

\* The threads are scheduled, the poll has its period, and the network carries
\* what was sent; a request may arrive after any number of turns.
Fairness ==
  /\ WF_vars(Turns \/ ReadNothing)
  /\ SF_vars(Reads)
  /\ WF_vars(Relay)
  /\ WF_vars(Poll)

Spec == Init /\ [][Next]_vars
FairSpec == Spec /\ Fairness

----------------------------------------------------------------------------
TypeOK ==
  /\ os \in Size /\ last \in Size
  /\ out \in State
  /\ exit \in Nat \cup {None}
  /\ pc \in {"down", "start", "flush", "drain", "read", "end", "bye", "done"}
  /\ left \in Nat \cup {None} /\ taken \in Nat
  /\ pending \in Seq(Nat \ {0}) /\ screen \in Screen /\ asks \in Seq(Nat \ {0})
  /\ wire \in Seq(Frame) /\ down \in Seq(Nat)
  /\ known \in Size \cup {None}
  /\ conn \in [Viewer -> Nat] /\ joins \in Nat
  /\ pic \in [Viewer -> Picture]
  /\ shown \in [Viewer -> Size \cup {None}]
  /\ ended \in BOOLEAN

(* No viewer ever draws output of which an earlier part is missing or comes *)
(* twice, and neither does the model the snapshots are taken from: through  *)
(* overflow, lost connections, batching, and snapshots for viewers that     *)
(* join or return.                                                          *)
NoGap ==
  /\ \A v \in Viewer : pic[v] # Broken
  /\ screen.at # Broken

\* The bytes of all the messages in q.
queued(q) ==
  LET upTo[i \in 0 .. Len(q)] == IF i = 0 THEN 0 ELSE upTo[i - 1] + q[i].len
  IN  upTo[Len(q)]

(* The queue keeps its limits, and its account of bytes is the size of what *)
(* is queued: an account that drifts would overflow on an empty queue.      *)
QueueBounded ==
  /\ Len(out.queue) <= MaxQueue
  /\ out.bytes <= Capacity
  /\ out.bytes = queued(out.queue)

(* Within a generation a viewer's screen never goes back to an earlier one, *)
(* whatever snapshots are under way.                                        *)
NeverBack == [][\A v \in Viewer : pic[v] >= 0 /\ pic'[v] >= 0 => pic[v] <= pic'[v]]_pic

(* When the server handles the end marker, every viewer whose screen has    *)
(* been restored shows all the shell wrote, unless the queue overflowed     *)
(* while it was drained.                                                    *)
EndIsComplete ==
  ended /\ ~out.overflowed => \A v \in Viewer : pic[v] = Stale \/ pic[v] >= exit

(* Once the network stops failing and the output ends between two control   *)
(* sequences, every connected viewer comes to show all of it and stays so.  *)
CatchesUp ==
  (<>[][~Fail]_vars /\ <>[]out.screen.rest)
    => <>[](pc = "done" \/ \A v \in Present : pic[v] = out.screen.at)

(* architecture.md:53: when everything has been delivered, every viewer's   *)
(* terminal has the host's dimensions.                                      *)
Delivered ==
  /\ pc = "read" /\ last = os /\ ~out.overflowed
  /\ <<out.queue, wire, down, asks>> = <<<<>>, <<>>, <<>>, <<>>>>
DimensionsAreHosts == Delivered => \A v \in Present : shown[v] = os

(* When everything has been delivered, the size the server keeps for the    *)
(* viewers to come is the host's, however sizes from start_output, replies  *)
(* and the queue overtook each other, whatever an overflow dropped and      *)
(* whenever the object lost what it kept.                                   *)
CachedSizeIsHosts == Delivered => known = os

(* README.md:41: while the network does not fail, a lost connection is      *)
(* restored.                                                                *)
Reconnects == <>[][~Fail]_vars => [](pc = "down" => <>(pc \in {"flush", "done"}))
=============================================================================
