----------------------------- MODULE ControlPath -----------------------------
(***************************************************************************)
(* The way of a control request to the host and of the answer back.        *)
(*                                                                         *)
(* Three threads of the agent and the server take part: stdin_loop frames  *)
(* what the host types and queues decisions (terminal.rs), websocket_loop  *)
(* sends them and receives statuses over one connection after another      *)
(* (transport.rs), and status_loop shows the statuses.  The server is      *)
(* SessionDO reduced to the request, the controller and the host's         *)
(* connection.  The shutdown at the end of the shell is AgentProcess's.    *)
(***************************************************************************)
EXTENDS HostTerminal, FiniteSets

CONSTANTS
  ControlCapacity,  \* CONTROL_QUEUE_CAPACITY: 4
  StatusCapacity,   \* STATUS_QUEUE_CAPACITY: 8
  Bounds            \* the instances: what is typed, and how often things happen

ASSUME PathAssumption ==
  /\ ControlCapacity \in Nat \ {0} /\ StatusCapacity \in Nat \ {0}
  /\ Bounds \subseteq [ keys : SUBSET DOMAIN Keystroke, presses : Nat, cut : BOOLEAN,
                        askers : Seq(SUBSET Viewer),
                        connections : Nat, screens : Nat, repeat : BOOLEAN, flight : Nat \ {0} ]

VARIABLES
  bound,      \* the instance, one of Bounds: the keystrokes there are and the most
              \* presses, whether reads may be cut anywhere, who may make the first,
              \* second ... request, the most connections and changes of the program's
              \* screen, whether statuses are repeated, and the statuses on their way
              \* to the agent beyond which no request adds another
  unread,     \* bytes typed that stdin_loop has not read
  pending,    \* InputDecoder::pending
  frames,     \* frames stdin_loop has still to handle
  term,       \* HostTerminal, under its lock
  control,    \* the queue of decisions
  statuses,   \* the queue of statuses
  pc,         \* websocket_loop: its next statement
  conn,       \* connections so far
  up,         \* decisions on their way to the server
  down,       \* statuses on their way to the agent
  server,     \* the session object
  typed,      \* keystrokes so far
  screens,    \* changes of the screen so far
  rung,       \* how often the bell has rung for each request
  approved    \* how often the host has approved each viewer, less its grants

input == <<unread, pending, frames, typed>>
host == <<term, screens, rung>>
network == <<pc, conn, up, down>>
vars == <<bound, input, host, control, statuses, network, server, approved>>

----------------------------------------------------------------------------
(* stdin_loop.                                                             *)

\* The host presses a key, clicks, or pastes.
Press(key) ==
  /\ typed < bound.presses
  /\ typed' = typed + 1
  /\ unread' = unread \o bytesOf(key)
  /\ UNCHANGED <<bound, pending, frames, host, control, statuses, network, server, approved>>

\* A read takes what has arrived, however little.
Reads ==
  /\ frames = <<>>
  /\ \E k \in 1 .. Len(unread) :
       /\ bound.cut \/ k = Len(unread)
       /\ unread' = SubSeq(unread, k + 1, Len(unread))

Read ==
  /\ Reads
  /\ LET fed == feed(pending, SubSeq(unread, 1, Len(unread) - Len(unread')))
     IN  frames' = fed.frames /\ pending' = fed.pending
  /\ UNCHANGED <<bound, typed, host, control, statuses, network, server, approved>>

\* Nothing has arrived for 25 ms.
ReadTimesOut ==
  /\ frames = <<>>
  /\ pending # <<>>
  /\ LET flushed == flush_key(pending)
     IN  frames' = flushed.frames /\ pending' = flushed.pending
  /\ UNCHANGED <<bound, unread, typed, host, control, statuses, network, server, approved>>

\* Whether a decision made now is made for a connection that is known to be lost.
Late == pc \in {"report", "connect"} \/ term.status.conn # conn

\* Mutant: the queue has no limit.
enqueue_control_unbounded(decision) ==
  IF decision = None \/ pc = "done"
  THEN control ELSE Append(control, [decision EXCEPT !.late = Late])

\* enqueue_control: a full queue, or one nobody reads any more, drops the decision.
enqueue_control(decision) ==
  IF decision = None \/ pc = "done" \/ Len(control) >= ControlCapacity
  THEN control ELSE Append(control, [decision EXCEPT !.late = Late])

\* One frame, under the terminal's lock, and the decision it makes.
HandleFrame ==
  /\ frames # <<>>
  /\ frames' = Tail(frames)
  /\ LET handled == handle_input(term, Head(frames))
     IN  /\ term' = handled.term
         /\ control' = enqueue_control(handled.decision)
         /\ approved' = IF handled.decision # None /\ handled.decision.kind = "approve"
                        THEN [approved EXCEPT ![handled.decision.viewer] = @ + 1]
                        ELSE approved
  /\ UNCHANGED <<bound, unread, pending, typed, screens, rung, statuses, network, server>>

----------------------------------------------------------------------------
(* status_loop and pty_output_loop.                                        *)

SyncStatus ==
  /\ statuses # <<>>
  /\ statuses' = Tail(statuses)
  /\ term' = sync_status(term, Head(statuses))
  /\ rung' = IF Rings(term, Head(statuses))
             THEN [rung EXCEPT ![request(term').n] = @ + 1] ELSE rung
  /\ UNCHANGED <<bound, input, screens, control, network, server, approved>>

\* The program turns to another screen.
ShellDraws ==
  /\ screens < bound.screens
  /\ screens' = screens + 1
  /\ \E screen \in Screen \ {term.screen} : term' = handle_pty_output(term, screen)
  /\ UNCHANGED <<bound, input, rung, control, statuses, network, server, approved>>
----------------------------------------------------------------------------
(* The server (session-do.ts).                                             *)

\* host: the connection the server takes for the host's, or 0.  silent: the
\* requests that took the place of one that lapsed without a word.  told: what the
\* host has been sent is what there is.
Server ==
  [ host : Nat, pending : Request \cup {None}, controller : Viewer \cup {None},
    over : BOOLEAN, asked : Nat, silent : SUBSET Nat, told : BOOLEAN ]

\* The status the server sends to the host.
statusOf(s) ==
  [ connected |-> TRUE, ended |-> FALSE, controller |-> s.controller,
    pending |-> s.pending, conn |-> s.host ]

\* The server's new record, and the broadcast of it to the host.
Broadcast(s) ==
  /\ server' = [s EXCEPT !.told = TRUE]
  /\ down' = IF server.host # 0 THEN Append(down, statusOf(s)) ELSE down

Lapsed(s) == [s EXCEPT !.pending = None, !.told = s.told /\ s.pending = None]

\* A viewer asks for control.  A request whose time is over makes room for it
\* without a broadcast of its own (advanceRecordAndPersist).
Ask(v, overdue) ==
  LET s == IF overdue THEN Lapsed(server) ELSE server
      n == server.asked + 1
  IN  /\ server.host # 0 /\ Len(down) < bound.flight
      /\ n \in DOMAIN bound.askers /\ v \in bound.askers[n]
      /\ overdue => server.pending # None
      /\ s.controller = None /\ s.pending = None
      /\ Broadcast([s EXCEPT !.pending = [viewer |-> v, n |-> n], !.asked = n,
                             !.silent = IF s.told THEN @ ELSE @ \cup {n}])
      /\ UNCHANGED <<bound, input, host, control, statuses, pc, conn, up, approved>>

\* The request's time is over, or its viewer leaves; the lease ends, or its
\* viewer releases it.
Withdraw ==
  /\ server.pending # None \/ server.controller # None
  /\ Broadcast([server EXCEPT !.pending = None, !.controller = None])
  /\ UNCHANGED <<bound, input, host, control, statuses, pc, conn, up, approved>>

\* A viewer joins or leaves, or the host's size changes: the same status again,
\* in this model while no other is on its way.
Rebroadcast ==
  /\ bound.repeat
  /\ server.host # 0 /\ down = <<>> /\ statuses = <<>>
  /\ Broadcast(server)
  /\ UNCHANGED <<bound, input, host, control, statuses, pc, conn, up, approved>>

\* GET /status finds that the request's time is over, and tells nobody.
Poll ==
  /\ server.pending # None
  /\ server' = Lapsed(server)
  /\ UNCHANGED <<bound, input, host, control, statuses, network, approved>>

\* Mutant: whoever waits is granted control.
granted_any(s, d) ==
  IF d.kind = "approve" /\ s.pending # None
  THEN [s EXCEPT !.controller = s.pending.viewer, !.pending = None] ELSE s

\* handleControlApprove, handleControlReject and handleControlRevoke
granted(s, d) ==
  CASE d.kind = "revoke" -> [s EXCEPT !.controller = None]
    [] d.kind # "revoke" /\ s.pending # None /\ s.pending.viewer = d.viewer ->
         [s EXCEPT !.pending = None,
                   !.controller = IF d.kind = "approve" THEN d.viewer ELSE @]
    [] OTHER -> s

\* The server handles a decision, of a connection it has not given up.
Decide ==
  /\ up # <<>>
  /\ up' = Tail(up)
  /\ LET s == granted(server, Head(up))
     IN  IF s = server THEN UNCHANGED <<server, down>> ELSE Broadcast(s)
  /\ approved' = IF server'.controller \notin {None, server.controller}
                 THEN [approved EXCEPT ![server'.controller] = @ - 1] ELSE approved
  /\ UNCHANGED <<bound, input, host, control, statuses, pc, conn>>

Without(s) == [s EXCEPT !.host = 0, !.pending = None, !.controller = None, !.told = TRUE]

\* clearHost: the server finds the host's connection lost.
HostLost ==
  /\ server.host # 0
  /\ pc = "run" => conn < bound.connections
  /\ server' = Without(server)
  /\ up' = <<>>
  /\ UNCHANGED <<bound, input, host, control, statuses, pc, conn, down, approved>>

\* Another agent takes the session: this one's connection is closed with 4001.
HostReplaced ==
  /\ server.host # 0
  /\ server' = Without(server)
  /\ down' = Append(down, Ended)
  /\ up' = <<>>
  /\ UNCHANGED <<bound, input, host, control, statuses, pc, conn, approved>>

\* The session expires: its last status, and the close with 4000.
SessionEnds ==
  /\ ~server.over
  /\ server' = [Without(server) EXCEPT !.over = TRUE]
  /\ down' = IF server.host # 0 THEN Append(down, Ended) ELSE down
  /\ up' = <<>>
  /\ UNCHANGED <<bound, input, host, control, statuses, pc, conn, approved>>

----------------------------------------------------------------------------
(* websocket_loop.                                                         *)

\* The server accepts the connection; a new host starts without requests.
Connect ==
  /\ pc = "connect"
  /\ ~server.over
  /\ conn < bound.connections
  /\ conn' = conn + 1
  /\ pc' = "run"
  /\ up' = <<>>
  /\ server' = [server EXCEPT !.host = conn + 1, !.pending = None, !.controller = None,
                              !.told = TRUE]
  /\ down' = <<statusOf(server')>>
  /\ UNCHANGED <<bound, input, host, control, statuses, approved>>

\* The connection fails.
ConnectFails ==
  /\ pc = "connect"
  /\ pc' = "drain"
  /\ UNCHANGED <<bound, input, host, control, statuses, conn, up, down, server, approved>>

\* The connection is refused for good: 410.
ConnectGone ==
  /\ pc = "connect"
  /\ server.over
  /\ pc' = "gone"
  /\ UNCHANGED <<bound, input, host, control, statuses, conn, up, down, server, approved>>

\* mark_session_ended, once there is room
ReportEnded ==
  /\ pc = "gone"
  /\ Len(statuses) < StatusCapacity
  /\ statuses' = Append(statuses, Ended)
  /\ pc' = "done"
  /\ control' = <<>>
  /\ UNCHANGED <<bound, input, host, conn, up, down, server, approved>>

\* flush_outgoing: up to four decisions.
SendDecisions ==
  /\ pc = "run"
  /\ control # <<>>
  /\ up' = IF server.host = conn THEN up \o control ELSE up
  /\ control' = <<>>
  /\ UNCHANGED <<bound, input, host, statuses, pc, conn, down, server, approved>>

\* Mutant: a status that finds the queue full is dropped.
ReadStatus_drops ==
  /\ pc = "run"
  /\ down # <<>>
  /\ down' = Tail(down)
  /\ statuses' = IF Len(statuses) < StatusCapacity
                 THEN Append(statuses, Head(down)) ELSE statuses
  /\ pc' = IF Head(down).ended THEN "done" ELSE "run"
  /\ control' = IF Head(down).ended THEN <<>> ELSE control
  /\ UNCHANGED <<bound, input, host, conn, up, server, approved>>

\* handle_text_frame, or a close with 4000 or 4001 (mark_session_ended): the thread
\* waits for room, and ends when the session has ended.
ReadStatus ==
  /\ pc = "run"
  /\ down # <<>>
  /\ Len(statuses) < StatusCapacity
  /\ down' = Tail(down)
  /\ statuses' = Append(statuses, Head(down))
  /\ pc' = IF Head(down).ended THEN "done" ELSE "run"
  /\ control' = IF Head(down).ended THEN <<>> ELSE control
  /\ UNCHANGED <<bound, input, host, conn, up, server, approved>>

\* An error, a close with another code, or 45 seconds without a message.
Lose ==
  /\ pc = "run"
  /\ conn < bound.connections
  /\ pc' = "drain"
  /\ down' = <<>>
  /\ UNCHANGED <<bound, input, host, control, statuses, conn, up, server, approved>>

\* Mutant: decisions wait for the next connection.
Drain_nothing ==
  /\ pc = "drain"
  /\ pc' = "report"
  /\ UNCHANGED <<bound, input, host, control, statuses, conn, up, down, server, approved>>

\* "Approvals belong to the lost connection, never to a later request."
Drain ==
  /\ pc = "drain"
  /\ control' = <<>>
  /\ pc' = "report"
  /\ UNCHANGED <<bound, input, host, statuses, conn, up, down, server, approved>>

\* The default status, once there is room; then the back-off.
Report ==
  /\ pc = "report"
  /\ Len(statuses) < StatusCapacity
  /\ statuses' = Append(statuses, Disconnected)
  /\ pc' = "connect"
  /\ UNCHANGED <<bound, input, host, control, conn, up, down, server, approved>>
----------------------------------------------------------------------------

Init ==
  /\ bound \in Bounds
  /\ unread = <<>> /\ pending = <<>> /\ frames = <<>> /\ typed = 0
  /\ term = new /\ screens = 0 /\ rung = [n \in DOMAIN bound.askers |-> 0]
  /\ control = <<>> /\ statuses = <<>>
  /\ pc = "connect" /\ conn = 0 /\ up = <<>> /\ down = <<>>
  /\ server = [ host |-> 0, pending |-> None, controller |-> None, over |-> FALSE,
                asked |-> 0, silent |-> {}, told |-> TRUE ]
  /\ approved = [v \in Viewer |-> 0]

Stdin == (\E key \in bound.keys : Press(key)) \/ Read \/ ReadTimesOut \/ HandleFrame

ServerStep ==
  \/ \E v \in Viewer, overdue \in BOOLEAN : Ask(v, overdue)
  \/ Withdraw \/ Rebroadcast \/ Poll \/ Decide \/ HostLost \/ HostReplaced \/ SessionEnds

Transport ==
  \/ Connect \/ ConnectFails \/ ConnectGone \/ ReportEnded
  \/ SendDecisions \/ ReadStatus \/ Lose \/ Drain \/ Report

Next == Stdin \/ SyncStatus \/ ShellDraws \/ ServerStep \/ Transport

Spec == Init /\ [][Next]_vars

\* The reader of a queue goes on: the step of HandleFrame, SyncStatus or Decide.
Advances(queue) == queue # <<>> /\ queue' = Tail(queue)

\* Every thread goes on.  A connection that the server has given up ends (45
\* seconds without a message at the latest); a request or a lease is over some day;
\* attempts to connect do not fail for ever.
FairSpec ==
  /\ Spec
  /\ WF_unread(Reads) /\ WF_vars(ReadTimesOut) /\ WF_frames(Advances(frames))
  /\ WF_statuses(Advances(statuses)) /\ WF_up(Advances(up))
  /\ WF_vars(SendDecisions) /\ WF_vars(ReadStatus) /\ WF_vars(Drain) /\ WF_vars(Report)
  /\ WF_vars(ReportEnded)
  /\ WF_vars(Lose /\ server.host # conn)
  /\ WF_vars(Withdraw)
  /\ SF_vars(Connect) /\ SF_vars(ConnectGone)

----------------------------------------------------------------------------
(* Properties.                                                             *)

TypeOK ==
  /\ bound \in Bounds
  /\ \A i \in DOMAIN unread : unread[i].key \in bound.keys
  /\ Len(pending) < MaxFrame
  /\ \A i \in DOMAIN frames : frames[i] # <<>>
  /\ term \in Terminal
  /\ Len(control) <= ControlCapacity /\ Len(statuses) <= StatusCapacity
  /\ pc \in {"connect", "run", "drain", "report", "gone", "done"}
  /\ conn \in 0 .. bound.connections
  /\ \A i \in DOMAIN statuses : statuses[i] \in SessionStatus
  /\ \A i \in DOMAIN down : down[i] \in SessionStatus
  /\ server \in Server
  /\ approved \in [Viewer -> Int]

Decisions == Range(control) \cup Range(up)

\* Only the answer itself approves a request, however what the host types is cut
\* into reads and whatever was typed before: not pasted text, not another key that
\* ends in a y (InputGuard: "pasted text cannot approve a request").  The two that
\* escape are a key of the application keypad, ESC O y, cut by the 25 ms, and a
\* control sequence longer than MaxFrame.
OnlyAnswersApprove ==
  \A d \in Decisions :
    d.kind = "approve" => d.key \in {"y", "allow", "keypad", "long"}

\* While the prompt asks, the host sees the screen's live end (sync_status, scroll).
PromptIsLive == request(term) # None => term.scroll = 0

\* A request stays hidden by the answer to an earlier one of the same viewer only if
\* the server let the earlier one lapse without a word (dismissed_viewer_id is reset
\* by a status without a request).
HidesOnlyAnswered ==
  LET r == term.status.pending
  IN  r # None /\ request(term) = None => r.n = term.answered \/ r.n \in server.silent

\* The bell rings once for each request that is shown, and only one that silently
\* took the place of another may come without it ("Each new approval request emits
\* one terminal bell").
BellRingsOnce ==
  /\ \A n \in DOMAIN rung : rung[n] <= 1
  /\ request(term) # None =>
       rung[request(term).n] = 1 \/ request(term).n \in server.silent

\* A decision made for a connection that was lost is sent on the next one only if it
\* was made after the queue had been emptied, while the terminal still showed the
\* lost connection ("Approvals belong to the lost connection").
LostDecisionsAreLate == \A d \in Decisions : d.conn = conn \/ d.late

\* A viewer is granted control no more often than the host has approved it, whatever
\* was lost, late, or decided for another request (handleControlApprove compares the
\* viewers).
GrantIsApproved ==
  [][server'.controller \in {None, server.controller} \/ approved[server'.controller] > 0]_vars

\* In the end the host's footer and prompt show what the server has told: nothing of
\* an earlier connection, and no request that is over.
ShowsTheServer ==
  \/ term.status.ended
  \/ term.status = statusOf(server)
  \/ ~server.told

HostIsTold == <>[]ShowsTheServer

\* The footer does not say "Sending decision..." for ever: even when the decision was
\* dropped by a full queue or lost with the connection, the prompt is free again.
DecisionEnds == term.dismissed # None ~> (term.dismissed = None \/ ~server.told)
=============================================================================
