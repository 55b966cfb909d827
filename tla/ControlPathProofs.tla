-------------------------- MODULE ControlPathProofs --------------------------
(***************************************************************************)
(* Proofs about ControlPath, for any viewers, keystrokes, connections and  *)
(* lengths of the queues.                                                  *)
(***************************************************************************)
EXTENDS ControlPath, InputFramingProofs

----------------------------------------------------------------------------
(* HostTerminal.                                                           *)

LEMMA TerminalFields ==
  ASSUME NEW t \in Terminal
  PROVE  /\ t.status \in SessionStatus /\ t.dismissed \in Viewer \cup {None}
         /\ t.answered \in Nat /\ t.guard \in Guard /\ t.screen \in Screen
         /\ t.scroll \in 0 .. Scrollback
BY DEF Terminal, Guard

LEMMA RequestType ==
  ASSUME NEW t \in Terminal
  PROVE  /\ request(t) \in Request \cup {None}
         /\ request(t) # None => request(t) = t.status.pending
BY TerminalFields DEF request, SessionStatus

\* What handling input does to the terminal t, and the decision it makes.
Outcome(t, key, h) ==
  /\ h.term \in Terminal
  /\ h.term.status = t.status /\ h.term.guard = t.guard
  /\ request(t) # None => h.term.scroll \in {t.scroll, 0}
  /\ h.decision # None =>
       h.decision \in Decision /\ h.decision.conn = t.status.conn /\ h.decision.key = key
  /\ \/ h.term.dismissed = t.dismissed /\ h.term.answered = t.answered
     \/ /\ request(t) # None
        /\ h.term.dismissed = request(t).viewer /\ h.term.answered = request(t).n

LEMMA PassedOutcome ==
  ASSUME NEW t \in Terminal, NEW key
  PROVE  /\ Outcome(t, key, Passthrough(t)) /\ Outcome(t, key, Consumed(t))
         /\ Passthrough(t).decision = None /\ Consumed(t).decision = None
BY DEF Outcome, Passthrough, Consumed

LEMMA DecideOutcome ==
  ASSUME NEW t \in Terminal, NEW kind \in {"approve", "reject"}, NEW key \in DOMAIN Keystroke,
         request(t) # None
  PROVE  /\ Outcome(t, key, decide_request(t, kind, key))
         /\ decide_request(t, kind, key).decision.kind = kind
<1> DEFINE r == request(t)
           d == [kind |-> kind, viewer |-> r.viewer, n |-> r.n, key |-> key,
                 conn |-> t.status.conn, late |-> FALSE]
           a == [t EXCEPT !.dismissed = r.viewer, !.answered = r.n]
<1>1. r.viewer \in Viewer /\ r.n \in Nat BY RequestType DEF Request
<1>2. t.status.conn \in Nat BY TerminalFields DEF SessionStatus
<1> HIDE DEF r
<1>3. d \in Decision BY <1>1, <1>2 DEF Decision
<1>4. a \in Terminal BY <1>1 DEF Terminal
<1>5. /\ a.status = t.status /\ a.guard = t.guard /\ a.scroll = t.scroll
      /\ a.dismissed = r.viewer /\ a.answered = r.n
  BY DEF Terminal
<1>6. d.conn = t.status.conn /\ d.key = key /\ d.kind = kind OBVIOUS
<1> HIDE DEF a, d
<1>7. decide_request(t, kind, key) = [term |-> a, pass |-> FALSE, decision |-> d]
  BY DEF decide_request, Decides, a, d, r
<1>8. decide_request(t, kind, key).term = a /\ decide_request(t, kind, key).decision = d
  BY <1>7
<1> QED BY <1>3, <1>4, <1>5, <1>6, <1>8 DEF Outcome, r

LEMMA RevokeOutcome ==
  ASSUME NEW t \in Terminal, NEW key \in DOMAIN Keystroke
  PROVE  /\ Outcome(t, key, Decides(t, "revoke", None, 0, key))
         /\ Decides(t, "revoke", None, 0, key).decision.kind = "revoke"
<1> DEFINE d == [kind |-> "revoke", viewer |-> None, n |-> 0, key |-> key,
                 conn |-> t.status.conn, late |-> FALSE]
<1>1. t.status.conn \in Nat BY TerminalFields DEF SessionStatus
<1>2. d \in Decision BY <1>1 DEF Decision
<1>3. d.conn = t.status.conn /\ d.key = key /\ d.kind = "revoke" OBVIOUS
<1> HIDE DEF d
<1>4. Decides(t, "revoke", None, 0, key) = [term |-> t, pass |-> FALSE, decision |-> d]
  BY DEF Decides, d
<1>5. /\ Decides(t, "revoke", None, 0, key).term = t
      /\ Decides(t, "revoke", None, 0, key).decision = d
  BY <1>4
<1> QED BY <1>2, <1>3, <1>5 DEF Outcome

LEMMA ScrolledOutcome ==
  ASSUME NEW t \in Terminal, request(t) = None, NEW at, NEW key
  PROVE  /\ Outcome(t, key, Consumed(scrolled(t, at)))
         /\ Consumed(scrolled(t, at)).decision = None
<1> DEFINE to == CASE at = "wheel" /\ t.scroll < Scrollback -> t.scroll + 1
                   [] at = "back" /\ t.scroll > 0 -> t.scroll - 1
                   [] OTHER -> t.scroll
           a == [t EXCEPT !.scroll = to]
<1>1. t.scroll \in 0 .. Scrollback /\ Scrollback \in Nat
  BY TerminalFields, TerminalAssumption
<1>2. to \in 0 .. Scrollback
  <2>1. "wheel" # "back" OBVIOUS
  <2> QED BY <1>1, <2>1
<1>3. scrolled(t, at) = a BY DEF scrolled
<1> HIDE DEF to
<1>4. a \in Terminal BY <1>2 DEF Terminal
<1>5. /\ a.status = t.status /\ a.guard = t.guard
      /\ a.dismissed = t.dismissed /\ a.answered = t.answered
  BY DEF Terminal
<1> HIDE DEF a
<1>6. Consumed(a).term = a /\ Consumed(a).decision = None BY DEF Consumed
<1> QED BY <1>3, <1>4, <1>5, <1>6 DEF Outcome

\* handle_report: only a click on the footer's word for it approves.
LEMMA ReportOutcome ==
  ASSUME NEW t \in Terminal, NEW report, NEW key \in DOMAIN Keystroke
  PROVE  LET h == handle_report(t, report, key)
         IN  /\ Outcome(t, key, h)
             /\ h.decision # None /\ h.decision.kind = "approve" =>
                  report.at = "allow" /\ report.pressed
<1> DEFINE h == handle_report(t, report, key)
<1>1. CASE request(t) # None /\ OnFooter(report)
  <2>1. h = IF report.pressed
            THEN decide_request(t, IF report.at = "allow" THEN "approve" ELSE "reject", key)
            ELSE Consumed(t)
    BY <1>1 DEF handle_report
  <2>2. CASE report.pressed /\ report.at = "allow"
    <3>1. h = decide_request(t, "approve", key) BY <2>1, <2>2
    <3> QED BY <1>1, <2>2, <3>1, DecideOutcome
  <2>3. CASE report.pressed /\ report.at # "allow"
    <3>1. h = decide_request(t, "reject", key) BY <2>1, <2>3
    <3> QED BY <1>1, <3>1, DecideOutcome
  <2>4. CASE ~report.pressed
    <3>1. h = Consumed(t) BY <2>1, <2>4
    <3> QED BY <3>1, PassedOutcome
  <2> QED BY <2>2, <2>3, <2>4
<1>2. CASE /\ request(t) = None /\ OnFooter(report) /\ report.pressed
           /\ t.status.connected /\ t.status.controller # None
  <2>1. h = Decides(t, "revoke", None, 0, key) BY <1>2 DEF handle_report
  <2> QED BY <2>1, RevokeOutcome
<1>3. CASE /\ ~(request(t) # None /\ OnFooter(report))
           /\ ~(/\ request(t) = None /\ OnFooter(report) /\ report.pressed
                /\ t.status.connected /\ t.status.controller # None)
  <2>1. h = IF owns_scroll(t)
            THEN Consumed(IF request(t) = None /\ report.pressed
                          THEN scrolled(t, report.at) ELSE t)
            ELSE IF OnFooter(report) \/ t.screen # "mouse" \/ request(t) # None
            THEN Consumed(t) ELSE Passthrough(t)
    BY <1>3 DEF handle_report
  <2>2. CASE h = Consumed(t) \/ h = Passthrough(t) BY <2>2, PassedOutcome
  <2>3. CASE h = Consumed(scrolled(t, report.at)) /\ request(t) = None
    BY <2>3, ScrolledOutcome
  <2> QED BY <2>1, <2>2, <2>3
<1> QED BY <1>1, <1>2, <1>3

\* handle_key: only a y on its own, outside pastes, approves.
LEMMA KeyOutcome ==
  ASSUME NEW t \in Terminal, NEW g, NEW frame, frame[1].key \in DOMAIN Keystroke
  PROVE  LET h == handle_key(t, g, frame)
         IN  /\ Outcome(t, frame[1].key, h)
             /\ h.decision # None /\ h.decision.kind = "approve" => ~g.paste /\ frame[1].b = "y"
<1> DEFINE h == handle_key(t, g, frame)
           key == frame[1].key
<1>1. h = IF request(t) = None THEN Passthrough(t)
          ELSE IF IsKey(g, frame) /\ frame[1].b = "y" THEN decide_request(t, "approve", key)
          ELSE IF IsKey(g, frame) /\ frame[1].b \in {"n", "ESC"}
          THEN decide_request(t, "reject", key)
          ELSE Consumed(t)
  BY DEF handle_key
<1> HIDE DEF h
<1>2. CASE h = Consumed(t) \/ h = Passthrough(t) BY <1>2, PassedOutcome DEF h
<1>3. CASE request(t) # None /\ IsKey(g, frame) /\ frame[1].b = "y"
  <2>1. h = decide_request(t, "approve", key) BY <1>1, <1>3
  <2> QED BY <1>3, <2>1, DecideOutcome DEF IsKey, h
<1>4. CASE request(t) # None /\ h = decide_request(t, "reject", key)
  BY <1>4, DecideOutcome DEF h
<1> QED BY <1>1, <1>2, <1>3, <1>4

\* HostTerminal::handle_input, with a frame that leads from c to d.
LEMMA HandleInput ==
  ASSUME NEW t \in Terminal, NEW c, NEW d, NEW frame \in Frames,
         Path(Typed, c, frame, d), GuardAt(t.guard, c)
  PROVE  LET h == handle_input(t, frame)
         IN  /\ h.term \in Terminal
             /\ h.term.status = t.status /\ GuardAt(h.term.guard, d)
             /\ request(t) # None => h.term.scroll \in {t.scroll, 0}
             /\ h.decision # None =>
                  /\ h.decision \in Decision /\ h.decision.conn = t.status.conn
                  /\ h.decision.kind = "approve" =>
                       h.decision.key \in {"y", "allow", "keypad", "long"}
             /\ \/ h.term.dismissed = t.dismissed /\ h.term.answered = t.answered
                \/ /\ request(t) # None
                   /\ h.term.dismissed = request(t).viewer /\ h.term.answered = request(t).n
<1> DEFINE g == t.guard
           key == frame[1].key
           a == [t EXCEPT !.guard = guarded(g, frame)]
           u == [a EXCEPT !.scroll = 0]
           h == handle_input(t, frame)
<1>1. frame \in Seq(Byte) /\ frame # <<>> BY DEF Frames
<1>2. key \in DOMAIN Keystroke
  <2>1. frame[1] \in Byte BY <1>1
  <2> QED BY <2>1 DEF Byte
<1>3. GuardAt(guarded(g, frame), d) /\ guarded(g, frame) \in Guard
  BY <1>1, GuardedKeeps DEF GuardAt
<1>4. a \in Terminal BY <1>3 DEF Terminal, Guard
<1>5. /\ a.status = t.status /\ a.guard = guarded(g, frame) /\ a.scroll = t.scroll
      /\ a.dismissed = t.dismissed /\ a.answered = t.answered
  BY DEF Terminal
<1> HIDE DEF a
<1>6. 0 \in 0 .. Scrollback BY TerminalAssumption
<1>7. u \in Terminal BY <1>4, <1>6 DEF Terminal
<1>8. /\ u.status = t.status /\ u.guard = guarded(g, frame) /\ u.scroll = 0
      /\ u.dismissed = t.dismissed /\ u.answered = t.answered
  BY <1>4, <1>5 DEF Terminal
<1>9. u = unscrolled(a) BY DEF unscrolled
<1> HIDE DEF u
<1>10. request(a) = request(t) /\ request(u) = request(t) BY <1>5, <1>8 DEF request
<1>11. h = IF g.paste THEN handle_key(a, g, frame)
           ELSE IF IsReport(frame) THEN handle_report(a, mouse_report(frame), key)
           ELSE handle_key(u, g, frame)
  BY <1>9 DEF handle_input, a
<1>12. /\ Outcome(a, key, h) \/ Outcome(u, key, h)
       /\ h.decision # None /\ h.decision.kind = "approve" =>
            key \in {"y", "allow", "keypad", "long"}
  <2> HIDE DEF h
  <2>1. CASE g.paste
    <3>1. h = handle_key(a, g, frame) BY <1>11, <2>1
    <3> QED BY <1>2, <1>4, <2>1, <3>1, KeyOutcome
  <2>2. CASE ~g.paste /\ IsReport(frame)
    <3>1. h = handle_report(a, mouse_report(frame), key) BY <1>11, <2>2
    <3>2. mouse_report(frame).at = "allow" /\ mouse_report(frame).pressed => key = "allow"
      BY <2>2, ClickApproves
    <3> QED BY <1>2, <1>4, <3>1, <3>2, ReportOutcome
  <2>3. CASE ~g.paste /\ ~IsReport(frame)
    <3>1. h = handle_key(u, g, frame) BY <1>11, <2>3
    <3>2. frame[1].b = "y" => key \in {"y", "keypad", "long"} BY <2>3, KeyApproves
    <3> QED BY <1>2, <1>7, <3>1, <3>2, KeyOutcome
  <2> QED BY <2>1, <2>2, <2>3
<1> HIDE DEF h, key
<1>13. /\ h.term \in Terminal /\ h.term.status = t.status /\ h.term.guard = guarded(g, frame)
       /\ request(t) # None => h.term.scroll \in {t.scroll, 0}
       /\ h.decision # None =>
            h.decision \in Decision /\ h.decision.conn = t.status.conn /\ h.decision.key = key
       /\ \/ h.term.dismissed = t.dismissed /\ h.term.answered = t.answered
          \/ /\ request(t) # None
             /\ h.term.dismissed = request(t).viewer /\ h.term.answered = request(t).n
  <2>1. CASE Outcome(a, key, h) BY <1>5, <1>10, <2>1 DEF Outcome
  <2>2. CASE Outcome(u, key, h) BY <1>8, <1>10, <2>2 DEF Outcome
  <2> QED BY <1>12, <2>1, <2>2
<1> QED BY <1>3, <1>12, <1>13 DEF h

\* HostTerminal::sync_status
LEMMA SyncTerminal ==
  ASSUME NEW t \in Terminal, NEW s \in SessionStatus
  PROVE  LET u == sync_status(t, s)
         IN  /\ u \in Terminal
             /\ u.status = s /\ u.guard = t.guard /\ u.answered = t.answered
             /\ u.dismissed = IF s.pending = None THEN None ELSE t.dismissed
             /\ request(u) # None => u.scroll = 0
<1> DEFINE to == IF s.pending = None THEN None ELSE t.dismissed
           a == [t EXCEPT !.status = s, !.dismissed = to]
           scroll == IF request(a) # None THEN 0 ELSE a.scroll
           u == [a EXCEPT !.scroll = scroll]
<1>1. to \in Viewer \cup {None} BY TerminalFields
<1> HIDE DEF to
<1>2. a \in Terminal BY <1>1 DEF Terminal
<1>3. /\ a.status = s /\ a.guard = t.guard /\ a.answered = t.answered /\ a.dismissed = to
  BY DEF Terminal
<1>4. sync_status(t, s) = u BY DEF sync_status, to
<1> HIDE DEF a
<1>5. scroll \in 0 .. Scrollback BY <1>2, TerminalFields, TerminalAssumption
<1> HIDE DEF scroll
<1>6. u \in Terminal BY <1>2, <1>5 DEF Terminal
<1>7. /\ u.status = a.status /\ u.guard = a.guard /\ u.answered = a.answered
      /\ u.dismissed = a.dismissed /\ u.scroll = scroll
  BY <1>2 DEF Terminal
<1> HIDE DEF u
<1>8. request(u) = request(a) BY <1>7 DEF request
<1> QED BY <1>3, <1>4, <1>6, <1>7, <1>8 DEF to, scroll

\* HostTerminal::handle_pty_output
LEMMA DrawTerminal ==
  ASSUME NEW t \in Terminal, NEW screen \in Screen
  PROVE  LET u == handle_pty_output(t, screen)
         IN  /\ u \in Terminal
             /\ u.status = t.status /\ u.guard = t.guard /\ u.answered = t.answered
             /\ u.dismissed = t.dismissed /\ u.scroll \in {t.scroll, 0}
<1> DEFINE scroll == IF screen = "lines" THEN t.scroll ELSE 0
           u == [t EXCEPT !.screen = screen, !.scroll = scroll]
<1>1. scroll \in 0 .. Scrollback BY TerminalFields, TerminalAssumption
<1>2. scroll \in {t.scroll, 0} OBVIOUS
<1> HIDE DEF scroll
<1>3. u \in Terminal BY <1>1 DEF Terminal
<1>4. /\ u.status = t.status /\ u.guard = t.guard /\ u.answered = t.answered
      /\ u.dismissed = t.dismissed /\ u.scroll = scroll
  BY DEF Terminal
<1>5. handle_pty_output(t, screen) = u BY DEF handle_pty_output, scroll
<1> QED BY <1>2, <1>3, <1>4, <1>5

----------------------------------------------------------------------------
(* Which steps change what.                                                *)

ServerActs ==
  \/ \E v \in Viewer, overdue \in BOOLEAN : Ask(v, overdue)
  \/ Withdraw \/ Rebroadcast \/ Poll \/ Decide \/ HostLost \/ HostReplaced \/ SessionEnds
  \/ Connect

LEMMA WhoChanges ==
  ASSUME [Next]_vars
  PROVE  /\ bound' = bound
         /\ \/ \E key \in bound.keys : Press(key)
            \/ Read \/ ReadTimesOut \/ HandleFrame
            \/ UNCHANGED <<unread, pending, frames>>
         /\ HandleFrame \/ SyncStatus \/ ShellDraws \/ term' = term
         /\ SyncStatus \/ rung' = rung
         /\ \/ HandleFrame \/ SendDecisions \/ Drain \/ ReportEnded \/ ReadStatus
            \/ control' = control
         /\ SyncStatus \/ ReportEnded \/ ReadStatus \/ Report \/ statuses' = statuses
         /\ ServerActs \/ ReadStatus \/ Lose \/ down' = down
         /\ ServerActs \/ server' = server
         /\ ServerActs \/ SendDecisions \/ up' = up
         /\ \/ Connect \/ ConnectFails \/ ConnectGone \/ ReportEnded \/ ReadStatus \/ Lose
            \/ Drain \/ Report \/ UNCHANGED <<pc, conn>>
         /\ HandleFrame \/ Decide \/ approved' = approved
<1> USE DEF vars, input, host, network
<1>1. CASE Stdin BY <1>1 DEF Stdin, Press, Read, Reads, ReadTimesOut, HandleFrame
<1>2. CASE SyncStatus BY <1>2 DEF SyncStatus
<1>3. CASE ShellDraws BY <1>3 DEF ShellDraws
<1>4. CASE ServerStep
  <2>1. ServerActs BY <1>4 DEF ServerStep, ServerActs
  <2>2. /\ bound' = bound /\ unread' = unread /\ pending' = pending /\ frames' = frames
        /\ term' = term /\ rung' = rung /\ control' = control /\ statuses' = statuses
        /\ pc' = pc /\ conn' = conn
    BY <1>4 DEF ServerStep, Ask, Withdraw, Rebroadcast, Poll, Decide, HostLost, HostReplaced,
                SessionEnds
  <2>3. Decide \/ approved' = approved
    BY <1>4 DEF ServerStep, Ask, Withdraw, Rebroadcast, Poll, HostLost, HostReplaced,
                SessionEnds
  <2> QED BY <2>1, <2>2, <2>3
<1>5. CASE Transport
  <2>1. CASE Connect BY <2>1 DEF Connect, ServerActs
  <2>2. CASE ~Connect
    <3>1. /\ bound' = bound /\ unread' = unread /\ pending' = pending /\ frames' = frames
          /\ term' = term /\ rung' = rung /\ server' = server /\ approved' = approved
      BY <1>5, <2>2 DEF Transport, ConnectFails, ConnectGone, ReportEnded, SendDecisions,
                        ReadStatus, Lose, Drain, Report
    <3>2. SendDecisions \/ up' = up
      BY <1>5, <2>2 DEF Transport, ConnectFails, ConnectGone, ReportEnded,
                        ReadStatus, Lose, Drain, Report
    <3>3. ReadStatus \/ Lose \/ down' = down
      BY <1>5, <2>2 DEF Transport, ConnectFails, ConnectGone, ReportEnded, SendDecisions,
                        Drain, Report
    <3>4. ReportEnded \/ ReadStatus \/ Report \/ statuses' = statuses
      BY <1>5, <2>2 DEF Transport, ConnectFails, ConnectGone, SendDecisions, Lose, Drain
    <3>5. SendDecisions \/ Drain \/ ReportEnded \/ ReadStatus \/ control' = control
      BY <1>5, <2>2 DEF Transport, ConnectFails, ConnectGone, Lose, Report
    <3>6. \/ ConnectFails \/ ConnectGone \/ ReportEnded \/ ReadStatus \/ Lose
          \/ Drain \/ Report \/ UNCHANGED <<pc, conn>>
      BY <1>5, <2>2 DEF Transport, SendDecisions
    <3> QED BY <3>1, <3>2, <3>3, <3>4, <3>5, <3>6
  <2> QED BY <2>1, <2>2
<1>6. CASE UNCHANGED vars BY <1>6
<1> QED BY <1>1, <1>2, <1>3, <1>4, <1>5, <1>6 DEF Next

----------------------------------------------------------------------------
(* The types.                                                              *)

\* What may be among the statuses: requests there have been.
StatusIn(b) == {s \in SessionStatus : s.pending # None => s.pending.n \in DOMAIN b.askers}

ServerIn(b) ==
  {s \in Server : /\ s.pending # None => s.pending.n \in DOMAIN b.askers
                  /\ ~s.told => s.pending = None}

\* The decisions an answer of the host may make.
Answer ==
  {d \in Decision : d.kind = "approve" => d.key \in {"y", "allow", "keypad", "long"}}

LEMMA BoundFields ==
  ASSUME NEW b \in Bounds
  PROVE  /\ b.keys \subseteq DOMAIN Keystroke
         /\ b.askers \in Seq(SUBSET Viewer)
         /\ DOMAIN b.askers \subseteq Nat \ {0}
         /\ b.connections \in Nat
<1>1. /\ b.keys \subseteq DOMAIN Keystroke /\ b.askers \in Seq(SUBSET Viewer)
      /\ b.connections \in Nat
  BY PathAssumption
<1>2. DOMAIN b.askers = 1 .. Len(b.askers) BY <1>1
<1> QED BY <1>1, <1>2

LEMMA ServerFields ==
  ASSUME NEW s \in Server
  PROVE  /\ s.host \in Nat /\ s.pending \in Request \cup {None}
         /\ s.controller \in Viewer \cup {None} /\ s.over \in BOOLEAN
         /\ s.asked \in Nat /\ s.silent \subseteq Nat /\ s.told \in BOOLEAN
BY DEF Server

LEMMA StatusOfType ==
  ASSUME NEW b \in Bounds, NEW s \in ServerIn(b)
  PROVE  statusOf(s) \in StatusIn(b) /\ statusOf(s).pending = s.pending
<1>1. s \in Server /\ (s.pending # None => s.pending.n \in DOMAIN b.askers) BY DEF ServerIn
<1> DEFINE r == [ connected |-> TRUE, ended |-> FALSE, controller |-> s.controller,
                  pending |-> s.pending, conn |-> s.host ]
<1>2. r \in SessionStatus BY <1>1, ServerFields DEF SessionStatus
<1>3. r.pending = s.pending OBVIOUS
<1>4. statusOf(s) = r BY DEF statusOf
<1> HIDE DEF r
<1> QED BY <1>1, <1>2, <1>3, <1>4 DEF StatusIn

LEMMA PlainStatuses ==
  ASSUME NEW b
  PROVE  /\ Disconnected \in StatusIn(b) /\ Ended \in StatusIn(b)
         /\ Disconnected.pending = None /\ Ended.pending = None
<1>1. Disconnected \in SessionStatus /\ Disconnected.pending = None
  BY DEF Disconnected, SessionStatus
<1>2. Ended \in SessionStatus /\ Ended.pending = None
  BY <1>1 DEF Ended, Disconnected, SessionStatus
<1> QED BY <1>1, <1>2 DEF StatusIn

\* Broadcast of the record s.
LEMMA BroadcastFields ==
  ASSUME NEW b \in Bounds, NEW s \in Server, s.pending # None => s.pending.n \in DOMAIN b.askers,
         Broadcast(s)
  PROVE  /\ server' \in ServerIn(b)
         /\ server'.host = s.host /\ server'.pending = s.pending
         /\ server'.controller = s.controller /\ server'.asked = s.asked
         /\ server'.silent = s.silent /\ server'.told
         /\ statusOf(s) = statusOf(server')
         /\ down' = IF server.host # 0 THEN Append(down, statusOf(server')) ELSE down
<1> DEFINE x == [s EXCEPT !.told = TRUE]
<1>1. x \in Server BY DEF Server
<1>2. /\ x.host = s.host /\ x.pending = s.pending /\ x.controller = s.controller
      /\ x.asked = s.asked /\ x.silent = s.silent /\ x.told
  BY DEF Server
<1>3. server' = x /\ down' = IF server.host # 0 THEN Append(down, statusOf(s)) ELSE down
  BY DEF Broadcast
<1> HIDE DEF x
<1>4. statusOf(s) = statusOf(x) BY <1>2 DEF statusOf
<1> QED BY <1>1, <1>2, <1>3, <1>4 DEF ServerIn

\* A change of the server's request that its host is told of: s is the status it is sent.
Tells(s) ==
  /\ down' = Append(down, s)
  /\ server'.host # 0 => s.pending = server'.pending
  /\ \/ s.pending = None \/ (s.pending = server.pending /\ server.told)
     \/ /\ s.pending.n = server.asked + 1 /\ server'.asked = s.pending.n
        /\ (server.told /\ server.pending = None) \/ s.pending.n \in server'.silent

Quiet ==
  /\ down' = down
  /\ server'.host # 0 /\ server'.told => server.told /\ server'.pending = server.pending

\* What the server does, between two connections of the host.
ServerFacts(b) ==
  /\ server' \in ServerIn(b)
  /\ server.asked <= server'.asked /\ server.silent \subseteq server'.silent
  /\ server'.host \in {server.host, 0}
  /\ Quiet \/ (server.host # 0 /\ \E s \in StatusIn(b) : Tells(s))

LEMMA BroadcastFacts ==
  ASSUME NEW b \in Bounds, server \in ServerIn(b), NEW s \in Server, Broadcast(s),
         s.host = server.host, s.asked = server.asked, s.silent = server.silent,
         s.pending \in {None, server.pending}
  PROVE  ServerFacts(b)
<1>1. server \in Server /\ (server.pending # None => server.pending.n \in DOMAIN b.askers)
      /\ (~server.told => server.pending = None)
  BY DEF ServerIn
<1>2. s.pending # None => s.pending.n \in DOMAIN b.askers BY <1>1
<1>3. /\ server' \in ServerIn(b)
      /\ server'.host = s.host /\ server'.pending = s.pending
      /\ server'.asked = s.asked /\ server'.silent = s.silent /\ server'.told
      /\ down' = IF server.host # 0 THEN Append(down, statusOf(server')) ELSE down
  BY <1>2, BroadcastFields
<1>4. server.asked \in Nat BY <1>1, ServerFields
<1>5. CASE server.host = 0 BY <1>3, <1>4, <1>5 DEF ServerFacts, Quiet
<1>6. CASE server.host # 0
  <2>1. statusOf(server') \in StatusIn(b) /\ statusOf(server').pending = server'.pending
    BY <1>3, StatusOfType
  <2> DEFINE st == statusOf(server')
  <2> HIDE DEF st
  <2>2. down' = Append(down, st) BY <1>3, <1>6 DEF st
  <2>3. st.pending = server'.pending BY <2>1 DEF st
  <2>4. st.pending = None \/ (st.pending = server.pending /\ server.told) BY <1>1, <1>3, <2>3
  <2>5. Tells(st) BY <2>2, <2>3, <2>4 DEF Tells
  <2> QED BY <1>3, <1>4, <1>6, <2>1, <2>5 DEF ServerFacts, st
<1> QED BY <1>5, <1>6

LEMMA WithoutFields ==
  ASSUME NEW b, NEW s \in Server
  PROVE  /\ Without(s) \in ServerIn(b)
         /\ Without(s).host = 0 /\ Without(s).controller = None
         /\ Without(s).asked = s.asked /\ Without(s).silent = s.silent
<1> DEFINE x == [s EXCEPT !.host = 0, !.pending = None, !.controller = None, !.told = TRUE]
<1>1. x \in Server BY DEF Server
<1>2. /\ x.host = 0 /\ x.controller = None /\ x.asked = s.asked /\ x.silent = s.silent
      /\ x.pending = None /\ x.told
  BY DEF Server
<1>3. Without(s) = x BY DEF Without
<1> HIDE DEF x
<1> QED BY <1>1, <1>2, <1>3 DEF ServerIn

LEMMA LapsedFields ==
  ASSUME NEW b, NEW s \in Server
  PROVE  /\ Lapsed(s) \in ServerIn(b)
         /\ Lapsed(s).host = s.host /\ Lapsed(s).controller = s.controller
         /\ Lapsed(s).asked = s.asked /\ Lapsed(s).silent = s.silent
         /\ Lapsed(s).pending = None
         /\ Lapsed(s).told => s.told /\ s.pending = None
<1> DEFINE told == s.told /\ s.pending = None
           x == [s EXCEPT !.pending = None, !.told = told]
<1>0. told \in BOOLEAN BY DEF Server
<1>1. Lapsed(s) = x BY DEF Lapsed
<1> HIDE DEF told
<1>2. x \in Server BY <1>0 DEF Server
<1>3. /\ x.host = s.host /\ x.controller = s.controller /\ x.asked = s.asked
      /\ x.silent = s.silent /\ x.pending = None /\ x.told = told
  BY <1>0 DEF Server
<1> HIDE DEF x
<1> QED BY <1>1, <1>2, <1>3 DEF ServerIn, told

LEMMA GrantedFields ==
  ASSUME NEW s \in Server, NEW d \in Decision
  PROVE  LET x == granted(s, d)
         IN  /\ x \in Server
             /\ x.host = s.host /\ x.asked = s.asked /\ x.silent = s.silent
             /\ x.pending \in {None, s.pending}
             /\ \/ x.controller \in {None, s.controller}
                \/ d.kind = "approve" /\ x.controller = d.viewer
<1> DEFINE x == granted(s, d)
<1>1. CASE d.kind = "revoke"
  <2>1. x = [s EXCEPT !.controller = None] BY <1>1 DEF granted
  <2> QED BY <2>1 DEF Server
<1>2. CASE d.kind # "revoke" /\ s.pending # None /\ s.pending.viewer = d.viewer
  <2> DEFINE to == IF d.kind = "approve" THEN d.viewer ELSE s.controller
  <2>1. x = [s EXCEPT !.pending = None, !.controller = to] BY <1>2 DEF granted
  <2>2. to \in Viewer \cup {None} BY DEF Server, Decision
  <2>3. to = s.controller \/ (d.kind = "approve" /\ to = d.viewer) OBVIOUS
  <2> HIDE DEF to
  <2> QED BY <2>1, <2>2, <2>3 DEF Server
<1>3. CASE ~(d.kind = "revoke" \/ (s.pending # None /\ s.pending.viewer = d.viewer))
  <2>1. x = s BY <1>3 DEF granted
  <2> QED BY <2>1
<1> QED BY <1>1, <1>2, <1>3

LEMMA AskFacts ==
  ASSUME bound \in Bounds, server \in ServerIn(bound), NEW v \in Viewer, NEW overdue \in BOOLEAN,
         Ask(v, overdue)
  PROVE  ServerFacts(bound) /\ server'.controller = None
<1> DEFINE s == IF overdue THEN Lapsed(server) ELSE server
           n == server.asked + 1
           r == [viewer |-> v, n |-> n]
           silent == IF s.told THEN s.silent ELSE s.silent \cup {n}
           x == [s EXCEPT !.pending = r, !.asked = n, !.silent = silent]
<1>1. /\ server.host # 0 /\ n \in DOMAIN bound.askers
      /\ overdue => server.pending # None
      /\ s.controller = None /\ s.pending = None
      /\ Broadcast(x)
  BY DEF Ask
<1>2. server \in Server /\ server.asked \in Nat /\ server.silent \subseteq Nat
  BY ServerFields DEF ServerIn
<1>3. /\ s \in Server /\ s.host = server.host /\ s.silent = server.silent
      /\ s.asked = server.asked /\ (s.told => server.told /\ server.pending = None)
  <2>1. CASE overdue
    <3>1. s = Lapsed(server) BY <2>1
    <3> HIDE DEF s
    <3>2. /\ Lapsed(server) \in ServerIn(bound)
          /\ Lapsed(server).host = server.host /\ Lapsed(server).asked = server.asked
          /\ Lapsed(server).silent = server.silent
          /\ Lapsed(server).told => server.told /\ server.pending = None
      BY <1>2, LapsedFields
    <3>3. Lapsed(server) \in Server BY <3>2 DEF ServerIn
    <3> QED BY <3>1, <3>2, <3>3
  <2>2. CASE ~overdue
    <3>1. s = server BY <2>2
    <3>2. s.pending = None BY <1>1
    <3> HIDE DEF s
    <3> QED BY <1>2, <3>1, <3>2
  <2> QED BY <2>1, <2>2
<1> HIDE DEF s
<1>4. n \in Nat \ {0} /\ server.asked <= n /\ r \in Request /\ r.n = n BY <1>2 DEF Request
<1> HIDE DEF r
<1>5. /\ silent \in SUBSET Nat /\ server.silent \subseteq silent
      /\ (server.told /\ server.pending = None) \/ n \in silent
  BY <1>2, <1>3, <1>4
<1> HIDE DEF silent
<1> HIDE DEF n
<1>6. x \in Server BY <1>3, <1>4, <1>5 DEF Server
<1>7. /\ x.host = s.host /\ x.pending = r /\ x.controller = s.controller
      /\ x.asked = n /\ x.silent = silent
  BY <1>3 DEF Server
<1>8. Broadcast(x) BY <1>1
<1> HIDE DEF x
<1>9. /\ server' \in ServerIn(bound)
      /\ server'.host = x.host /\ server'.pending = x.pending
      /\ server'.controller = x.controller /\ server'.asked = x.asked
      /\ server'.silent = x.silent
      /\ down' = IF server.host # 0 THEN Append(down, statusOf(server')) ELSE down
  BY <1>1, <1>4, <1>6, <1>7, <1>8, BroadcastFields
<1> DEFINE st == statusOf(server')
<1>10. st \in StatusIn(bound) /\ st.pending = server'.pending BY <1>9, StatusOfType
<1> HIDE DEF st
<1>11. down' = Append(down, st) BY <1>1, <1>9 DEF st
<1>12. /\ st.pending.n = server.asked + 1 /\ server'.asked = st.pending.n
       /\ (server.told /\ server.pending = None) \/ st.pending.n \in server'.silent
  BY <1>4, <1>5, <1>7, <1>9, <1>10 DEF n
<1>13. Tells(st) BY <1>10, <1>11, <1>12 DEF Tells
<1> QED BY <1>1, <1>3, <1>4, <1>5, <1>7, <1>9, <1>10, <1>13 DEF ServerFacts

\* The server's record without a request, and nobody told.
LEMMA PollFacts ==
  ASSUME bound \in Bounds, server \in ServerIn(bound), Poll
  PROVE  ServerFacts(bound) /\ server'.controller = server.controller
<1>1. server \in Server /\ server.asked \in Nat BY ServerFields DEF ServerIn
<1>2. server' = Lapsed(server) /\ down' = down /\ server.pending # None BY DEF Poll, network
<1>3. /\ server' \in ServerIn(bound)
      /\ server'.host = server.host /\ server'.controller = server.controller
      /\ server'.asked = server.asked /\ server'.silent = server.silent
      /\ server'.told => server.told /\ server.pending = None
  BY <1>1, <1>2, LapsedFields
<1> QED BY <1>1, <1>2, <1>3 DEF ServerFacts, Quiet

\* The host's connection is given up: without a word, or with a last status.
LEMMA WithoutFacts ==
  ASSUME bound \in Bounds, server \in ServerIn(bound),
         NEW s \in Server, s.asked = server.asked, s.silent = server.silent,
         server' = Without(s), down' = down \/ (server.host # 0 /\ down' = Append(down, Ended))
  PROVE  ServerFacts(bound) /\ server'.controller = None
<1>1. server.asked \in Nat BY ServerFields DEF ServerIn
<1>2. /\ server' \in ServerIn(bound)
      /\ server'.host = 0 /\ server'.controller = None
      /\ server'.asked = server.asked /\ server'.silent = server.silent
  BY WithoutFields
<1>3. CASE down' = down BY <1>1, <1>2, <1>3 DEF ServerFacts, Quiet
<1>4. CASE server.host # 0 /\ down' = Append(down, Ended)
  <2>1. Ended \in StatusIn(bound) /\ Ended.pending = None BY PlainStatuses
  <2>2. Tells(Ended) BY <1>2, <1>4, <2>1 DEF Tells
  <2> QED BY <1>1, <1>2, <1>4, <2>1, <2>2 DEF ServerFacts
<1> QED BY <1>3, <1>4

LEMMA ServerStepFacts ==
  ASSUME bound \in Bounds, server \in ServerIn(bound), up \in Seq(Answer),
         ServerActs, ~Connect
  PROVE  /\ ServerFacts(bound)
         /\ \/ server'.controller \in {None, server.controller}
            \/ Decide /\ Head(up).kind = "approve" /\ server'.controller = Head(up).viewer
<1>1. server \in Server BY DEF ServerIn
<1>2. CASE \E v \in Viewer, overdue \in BOOLEAN : Ask(v, overdue) BY <1>2, AskFacts
<1>3. CASE Withdraw
  <2> DEFINE x == [server EXCEPT !.pending = None, !.controller = None]
  <2>1. x \in Server BY <1>1 DEF Server
  <2>2. /\ x.host = server.host /\ x.asked = server.asked /\ x.silent = server.silent
        /\ x.pending = None /\ x.controller = None
    BY <1>1 DEF Server
  <2>3. Broadcast(x) BY <1>3 DEF Withdraw
  <2> HIDE DEF x
  <2>4. ServerFacts(bound) BY <2>1, <2>2, <2>3, BroadcastFacts
  <2>5. server'.controller = x.controller BY <2>1, <2>2, <2>3, BroadcastFields
  <2> QED BY <2>2, <2>4, <2>5
<1>4. CASE Rebroadcast
  <2>1. Broadcast(server) BY <1>4 DEF Rebroadcast
  <2>2. ServerFacts(bound) BY <1>1, <2>1, BroadcastFacts
  <2>3. server'.controller = server.controller BY <1>1, <2>1, BroadcastFields DEF ServerIn
  <2> QED BY <2>2, <2>3
<1>5. CASE Poll BY <1>5, PollFacts
<1>6. CASE Decide
  <2> DEFINE d == Head(up)
             x == granted(server, d)
  <2>1. up # <<>> /\ (IF x = server THEN UNCHANGED <<server, down>> ELSE Broadcast(x))
    BY <1>6 DEF Decide
  <2>2. d \in Decision BY <2>1 DEF Answer
  <2>3. /\ x \in Server
        /\ x.host = server.host /\ x.asked = server.asked /\ x.silent = server.silent
        /\ x.pending \in {None, server.pending}
        /\ \/ x.controller \in {None, server.controller}
           \/ d.kind = "approve" /\ x.controller = d.viewer
    BY <1>1, <2>2, GrantedFields
  <2> HIDE DEF x, d
  <2>4. CASE x = server /\ UNCHANGED <<server, down>>
    <3>1. server.asked \in Nat BY <1>1, ServerFields
    <3> QED BY <2>4, <3>1 DEF ServerFacts, Quiet
  <2>5. CASE Broadcast(x)
    <3>1. ServerFacts(bound) BY <2>3, <2>5, BroadcastFacts
    <3>2. x.pending # None => x.pending.n \in DOMAIN bound.askers BY <2>3 DEF ServerIn
    <3>3. server'.controller = x.controller BY <2>3, <2>5, <3>2, BroadcastFields
    <3> QED BY <1>6, <2>3, <3>1, <3>3 DEF d
  <2> QED BY <2>1, <2>4, <2>5
<1>7. CASE HostLost
  <2>1. server' = Without(server) /\ down' = down BY <1>7 DEF HostLost
  <2> QED BY <1>1, <2>1, WithoutFacts
<1>8. CASE HostReplaced
  <2>1. server' = Without(server) /\ server.host # 0 /\ down' = Append(down, Ended)
    BY <1>8 DEF HostReplaced
  <2> QED BY <1>1, <2>1, WithoutFacts
<1>9. CASE SessionEnds
  <2> DEFINE x == [server EXCEPT !.over = TRUE]
             y == [Without(server) EXCEPT !.over = TRUE]
  <2>1. server' = y /\ down' = (IF server.host # 0 THEN Append(down, Ended) ELSE down)
    BY <1>9 DEF SessionEnds
  <2>2. x \in Server /\ x.asked = server.asked /\ x.silent = server.silent BY <1>1 DEF Server
  <2>3. y = Without(x) BY <1>1 DEF Without, Server
  <2> HIDE DEF x, y
  <2> QED BY <2>1, <2>2, <2>3, WithoutFacts
<1> QED BY <1>2, <1>3, <1>4, <1>5, <1>6, <1>7, <1>8, <1>9 DEF ServerActs

\* A new connection.
LEMMA ConnectFacts ==
  ASSUME bound \in Bounds, server \in ServerIn(bound), conn \in Nat, Connect
  PROVE  /\ server' \in ServerIn(bound)
         /\ server'.host = conn + 1 /\ server'.controller = None /\ server'.told
         /\ server'.pending = None
         /\ server'.asked = server.asked /\ server'.silent = server.silent
         /\ down' = <<statusOf(server')>>
<1> DEFINE k == conn + 1
           x == [server EXCEPT !.host = k, !.pending = None, !.controller = None,
                               !.told = TRUE]
<1>1. server \in Server /\ k \in Nat BY DEF ServerIn
<1> HIDE DEF k
<1>2. x \in Server BY <1>1 DEF Server
<1>3. /\ x.host = k /\ x.controller = None /\ x.told /\ x.pending = None
      /\ x.asked = server.asked /\ x.silent = server.silent
  BY <1>1 DEF Server
<1>4. server' = x /\ down' = <<statusOf(server')>> BY DEF Connect, k
<1> HIDE DEF x
<1> QED BY <1>2, <1>3, <1>4 DEF ServerIn, k

----------------------------------------------------------------------------
(* The types are invariant.  What the host types is part of them: the       *)
(* frames, the bytes kept back and the unread bytes are a path through the  *)
(* keystrokes that begins where the guard has got to.                       *)

InputOK ==
  /\ unread \in Seq(Byte) /\ pending \in Seq(Byte) /\ frames \in Seq(Frames)
  /\ \A i \in DOMAIN unread : unread[i].key \in bound.keys
  /\ Len(pending) < MaxFrame

Typing ==
  \E c, d, e, f \in Place :
    /\ GuardAt(term.guard, c)
    /\ Path(Framed, c, frames, d)
    /\ Path(Typed, d, pending, e)
    /\ Path(Typed, e, unread, f)
    /\ Between(f)

TermOK == term \in Terminal /\ term.status \in StatusIn(bound)

DecisionsOK ==
  /\ control \in Seq(Answer) /\ up \in Seq(Answer)
  /\ Len(control) <= ControlCapacity

StatusesOK ==
  /\ statuses \in Seq(StatusIn(bound)) /\ down \in Seq(StatusIn(bound))
  /\ Len(statuses) <= StatusCapacity

NetworkOK ==
  /\ pc \in {"connect", "run", "drain", "report", "gone", "done"}
  /\ conn \in 0 .. bound.connections

CountsOK == approved \in [Viewer -> Int] /\ rung \in [DOMAIN bound.askers -> Nat]

Types ==
  /\ bound \in Bounds
  /\ InputOK /\ Typing /\ TermOK
  /\ DecisionsOK /\ StatusesOK
  /\ server \in ServerIn(bound) /\ NetworkOK /\ CountsOK

LEMMA InitTypes == Init => Types
<1> SUFFICES ASSUME Init PROVE Types OBVIOUS
<1>1. bound \in Bounds BY DEF Init
<1>2. InputOK
  <2>1. unread = <<>> /\ pending = <<>> /\ frames = <<>> BY DEF Init
  <2>2. /\ <<>> \in Seq(Byte) /\ <<>> \in Seq(Frames) /\ Len(<<>>) = 0
        /\ \A i \in DOMAIN <<>> : FALSE
    OBVIOUS
  <2> QED BY <2>1, <2>2, MaxFrameAssumption DEF InputOK
<1>3. NoGuard \in Guard
  <2>1. <<>> \in Seq(Code) OBVIOUS
  <2> QED BY <2>1 DEF NoGuard, Guard
<1>4. Disconnected \in SessionStatus /\ Disconnected \in StatusIn(bound)
  BY PlainStatuses DEF StatusIn
<1>5. TermOK
  <2> DEFINE t == [ status |-> Disconnected, dismissed |-> None, answered |-> 0,
                    guard |-> NoGuard, screen |-> "lines", scroll |-> 0 ]
  <2>1. 0 \in 0 .. Scrollback BY TerminalAssumption
  <2>2. t \in Terminal BY <1>3, <1>4, <2>1 DEF Terminal, Guard, Screen
  <2>3. t.status = Disconnected OBVIOUS
  <2>4. term = t BY DEF Init, new
  <2> HIDE DEF t
  <2> QED BY <1>4, <2>2, <2>3, <2>4 DEF TermOK
<1>6. Typing
  <2> DEFINE c == [key |-> "y", at |-> 1]
  <2>1. c \in Place /\ Between(c) /\ c.key # "paste" BY DEF Place, Between, Keystroke
  <2>2. frames = <<>> /\ pending = <<>> /\ unread = <<>> BY DEF Init
  <2>3. term.guard = NoGuard BY DEF Init, new
  <2> HIDE DEF c
  <2>4. GuardAt(term.guard, c) BY <1>3, <2>1, <2>3 DEF GuardAt
  <2>5. Path(Framed, c, <<>>, c) /\ Path(Typed, c, <<>>, c) BY PathEmpty
  <2>6. Path(Framed, c, frames, c) /\ Path(Typed, c, pending, c) /\ Path(Typed, c, unread, c)
    BY ONLY <2>2, <2>5
  <2> QED BY <2>1, <2>4, <2>6 DEF Typing
<1>7. DecisionsOK
  <2>1. control = <<>> /\ up = <<>> BY DEF Init
  <2>2. <<>> \in Seq(Answer) /\ Len(<<>>) = 0 OBVIOUS
  <2> QED BY <2>1, <2>2, PathAssumption DEF DecisionsOK
<1>8. StatusesOK
  <2>1. statuses = <<>> /\ down = <<>> BY DEF Init
  <2>2. <<>> \in Seq(StatusIn(bound)) /\ Len(<<>>) = 0 OBVIOUS
  <2> QED BY <2>1, <2>2, PathAssumption DEF StatusesOK
<1>9. server \in ServerIn(bound)
  <2> DEFINE s == [ host |-> 0, pending |-> None, controller |-> None, over |-> FALSE,
                    asked |-> 0, silent |-> {}, told |-> TRUE ]
  <2>1. s \in Server BY DEF Server
  <2>2. s.pending = None OBVIOUS
  <2>3. server = s BY DEF Init
  <2> HIDE DEF s
  <2> QED BY <2>1, <2>2, <2>3 DEF ServerIn
<1>10. NetworkOK BY <1>1, BoundFields DEF Init, NetworkOK
<1>11. CountsOK BY DEF Init, CountsOK
<1> QED BY <1>1, <1>2, <1>5, <1>6, <1>7, <1>8, <1>9, <1>10, <1>11 DEF Types

\* What the host types, through the steps of stdin_loop.
LEMMA TypingSteps ==
  ASSUME Types, [Next]_vars
  PROVE  InputOK' /\ Typing'
<1>1. bound \in Bounds /\ bound' = bound /\ InputOK /\ Typing /\ TermOK BY WhoChanges DEF Types
<1>2. PICK c \in Place, d \in Place, e \in Place, f \in Place :
        /\ GuardAt(term.guard, c)
        /\ Path(Framed, c, frames, d)
        /\ Path(Typed, d, pending, e)
        /\ Path(Typed, e, unread, f)
        /\ Between(f)
  BY <1>1 DEF Typing
<1>3. /\ unread \in Seq(Byte) /\ pending \in Seq(Byte) /\ frames \in Seq(Frames)
      /\ \A i \in DOMAIN unread : unread[i].key \in bound.keys
      /\ Len(pending) < MaxFrame
  BY <1>1 DEF InputOK
<1>4. CASE \E key \in bound.keys : Press(key)
  <2>1. PICK key \in bound.keys : Press(key) BY <1>4
  <2>2. key \in DOMAIN Keystroke BY <1>1, BoundFields
  <2>3. /\ unread' = unread \o bytesOf(key) /\ pending' = pending /\ frames' = frames
        /\ term' = term
    BY <2>1 DEF Press, host
  <2>4. /\ bytesOf(key) \in Seq(Byte)
        /\ \A i \in DOMAIN bytesOf(key) : bytesOf(key)[i].key = key
    BY <1>2, <2>2, PressPath
  <2>5. PICK h \in Place : Between(h) /\ Path(Typed, f, bytesOf(key), h)
    BY <1>2, <2>2, PressPath
  <2>6. Path(Typed, e, unread \o bytesOf(key), h) BY <1>2, <1>3, <2>4, <2>5, PathConcat
  <2>7. unread' \in Seq(Byte) BY <1>3, <2>3, <2>4, ConcatProperties
  <2>8. ASSUME NEW i \in DOMAIN unread' PROVE unread'[i].key \in bound.keys
    <3>1. /\ Len(unread') = Len(unread) + Len(bytesOf(key))
          /\ \A j \in 1 .. Len(unread) + Len(bytesOf(key)) :
               unread'[j] = IF j <= Len(unread) THEN unread[j]
                            ELSE bytesOf(key)[j - Len(unread)]
      BY <1>3, <2>3, <2>4, ConcatProperties
    <3>2. Len(unread) \in Nat /\ Len(bytesOf(key)) \in Nat BY <1>3, <2>4
    <3>3. i \in 1 .. Len(unread) + Len(bytesOf(key)) BY <2>7, <3>1
    <3>4. CASE i <= Len(unread)
      <4>1. i \in DOMAIN unread /\ unread'[i] = unread[i] BY <1>3, <3>1, <3>3, <3>4
      <4> QED BY <1>3, <4>1
    <3>5. CASE ~(i <= Len(unread))
      <4>1. i - Len(unread) \in 1 .. Len(bytesOf(key)) BY <3>2, <3>3, <3>5
      <4>2. i - Len(unread) \in DOMAIN bytesOf(key) BY <2>4, <4>1
      <4>3. unread'[i] = bytesOf(key)[i - Len(unread)] BY <3>1, <3>3, <3>5
      <4> QED BY <2>4, <4>2, <4>3
    <3> QED BY <3>4, <3>5
  <2>9. InputOK' BY <1>1, <1>3, <2>3, <2>7, <2>8 DEF InputOK
  <2>10. Typing' BY <1>2, <2>3, <2>5, <2>6 DEF Typing
  <2> QED BY <2>9, <2>10
<1>5. CASE Read
  <2>1. PICK k \in 1 .. Len(unread) : unread' = SubSeq(unread, k + 1, Len(unread))
    BY <1>5 DEF Read, Reads
  <2> DEFINE r == Len(unread) - Len(unread')
             bytes == SubSeq(unread, 1, r)
             fed == feed(pending, bytes)
  <2>2. /\ frames = <<>> /\ frames' = fed.frames /\ pending' = fed.pending /\ term' = term
    BY <1>5 DEF Read, Reads, host
  <2>3. k \in 0 .. Len(unread) /\ k \in Nat /\ Len(unread) \in Nat BY <1>3
  <2>4. /\ unread' \in Seq(Byte) /\ Len(unread') = Len(unread) - k
        /\ \A i \in 1 .. Len(unread) - k : unread'[i] = unread[k + i]
    <3> DEFINE s == SubSeq(unread, k + 1, Len(unread))
    <3>1. /\ s \in Seq(Byte)
          /\ Len(s) = IF k + 1 <= Len(unread) THEN Len(unread) - (k + 1) + 1 ELSE 0
          /\ \A i \in 1 .. Len(unread) - (k + 1) + 1 : s[i] = unread[(k + 1) + i - 1]
      <4>1. k + 1 \in 1 .. Len(unread) + 1 /\ Len(unread) \in (k + 1) - 1 .. Len(unread)
        BY <2>3
      <4> QED BY <1>3, <4>1, SubSeqProperties
    <3>2. Len(unread) - (k + 1) + 1 = Len(unread) - k BY <2>3
    <3>3. Len(s) = Len(unread) - k BY <2>3, <3>1
    <3>4. \A i \in 1 .. Len(unread) - k : s[i] = unread[k + i]
      <4> TAKE i \in 1 .. Len(unread) - k
      <4>1. (k + 1) + i - 1 = k + i BY <2>3
      <4> QED BY <3>1, <3>2, <4>1
    <3> QED BY <2>1, <3>1, <3>3, <3>4
  <2>5. r = k BY <2>3, <2>4
  <2>6. PICK m : Path(Typed, e, SubSeq(unread, 1, k), m)
                 /\ Path(Typed, m, SubSeq(unread, k + 1, Len(unread)), f)
    BY <1>2, <1>3, <2>3, PathSplit
  <2>7. Path(Typed, e, bytes, m) /\ Path(Typed, m, unread', f) BY ONLY <2>1, <2>5, <2>6
  <2>8. bytes \in Seq(Byte)
    <3>1. k \in 1 - 1 .. Len(unread) /\ 1 \in 1 .. Len(unread) + 1 BY <2>3
    <3>2. SubSeq(unread, 1, k) \in Seq(Byte) BY <1>3, <3>1, SubSeqProperties
    <3> QED BY <2>5, <3>2
  <2> HIDE DEF r, bytes
  <2>9. m \in Place BY <1>2, <2>7, <2>8, PlacesOf
  <2>10. /\ fed.frames \in Seq(Frames) /\ fed.pending \in Seq(Byte)
         /\ Len(fed.pending) < MaxFrame
         /\ \E g \in Place : /\ Path(Framed, d, fed.frames, g)
                             /\ Path(Typed, g, fed.pending, m)
    BY <1>2, <1>3, <2>7, <2>8, <2>9, FeedKeeps
  <2>11. c = d
    <3>1. Path(Framed, c, <<>>, d) BY ONLY <1>2, <2>2
    <3> QED BY <3>1, PathEmpty
  <2>12. ASSUME NEW i \in DOMAIN unread' PROVE unread'[i].key \in bound.keys
    <3>1. i \in 1 .. Len(unread) - k BY <2>3, <2>4
    <3>2. k + i \in 1 .. Len(unread) BY <2>3, <3>1
    <3>3. k + i \in DOMAIN unread BY <1>3, <3>2
    <3> QED BY <1>3, <2>4, <3>1, <3>3
  <2> HIDE DEF fed
  <2>13. InputOK' BY <1>1, <2>2, <2>4, <2>10, <2>12 DEF InputOK
  <2>14. Typing' BY <1>2, <2>2, <2>7, <2>9, <2>10, <2>11 DEF Typing
  <2> QED BY <2>13, <2>14
<1>6. CASE ReadTimesOut
  <2> DEFINE flushed == flush_key(pending)
  <2>1. /\ frames = <<>> /\ frames' = flushed.frames /\ pending' = flushed.pending
        /\ unread' = unread /\ term' = term
    BY <1>6 DEF ReadTimesOut, host
  <2>2. c = d
    <3>1. Path(Framed, c, <<>>, d) BY ONLY <1>2, <2>1
    <3> QED BY <3>1, PathEmpty
  <2>3. /\ flushed.frames \in Seq(Frames) /\ flushed.pending \in Seq(Byte)
        /\ Len(flushed.pending) < MaxFrame
        /\ \E g \in Place : /\ Path(Framed, d, flushed.frames, g)
                            /\ Path(Typed, g, flushed.pending, e)
    BY <1>2, <1>3, FlushKeeps
  <2> HIDE DEF flushed
  <2>4. InputOK' BY <1>1, <1>3, <2>1, <2>3 DEF InputOK
  <2>5. Typing' BY <1>2, <2>1, <2>2, <2>3 DEF Typing
  <2> QED BY <2>4, <2>5
<1>7. CASE HandleFrame
  <2> DEFINE h == handle_input(term, Head(frames))
  <2>1. /\ frames # <<>> /\ frames' = Tail(frames) /\ pending' = pending /\ unread' = unread
        /\ term' = h.term
    BY <1>7 DEF HandleFrame
  <2>2. PICK g : <<c, Head(frames), g>> \in Framed /\ Path(Framed, g, Tail(frames), d)
    BY <1>2, <1>3, <2>1, PathHead
  <2>3. g \in Place /\ Head(frames) \in Frames /\ Path(Typed, c, Head(frames), g)
    BY <2>2, FramedSteps
  <2>4. GuardAt(h.term.guard, g)
    <3>1. term \in Terminal BY <1>1 DEF TermOK
    <3> QED BY <1>2, <2>3, <3>1, HandleInput
  <2> HIDE DEF h
  <2>5. frames' \in Seq(Frames) BY <1>3, <2>1
  <2>6. InputOK' BY <1>1, <1>3, <2>1, <2>5 DEF InputOK
  <2>7. Path(Framed, g, frames', d) BY <2>1, <2>2
  <2>8. Typing' BY <1>2, <2>1, <2>3, <2>4, <2>7 DEF Typing
  <2> QED BY <2>6, <2>8
<1>8. CASE UNCHANGED <<unread, pending, frames>> /\ ~HandleFrame
  <2>1. InputOK' BY <1>1, <1>3, <1>8 DEF InputOK
  <2>2. term'.guard = term.guard
    <3>1. term \in Terminal /\ (SyncStatus \/ ShellDraws \/ term' = term)
      BY <1>1, <1>8, WhoChanges DEF TermOK
    <3>2. CASE SyncStatus
      <4>1. statuses # <<>> /\ term' = sync_status(term, Head(statuses))
        BY <3>2 DEF SyncStatus
      <4>2. Head(statuses) \in SessionStatus BY <4>1 DEF Types, StatusesOK, StatusIn
      <4> QED BY <3>1, <4>1, <4>2, SyncTerminal
    <3>3. CASE ShellDraws
      <4>1. PICK screen \in Screen : term' = handle_pty_output(term, screen)
        BY <3>3 DEF ShellDraws
      <4> QED BY <3>1, <4>1, DrawTerminal
    <3> QED BY <3>1, <3>2, <3>3
  <2>3. Typing' BY <1>2, <1>8, <2>2 DEF Typing
  <2> QED BY <2>1, <2>3
<1> QED BY <1>4, <1>5, <1>6, <1>7, <1>8, WhoChanges

\* What handling a frame does, in full.
LEMMA FrameHandled ==
  ASSUME Types, HandleFrame
  PROVE  LET h == handle_input(term, Head(frames))
         IN  /\ term' = h.term /\ h.term \in Terminal
             /\ h.term.status = term.status
             /\ request(term) # None => h.term.scroll \in {term.scroll, 0}
             /\ h.decision # None => h.decision \in Answer /\ h.decision.conn = term.status.conn
             /\ \/ h.term.dismissed = term.dismissed /\ h.term.answered = term.answered
                \/ /\ request(term) # None
                   /\ h.term.dismissed = request(term).viewer
                   /\ h.term.answered = request(term).n
             /\ control' = enqueue_control(h.decision)
<1>1. /\ InputOK /\ term \in Terminal /\ Typing BY DEF Types, TermOK
<1>2. PICK c \in Place, d \in Place : GuardAt(term.guard, c) /\ Path(Framed, c, frames, d)
  BY <1>1 DEF Typing
<1>3. frames # <<>> /\ frames \in Seq(Frames) BY <1>1 DEF HandleFrame, InputOK
<1>4. PICK g : <<c, Head(frames), g>> \in Framed BY <1>2, <1>3, PathHead
<1>5. Head(frames) \in Frames /\ Path(Typed, c, Head(frames), g) BY <1>4, FramedSteps
<1> DEFINE h == handle_input(term, Head(frames))
<1>6. /\ h.term \in Terminal
      /\ h.term.status = term.status
      /\ request(term) # None => h.term.scroll \in {term.scroll, 0}
      /\ h.decision # None =>
           /\ h.decision \in Decision /\ h.decision.conn = term.status.conn
           /\ h.decision.kind = "approve" =>
                h.decision.key \in {"y", "allow", "keypad", "long"}
      /\ \/ h.term.dismissed = term.dismissed /\ h.term.answered = term.answered
         \/ /\ request(term) # None
            /\ h.term.dismissed = request(term).viewer
            /\ h.term.answered = request(term).n
  BY <1>1, <1>2, <1>5, HandleInput
<1>7. term' = h.term /\ control' = enqueue_control(h.decision) BY DEF HandleFrame
<1> HIDE DEF h
<1> QED BY <1>6, <1>7 DEF Answer, h

\* The decision as it is queued.
Stamped(d) == [d EXCEPT !.late = Late]

LEMMA StampedType ==
  ASSUME NEW d \in Answer
  PROVE  /\ Stamped(d) \in Answer
         /\ Stamped(d).kind = d.kind /\ Stamped(d).viewer = d.viewer
         /\ Stamped(d).conn = d.conn /\ Stamped(d).key = d.key
         /\ Stamped(d).late = Late
<1>1. d \in Decision BY DEF Answer
<1>2. Late \in BOOLEAN BY DEF Late
<1> DEFINE x == [d EXCEPT !.late = Late]
<1>3. x \in Decision BY <1>1, <1>2 DEF Decision
<1>4. /\ x.kind = d.kind /\ x.viewer = d.viewer /\ x.conn = d.conn /\ x.key = d.key
      /\ x.late = Late
  BY <1>1 DEF Decision
<1>5. Stamped(d) = x BY DEF Stamped
<1> HIDE DEF x
<1> QED BY <1>3, <1>4, <1>5 DEF Answer

LEMMA Enqueued ==
  ASSUME NEW d, control \in Seq(Answer), Len(control) <= ControlCapacity, d # None => d \in Answer
  PROVE  /\ enqueue_control(d) \in Seq(Answer)
         /\ Len(enqueue_control(d)) <= ControlCapacity
         /\ \/ enqueue_control(d) = control
            \/ d # None /\ enqueue_control(d) = Append(control, Stamped(d))
<1>1. CASE enqueue_control(d) = control BY <1>1
<1>2. CASE d # None /\ Len(control) < ControlCapacity
           /\ enqueue_control(d) = Append(control, Stamped(d))
  <2>1. Stamped(d) \in Answer BY <1>2, StampedType
  <2>2. /\ Append(control, Stamped(d)) \in Seq(Answer)
        /\ Len(Append(control, Stamped(d))) = Len(control) + 1
    BY <2>1, AppendProperties
  <2>3. Len(control) \in Nat OBVIOUS
  <2> QED BY <1>2, <2>2, <2>3, PathAssumption
<1>3. ~(d = None \/ pc = "done" \/ Len(control) >= ControlCapacity) =>
        d # None /\ Len(control) < ControlCapacity
  <2>1. Len(control) \in Nat OBVIOUS
  <2> QED BY <2>1, PathAssumption
<1> QED BY <1>1, <1>2, <1>3 DEF enqueue_control, Stamped

LEMMA TermSteps ==
  ASSUME Types, [Next]_vars
  PROVE  TermOK'
<1>1. /\ bound' = bound /\ term \in Terminal /\ term.status \in StatusIn(bound)
      /\ HandleFrame \/ SyncStatus \/ ShellDraws \/ term' = term
  BY WhoChanges DEF Types, TermOK
<1>2. CASE HandleFrame
  <2>1. term' \in Terminal /\ term'.status = term.status BY <1>2, FrameHandled
  <2> QED BY <1>1, <2>1 DEF TermOK
<1>3. CASE SyncStatus
  <2>1. statuses # <<>> /\ term' = sync_status(term, Head(statuses)) BY <1>3 DEF SyncStatus
  <2>2. Head(statuses) \in StatusIn(bound) BY <2>1 DEF Types, StatusesOK
  <2>3. Head(statuses) \in SessionStatus BY <2>2 DEF StatusIn
  <2>4. term' \in Terminal /\ term'.status = Head(statuses) BY <1>1, <2>1, <2>3, SyncTerminal
  <2> QED BY <1>1, <2>2, <2>4 DEF TermOK
<1>4. CASE ShellDraws
  <2>1. PICK screen \in Screen : term' = handle_pty_output(term, screen)
    BY <1>4 DEF ShellDraws
  <2>2. term' \in Terminal /\ term'.status = term.status BY <1>1, <2>1, DrawTerminal
  <2> QED BY <1>1, <2>2 DEF TermOK
<1>5. CASE term' = term BY <1>1, <1>5 DEF TermOK
<1> QED BY <1>1, <1>2, <1>3, <1>4, <1>5

LEMMA DecisionSteps ==
  ASSUME Types, [Next]_vars
  PROVE  DecisionsOK'
<1>1. control \in Seq(Answer) /\ up \in Seq(Answer) /\ Len(control) <= ControlCapacity
  BY DEF Types, DecisionsOK
<1>2. <<>> \in Seq(Answer) /\ Len(<<>>) = 0 OBVIOUS
<1>3. control' \in Seq(Answer) /\ Len(control') <= ControlCapacity
  <2>1. CASE HandleFrame
    <3> DEFINE d == handle_input(term, Head(frames)).decision
    <3>1. control' = enqueue_control(d) /\ (d # None => d \in Answer)
      BY <2>1, FrameHandled
    <3> HIDE DEF d
    <3> QED BY <1>1, <3>1, Enqueued
  <2>2. CASE control' = <<>> BY <1>2, <2>2, PathAssumption
  <2>3. CASE control' = control BY <1>1, <2>3
  <2>4. \/ HandleFrame \/ SendDecisions \/ Drain \/ ReportEnded \/ ReadStatus
        \/ control' = control
    BY WhoChanges
  <2> QED BY <2>1, <2>2, <2>3, <2>4 DEF SendDecisions, Drain, ReportEnded, ReadStatus
<1>4. up' \in Seq(Answer)
  <2>1. CASE ServerActs
    <3>1. up' = up \/ up' = <<>> \/ (up # <<>> /\ up' = Tail(up))
      BY <2>1 DEF ServerActs, Ask, Withdraw, Rebroadcast, Poll, Decide, HostLost,
                  HostReplaced, SessionEnds, Connect, network
    <3>2. up # <<>> => Tail(up) \in Seq(Answer) BY <1>1
    <3> QED BY <1>1, <1>2, <3>1, <3>2
  <2>2. CASE SendDecisions
    <3>1. up' = up \o control \/ up' = up BY <2>2 DEF SendDecisions
    <3> QED BY <1>1, <3>1, ConcatProperties
  <2>3. CASE up' = up BY <1>1, <2>3
  <2> QED BY <2>1, <2>2, <2>3, WhoChanges
<1> QED BY <1>3, <1>4 DEF DecisionsOK

LEMMA NetworkSteps ==
  ASSUME Types, [Next]_vars
  PROVE  NetworkOK'
<1>1. /\ bound' = bound /\ conn \in 0 .. bound.connections /\ bound.connections \in Nat
      /\ pc \in {"connect", "run", "drain", "report", "gone", "done"}
      /\ \/ Connect \/ ConnectFails \/ ConnectGone \/ ReportEnded \/ ReadStatus \/ Lose
         \/ Drain \/ Report \/ UNCHANGED <<pc, conn>>
  BY WhoChanges, BoundFields DEF Types, NetworkOK
<1>2. CASE Connect
  <2>1. pc' = "run" /\ conn' = conn + 1 /\ conn < bound.connections BY <1>2 DEF Connect
  <2>2. conn' \in 0 .. bound.connections BY <1>1, <2>1
  <2> QED BY <1>1, <2>1, <2>2 DEF NetworkOK
<1>3. CASE \/ ConnectFails \/ ConnectGone \/ ReportEnded \/ ReadStatus \/ Lose
           \/ Drain \/ Report \/ UNCHANGED <<pc, conn>>
  <2>1. /\ conn' = conn
        /\ pc' \in {"connect", "run", "drain", "report", "gone", "done"}
    BY <1>1, <1>3 DEF ConnectFails, ConnectGone, ReportEnded, ReadStatus, Lose, Drain, Report
  <2> QED BY <1>1, <2>1 DEF NetworkOK
<1> QED BY <1>1, <1>2, <1>3

LEMMA StatusSteps ==
  ASSUME Types, [Next]_vars
  PROVE  StatusesOK' /\ (server \in ServerIn(bound))'
<1> DEFINE S == StatusIn(bound)
<1>1. /\ bound \in Bounds /\ bound' = bound
      /\ statuses \in Seq(S) /\ down \in Seq(S) /\ Len(statuses) <= StatusCapacity
      /\ server \in ServerIn(bound) /\ conn \in Nat /\ up \in Seq(Answer)
  BY WhoChanges, BoundFields DEF Types, StatusesOK, NetworkOK, DecisionsOK
<1>2. server' \in ServerIn(bound) /\ (ServerActs => down' \in Seq(S))
  <2>1. CASE Connect
    <3>1. server' \in ServerIn(bound) /\ down' = <<statusOf(server')>>
      BY <1>1, <2>1, ConnectFacts
    <3>2. statusOf(server') \in S BY <1>1, <3>1, StatusOfType
    <3> HIDE DEF S
    <3> QED BY <3>1, <3>2
  <2>2. CASE ServerActs /\ ~Connect
    <3>1. ServerFacts(bound) BY <1>1, <2>2, ServerStepFacts
    <3>2. /\ server' \in ServerIn(bound)
          /\ down' = down \/ \E s \in S : down' = Append(down, s)
      BY <3>1 DEF ServerFacts, Quiet, Tells
    <3> HIDE DEF S
    <3> QED BY <1>1, <3>2, AppendProperties
  <2>3. CASE ~ServerActs /\ server' = server BY <1>1, <2>3
  <2> QED BY <2>1, <2>2, <2>3, WhoChanges
<1>3. down' \in Seq(S)
  <2>1. CASE ServerActs BY <1>2, <2>1
  <2>2. CASE ReadStatus
    <3>1. down # <<>> /\ down' = Tail(down) BY <2>2 DEF ReadStatus
    <3> HIDE DEF S
    <3> QED BY <1>1, <3>1
  <2>3. CASE Lose
    <3>1. down' = <<>> BY <2>3 DEF Lose
    <3> HIDE DEF S
    <3> QED BY <3>1
  <2>4. CASE down' = down BY <1>1, <2>4
  <2> QED BY <2>1, <2>2, <2>3, <2>4, WhoChanges
<1>4. statuses' \in Seq(S) /\ Len(statuses') <= StatusCapacity
  <2>1. CASE SyncStatus
    <3>1. statuses # <<>> /\ statuses' = Tail(statuses) BY <2>1 DEF SyncStatus
    <3> HIDE DEF S
    <3>2. /\ Tail(statuses) \in Seq(S) /\ Len(Tail(statuses)) = Len(statuses) - 1
          /\ Len(statuses) \in Nat
      BY <1>1, <3>1
    <3> QED BY <1>1, <3>1, <3>2, PathAssumption
  <2>2. CASE \E s \in S : Len(statuses) < StatusCapacity /\ statuses' = Append(statuses, s)
    <3> HIDE DEF S
    <3>1. PICK s \in S : Len(statuses) < StatusCapacity /\ statuses' = Append(statuses, s)
      BY <2>2
    <3>2. /\ statuses' \in Seq(S) /\ Len(statuses') = Len(statuses) + 1
          /\ Len(statuses) \in Nat
      BY <1>1, <3>1, AppendProperties
    <3> QED BY <3>1, <3>2, PathAssumption
  <2>3. CASE statuses' = statuses BY <1>1, <2>3
  <2>4. ReportEnded \/ Report => \E s \in S : Len(statuses) < StatusCapacity
                                              /\ statuses' = Append(statuses, s)
    BY PlainStatuses DEF ReportEnded, Report
  <2>5. ReadStatus => \E s \in S : Len(statuses) < StatusCapacity
                                   /\ statuses' = Append(statuses, s)
    <3> SUFFICES ASSUME ReadStatus PROVE \E s \in S : Len(statuses) < StatusCapacity
                                                      /\ statuses' = Append(statuses, s)
      OBVIOUS
    <3>1. /\ down # <<>> /\ Len(statuses) < StatusCapacity
          /\ statuses' = Append(statuses, Head(down))
      BY DEF ReadStatus
    <3> HIDE DEF S
    <3>2. Head(down) \in S BY <1>1, <3>1
    <3> QED BY <3>1, <3>2
  <2> QED BY <2>1, <2>2, <2>3, <2>4, <2>5, WhoChanges
<1>5. StatusIn(bound)' = S /\ ServerIn(bound)' = ServerIn(bound)
  BY <1>1 DEF StatusIn, ServerIn
<1> HIDE DEF S
<1> QED BY <1>2, <1>3, <1>4, <1>5 DEF StatusesOK

LEMMA Counted ==
  ASSUME NEW D, NEW R, NEW f \in [D -> R], NEW v, NEW x, v \in D => x \in R
  PROVE  [f EXCEPT ![v] = x] \in [D -> R]
OBVIOUS

LEMMA CountSteps ==
  ASSUME Types, [Next]_vars
  PROVE  CountsOK'
<1>1. /\ bound' = bound /\ approved \in [Viewer -> Int]
      /\ rung \in [DOMAIN bound.askers -> Nat]
      /\ HandleFrame \/ Decide \/ approved' = approved
      /\ SyncStatus \/ rung' = rung
  BY WhoChanges DEF Types, CountsOK
<1>2. approved' \in [Viewer -> Int]
  <2>1. CASE \E v : approved' = [approved EXCEPT ![v] = @ + 1]
    <3>1. PICK v : approved' = [approved EXCEPT ![v] = approved[v] + 1] BY <2>1
    <3>2. v \in Viewer => approved[v] + 1 \in Int BY <1>1
    <3> QED BY <1>1, <3>1, <3>2, Counted
  <2>2. CASE \E v : approved' = [approved EXCEPT ![v] = @ - 1]
    <3>1. PICK v : approved' = [approved EXCEPT ![v] = approved[v] - 1] BY <2>2
    <3>2. v \in Viewer => approved[v] - 1 \in Int BY <1>1
    <3> QED BY <1>1, <3>1, <3>2, Counted
  <2>3. CASE approved' = approved BY <1>1, <2>3
  <2>4. HandleFrame => approved' = approved \/ \E v : approved' = [approved EXCEPT ![v] = @ + 1]
    BY DEF HandleFrame
  <2>5. Decide => approved' = approved \/ \E v : approved' = [approved EXCEPT ![v] = @ - 1]
    BY DEF Decide
  <2> QED BY <1>1, <2>1, <2>2, <2>3, <2>4, <2>5
<1>3. rung' \in [DOMAIN bound.askers -> Nat]
  <2>1. CASE \E n : rung' = [rung EXCEPT ![n] = @ + 1]
    <3>1. PICK n : rung' = [rung EXCEPT ![n] = rung[n] + 1] BY <2>1
    <3>2. n \in DOMAIN bound.askers => rung[n] + 1 \in Nat BY <1>1
    <3> QED BY <1>1, <3>1, <3>2, Counted
  <2>2. CASE rung' = rung BY <1>1, <2>2
  <2>3. SyncStatus => rung' = rung \/ \E n : rung' = [rung EXCEPT ![n] = @ + 1]
    BY DEF SyncStatus
  <2> QED BY <1>1, <2>1, <2>2, <2>3
<1> QED BY <1>1, <1>2, <1>3 DEF CountsOK

LEMMA NextTypes == Types /\ [Next]_vars => Types'
<1> SUFFICES ASSUME Types, [Next]_vars PROVE Types' OBVIOUS
<1>1. bound' \in Bounds BY WhoChanges DEF Types
<1>2. InputOK' /\ Typing' BY TypingSteps
<1>3. TermOK' BY TermSteps
<1>4. DecisionsOK' BY DecisionSteps
<1>5. StatusesOK' /\ (server \in ServerIn(bound))' BY StatusSteps
<1>6. NetworkOK' BY NetworkSteps
<1>7. CountsOK' BY CountSteps
<1> QED BY <1>1, <1>2, <1>3, <1>4, <1>5, <1>6, <1>7 DEF Types

LEMMA TypesAlways == Spec => []Types
<1>1. Init => Types BY InitTypes
<1>2. Types /\ [Next]_vars => Types' BY NextTypes
<1> QED BY <1>1, <1>2, PTL DEF Spec

(* The types are what they should be, however what is typed is cut into     *)
(* reads and whatever is lost: in particular the queues keep their limits   *)
(* and no byte of a control sequence beyond the limit of a frame is kept.   *)
THEOREM PathTypes == Spec => []TypeOK
<1>1. Types => TypeOK
  <2> SUFFICES ASSUME Types PROVE TypeOK OBVIOUS
  <2>1. \A i \in DOMAIN frames : frames[i] # <<>>
    <3>1. frames \in Seq(Frames) BY DEF Types, InputOK
    <3>2. \A i \in DOMAIN frames : frames[i] \in Frames BY <3>1
    <3> QED BY <3>2 DEF Frames
  <2>2. /\ \A i \in DOMAIN statuses : statuses[i] \in SessionStatus
        /\ \A i \in DOMAIN down : down[i] \in SessionStatus
    <3>1. statuses \in Seq(StatusIn(bound)) /\ down \in Seq(StatusIn(bound))
      BY DEF Types, StatusesOK
    <3>2. /\ \A i \in DOMAIN statuses : statuses[i] \in StatusIn(bound)
          /\ \A i \in DOMAIN down : down[i] \in StatusIn(bound)
      BY <3>1
    <3> QED BY <3>2 DEF StatusIn
  <2>3. server \in Server BY DEF Types, ServerIn
  <2> QED BY <2>1, <2>2, <2>3
     DEF TypeOK, Types, InputOK, TermOK, DecisionsOK, StatusesOK, NetworkOK, CountsOK
<1> QED BY <1>1, TypesAlways, PTL

(* Only the answer itself approves a request: for any keystrokes typed in   *)
(* any order, reads cut anywhere and pauses in between, a decision that     *)
(* approves was made with the y, the click on the footer, or one of the two *)
(* sequences OnlyAnswersApprove names; never with a y that was pasted.      *)
THEOREM OnlyTheAnswerApproves == Spec => []OnlyAnswersApprove
<1>1. Types => OnlyAnswersApprove
  <2> SUFFICES ASSUME Types, NEW d \in Decisions, d.kind = "approve"
               PROVE  d.key \in {"y", "allow", "keypad", "long"}
    BY DEF OnlyAnswersApprove
  <2>1. control \in Seq(Answer) /\ up \in Seq(Answer) BY DEF Types, DecisionsOK
  <2>2. d \in Range(control) \/ d \in Range(up) BY DEF Decisions
  <2>3. d \in Answer BY <2>1, <2>2 DEF Range
  <2> QED BY <2>3 DEF Answer
<1> QED BY <1>1, TypesAlways, PTL

----------------------------------------------------------------------------
(* Decisions of a lost connection.                                         *)

LateAnswer == {d \in Answer : d.late}
Current(k) == {d \in Answer : d.conn = k \/ d.late}

\* What is queued while there is no connection is known to be late: the queue has been
\* emptied since the connection was lost.
LateOK ==
  /\ control \in Seq(Current(conn)) /\ up \in Seq(Current(conn))
  /\ pc \in {"report", "connect"} => control \in Seq(LateAnswer)

LEMMA NextLate == Types /\ LateOK /\ [Next]_vars => LateOK'
<1> SUFFICES ASSUME Types, LateOK, [Next]_vars PROVE LateOK' OBVIOUS
<1> DEFINE C == Current(conn)
<1>1. /\ control \in Seq(C) /\ up \in Seq(C)
      /\ control \in Seq(Answer) /\ Len(control) <= ControlCapacity
      /\ pc \in {"report", "connect"} => control \in Seq(LateAnswer)
  BY DEF LateOK, Types, DecisionsOK
<1>2. \A X : <<>> \in Seq(X) OBVIOUS
<1>3. CASE Connect
  <2>1. pc = "connect" /\ pc' = "run" /\ control' = control /\ up' = <<>>
    BY <1>3 DEF Connect
  <2>2. LateAnswer \subseteq Current(conn') BY DEF LateAnswer, Current
  <2>3. control \in Seq(Current(conn')) BY <1>1, <2>1, <2>2, SeqMonotonic
  <2> QED BY <1>2, <2>1, <2>3 DEF LateOK
<1>4. CASE ~Connect
  <2>1. conn' = conn BY <1>4, WhoChanges
     DEF ConnectFails, ConnectGone, ReportEnded, ReadStatus, Lose, Drain, Report
  <2>2. up' \in Seq(C)
    <3>1. CASE ServerActs
      <4>1. up' = up \/ up' = <<>> \/ (up # <<>> /\ up' = Tail(up))
        BY <1>4, <3>1 DEF ServerActs, Ask, Withdraw, Rebroadcast, Poll, Decide, HostLost,
                    HostReplaced, SessionEnds, network
      <4> HIDE DEF C
      <4>2. up # <<>> => Tail(up) \in Seq(C) BY <1>1
      <4> QED BY <1>1, <1>2, <4>1, <4>2
    <3>2. CASE SendDecisions
      <4>1. up' = up \o control \/ up' = up BY <3>2 DEF SendDecisions
      <4> HIDE DEF C
      <4> QED BY <1>1, <4>1, ConcatProperties
    <3>3. CASE up' = up BY <1>1, <3>3
    <3> QED BY <3>1, <3>2, <3>3, WhoChanges
  <2>3. control' \in Seq(C) /\ (pc' \in {"report", "connect"} => control' \in Seq(LateAnswer))
    <3>1. CASE HandleFrame
      <4> DEFINE d == handle_input(term, Head(frames)).decision
      <4>1. /\ control' = enqueue_control(d)
            /\ d # None => d \in Answer /\ d.conn = term.status.conn
        BY <3>1, FrameHandled
      <4>2. pc' = pc BY <3>1 DEF HandleFrame, network
      <4> HIDE DEF d
      <4>3. control' = control \/ (d # None /\ control' = Append(control, Stamped(d)))
        BY <1>1, <4>1, Enqueued
      <4>4. CASE control' = control BY <1>1, <4>2, <4>4
      <4>5. CASE d # None /\ control' = Append(control, Stamped(d))
        <5>1. /\ Stamped(d) \in Answer /\ Stamped(d).conn = term.status.conn
              /\ Stamped(d).late = Late
          BY <4>1, <4>5, StampedType
        <5>2. Stamped(d) \in C BY <5>1 DEF Current, Late
        <5>3. pc \in {"report", "connect"} => Stamped(d) \in LateAnswer
          BY <5>1 DEF LateAnswer, Late
        <5> HIDE DEF C
        <5>4. control' \in Seq(C) BY <1>1, <4>5, <5>2, AppendProperties
        <5>5. pc \in {"report", "connect"} => control' \in Seq(LateAnswer)
          BY <1>1, <4>5, <5>3, AppendProperties
        <5> QED BY <4>2, <5>4, <5>5
      <4> QED BY <4>3, <4>4, <4>5
    <3>2. CASE control' = <<>> BY <1>2, <3>2
    <3>3. CASE control' = control /\ ~Drain
      <4>1. pc' \in {"report", "connect"} => pc \in {"report", "connect"}
        BY <1>4, <3>3, WhoChanges
           DEF ConnectFails, ConnectGone, ReportEnded, ReadStatus, Lose, Report
      <4> QED BY <1>1, <3>3, <4>1
    <3>4. HandleFrame \/ control' = <<>> \/ (control' = control /\ ~Drain)
      BY WhoChanges DEF SendDecisions, Drain, ReportEnded, ReadStatus
    <3> QED BY <3>1, <3>2, <3>3, <3>4
  <2>4. C = Current(conn') BY <2>1
  <2> HIDE DEF C
  <2> QED BY <2>2, <2>3, <2>4 DEF LateOK
<1> QED BY <1>3, <1>4

(* A decision for a connection that was lost reaches the next one only if it *)
(* was made after the queue had been emptied (websocket_loop drains the      *)
(* queue before it reconnects), while the terminal still showed the lost     *)
(* connection.                                                               *)
THEOREM LostDecisionsOnlyLate == Spec => []LostDecisionsAreLate
<1>1. Init => LateOK
  <2> SUFFICES ASSUME Init PROVE LateOK OBVIOUS
  <2>1. control = <<>> /\ up = <<>> BY DEF Init
  <2>2. \A X : <<>> \in Seq(X) OBVIOUS
  <2> QED BY <2>1, <2>2 DEF LateOK
<1>2. Types /\ LateOK /\ [Next]_vars => LateOK' BY NextLate
<1>3. LateOK => LostDecisionsAreLate
  <2> SUFFICES ASSUME LateOK, NEW d \in Decisions PROVE d.conn = conn \/ d.late
    BY DEF LostDecisionsAreLate
  <2>1. control \in Seq(Current(conn)) /\ up \in Seq(Current(conn)) BY DEF LateOK
  <2>2. d \in Range(control) \/ d \in Range(up) BY DEF Decisions
  <2>3. d \in Current(conn) BY <2>1, <2>2 DEF Range
  <2> QED BY <2>3 DEF Current
<1> QED BY <1>1, <1>2, <1>3, TypesAlways, PTL DEF Spec

----------------------------------------------------------------------------
(* The requests that are shown.                                            *)

\* What the host has been shown: the request, and the latest there has been.
Cursor(s) ==
  {c \in [req : Request \cup {None}, high : Nat] :
     c.high <= s.asked /\ (c.req # None => c.req.n <= c.high)}

\* A status, to the host that has been shown c, given the server's record s: no request,
\* the same again, or one there has never been, in the place of none or of one that
\* lapsed without a word.
Shows(b, s) ==
  {x \in Cursor(s) \X StatusIn(b) \X Cursor(s) :
     LET c == x[1]
         r == x[2].pending
         d == x[3]
     IN  /\ d.req = r
         /\ \/ (r = None \/ r = c.req) /\ d.high = c.high
            \/ r.n > c.high /\ d.high = r.n /\ (c.req = None \/ r.n \in s.silent)}

LEMMA ShowsSteps ==
  ASSUME NEW b, NEW s, NEW c, NEW x, NEW d
  PROVE  <<c, x, d>> \in Shows(b, s) <=>
           /\ c \in Cursor(s) /\ x \in StatusIn(b) /\ d \in Cursor(s)
           /\ d.req = x.pending
           /\ \/ (x.pending = None \/ x.pending = c.req) /\ d.high = c.high
              \/ /\ x.pending.n > c.high /\ d.high = x.pending.n
                 /\ c.req = None \/ x.pending.n \in s.silent
BY DEF Shows

LEMMA CursorFields ==
  ASSUME NEW s, NEW c \in Cursor(s)
  PROVE  /\ c.req \in Request \cup {None} /\ c.high \in Nat /\ c.high <= s.asked
         /\ c.req # None => c.req.n <= c.high
BY DEF Cursor

LEMMA CursorIs ==
  ASSUME NEW s, NEW r \in Request \cup {None}, NEW h \in Nat, h <= s.asked, r # None => r.n <= h
  PROVE  \E c \in Cursor(s) : c.req = r /\ c.high = h
<1> DEFINE c == [req |-> r, high |-> h]
<1>1. c \in Cursor(s) BY DEF Cursor
<1>2. c.req = r /\ c.high = h OBVIOUS
<1> HIDE DEF c
<1> QED BY <1>1, <1>2

\* More requests, more of them silent: what could follow still can.
LEMMA ShowsWider ==
  ASSUME NEW b, NEW s, NEW u, s.asked \in Nat, u.asked \in Nat,
         s.asked <= u.asked, s.silent \subseteq u.silent
  PROVE  Cursor(s) \subseteq Cursor(u) /\ Shows(b, s) \subseteq Shows(b, u)
<1>1. Cursor(s) \subseteq Cursor(u) BY DEF Cursor
<1>2. ASSUME NEW y \in Shows(b, s) PROVE y \in Shows(b, u)
  <2>1. PICK c \in Cursor(s), x \in StatusIn(b), d \in Cursor(s) : y = <<c, x, d>>
    BY <1>2 DEF Shows
  <2>2. /\ d.req = x.pending
        /\ \/ (x.pending = None \/ x.pending = c.req) /\ d.high = c.high
           \/ /\ x.pending.n > c.high /\ d.high = x.pending.n
              /\ c.req = None \/ x.pending.n \in s.silent
    BY <1>2, <2>1, ShowsSteps
  <2>3. x.pending.n \in s.silent => x.pending.n \in u.silent OBVIOUS
  <2>4. c \in Cursor(u) /\ d \in Cursor(u) BY <1>1
  <2>5. <<c, x, d>> \in Shows(b, u) BY <2>2, <2>3, <2>4, ShowsSteps
  <2> QED BY <2>1, <2>5
<1> QED BY <1>1, <1>2

\* A status without a request may always follow, and leads to none.
LEMMA ShowsNone ==
  ASSUME NEW b, NEW s, NEW c \in Cursor(s), NEW x \in StatusIn(b), x.pending = None
  PROVE  \E d \in Cursor(s) : <<c, x, d>> \in Shows(b, s) /\ d.req = None
<1>1. PICK d \in Cursor(s) : d.req = None /\ d.high = c.high BY CursorFields, CursorIs
<1> QED BY <1>1, ShowsSteps

\* The bell has rung at most once for each request, and for none that is still to come.
RungOK(c) == \A n \in DOMAIN rung : rung[n] \in {0, 1} /\ (rung[n] # 0 => n <= c.high)

\* What the server has told leads from what is shown to what there is.
StatusesLead ==
  \E c, m, e \in Cursor(server) :
    /\ c.req = term.status.pending /\ RungOK(c)
    /\ Path(Shows(bound, server), c, statuses, m)
    /\ pc = "run" =>
         /\ Path(Shows(bound, server), m, down, e)
         /\ server.host # 0 /\ server.told => e.req = server.pending

RequestRung ==
  request(term) # None => rung[request(term).n] = 1 \/ request(term).n \in server.silent

DismissedIsPending == term.dismissed # None => term.status.pending # None

ShownOK ==
  StatusesLead /\ RequestRung /\ DismissedIsPending /\ HidesOnlyAnswered /\ PromptIsLive

LEMMA InitShown == Init => ShownOK
<1> SUFFICES ASSUME Init PROVE ShownOK OBVIOUS
<1>1. /\ term = new /\ rung = [n \in DOMAIN bound.askers |-> 0] /\ statuses = <<>>
      /\ pc = "connect" /\ server.asked = 0
  BY DEF Init
<1>2. term.status.pending = None /\ term.dismissed = None /\ term.scroll = 0
  BY <1>1 DEF new, Disconnected
<1>3. request(term) = None BY <1>2 DEF request
<1>4. StatusesLead
  <2>1. PICK c \in Cursor(server) : c.req = None /\ c.high = 0
    <3>1. 0 <= server.asked /\ None \in Request \cup {None} BY <1>1
    <3>2. \E c \in Cursor(server) : c.req = None /\ c.high = 0 BY <3>1, CursorIs
    <3> QED BY <3>2
  <2>2. RungOK(c) BY <1>1 DEF RungOK
  <2>3. Path(Shows(bound, server), c, <<>>, c) BY PathEmpty
  <2>4. Path(Shows(bound, server), c, statuses, c) BY ONLY <1>1, <2>3
  <2> QED BY <1>1, <1>2, <2>1, <2>2, <2>4 DEF StatusesLead
<1> QED BY <1>2, <1>3, <1>4
   DEF ShownOK, RequestRung, DismissedIsPending, HidesOnlyAnswered, PromptIsLive

\* The steps of the terminal that do not take a status.
LEMMA ShownAside ==
  ASSUME term \in Terminal, ShownOK, term' \in Terminal, term'.status = term.status,
         request(term) # None => term'.scroll \in {term.scroll, 0},
         \/ term'.dismissed = term.dismissed /\ term'.answered = term.answered
         \/ /\ request(term) # None
            /\ term'.dismissed = request(term).viewer
            /\ term'.answered = request(term).n,
         rung' = rung, server' = server
  PROVE  (RequestRung /\ DismissedIsPending /\ HidesOnlyAnswered /\ PromptIsLive)'
<1> DEFINE r == term.status.pending
<1>1. r \in Request \cup {None} /\ term'.status.pending = r
  BY TerminalFields DEF SessionStatus
<1> HIDE DEF r
<1>2. /\ request(term) = IF r # None /\ r.viewer = term.dismissed THEN None ELSE r
      /\ request(term') = IF r # None /\ r.viewer = term'.dismissed THEN None ELSE r
  BY <1>1 DEF request, r
<1>3. request(term') # None => request(term) = request(term')
  <2>1. CASE term'.dismissed = term.dismissed BY <1>2, <2>1
  <2>2. CASE request(term) # None /\ term'.dismissed = request(term).viewer
    BY <1>2, <2>2
  <2> QED BY <2>1, <2>2
<1>4. RequestRung' BY <1>3 DEF ShownOK, RequestRung
<1>5. PromptIsLive' BY <1>3 DEF ShownOK, PromptIsLive
<1>6. DismissedIsPending'
  <2>1. term.dismissed # None => r # None BY DEF ShownOK, DismissedIsPending, r
  <2>2. request(term) # None => r # None BY <1>2
  <2>3. term'.dismissed # None => r # None BY <2>1, <2>2
  <2> QED BY <1>1, <2>3 DEF DismissedIsPending
<1>7. HidesOnlyAnswered'
  <2> SUFFICES ASSUME r # None, request(term') = None
               PROVE  r.n = term'.answered \/ r.n \in server.silent
    BY <1>1 DEF HidesOnlyAnswered
  <2>1. CASE request(term) = None
    <3>1. term'.answered = term.answered BY <2>1
    <3>2. r.n = term.answered \/ r.n \in server.silent
      BY <2>1 DEF ShownOK, HidesOnlyAnswered, r
    <3> QED BY <3>1, <3>2
  <2>2. CASE request(term) # None
    <3>1. request(term) = r BY <1>2, <2>2
    <3>2. term'.dismissed # term.dismissed BY <1>2, <2>2
    <3> QED BY <3>1, <3>2
  <2> QED BY <2>1, <2>2
<1> QED BY <1>4, <1>5, <1>6, <1>7

\* A status is taken.
LEMMA ShownSync ==
  ASSUME Types, ShownOK, SyncStatus
  PROVE  ShownOK'
<1> DEFINE s == Head(statuses)
           r == term.status.pending
           p == s.pending
<1>1. /\ statuses # <<>> /\ statuses' = Tail(statuses) /\ term' = sync_status(term, s)
      /\ server' = server /\ pc' = pc /\ down' = down /\ bound' = bound
      /\ rung' = IF Rings(term, s) THEN [rung EXCEPT ![request(term').n] = @ + 1] ELSE rung
  BY DEF SyncStatus, network
<1>2. statuses \in Seq(StatusIn(bound)) /\ term \in Terminal
  BY DEF Types, StatusesOK, TermOK
<1>3. s \in StatusIn(bound) /\ s \in SessionStatus BY <1>1, <1>2 DEF StatusIn
<1>4. PICK c \in Cursor(server), m \in Cursor(server), e \in Cursor(server) :
        /\ c.req = r /\ RungOK(c)
        /\ Path(Shows(bound, server), c, statuses, m)
        /\ pc = "run" =>
             /\ Path(Shows(bound, server), m, down, e)
             /\ server.host # 0 /\ server.told => e.req = server.pending
  BY DEF ShownOK, StatusesLead
<1>5. PICK d : <<c, s, d>> \in Shows(bound, server)
               /\ Path(Shows(bound, server), d, Tail(statuses), m)
  BY <1>1, <1>2, <1>4, PathHead
<1>6. /\ d \in Cursor(server) /\ d.req = p
      /\ \/ (p = None \/ p = c.req) /\ d.high = c.high
         \/ /\ p.n > c.high /\ d.high = p.n
            /\ c.req = None \/ p.n \in server.silent
  BY <1>5, ShowsSteps
<1>7. /\ term' \in Terminal /\ term'.status = s /\ term'.answered = term.answered
      /\ term'.dismissed = IF s.pending = None THEN None ELSE term.dismissed
      /\ request(term') # None => term'.scroll = 0
  BY <1>1, <1>2, <1>3, SyncTerminal
<1>8. PromptIsLive' BY <1>7 DEF PromptIsLive
<1>9. DismissedIsPending' BY <1>7 DEF DismissedIsPending
<1>10. r \in Request \cup {None} /\ p \in Request \cup {None}
       /\ (p # None => p.n \in DOMAIN rung)
  <2>1. r \in Request \cup {None} /\ p \in Request \cup {None}
    BY <1>2, <1>3, TerminalFields DEF SessionStatus
  <2>2. DOMAIN rung = DOMAIN bound.askers BY DEF Types, CountsOK
  <2> QED BY <1>3, <2>1, <2>2 DEF StatusIn
<1>11. c.high \in Nat /\ d.high \in Nat /\ (r # None => r.n <= c.high) BY <1>4, <1>6, CursorFields
<1> HIDE DEF s
<1>12. /\ request(term) = IF r # None /\ r.viewer = term.dismissed THEN None ELSE r
       /\ request(term') = IF p # None /\ p.viewer = term.dismissed THEN None ELSE p
  BY <1>7 DEF request
<1>13. Rings(term, s) <=> request(term') # None /\ ~Same(request(term'), request(term))
  BY <1>1 DEF Rings
<1> HIDE DEF r, p
<1>14. rung \in [DOMAIN rung -> Nat] /\ DOMAIN rung \subseteq Nat
  <2>1. bound \in Bounds /\ rung \in [DOMAIN bound.askers -> Nat] BY DEF Types, CountsOK
  <2> QED BY <2>1, BoundFields
\* A request that rings is new.
<1>15. ASSUME Rings(term, s) PROVE /\ request(term') = p /\ p # None
                                   /\ p.n > c.high /\ d.high = p.n
  <2>1. request(term') = p /\ p # None BY <1>12, <1>13, <1>15
  <2>2. p # r
    <3> SUFFICES ASSUME p = r PROVE FALSE OBVIOUS
    <3>1. request(term') = request(term) BY <1>12
    <3>2. Same(request(term'), request(term)) BY <2>1, <3>1 DEF Same
    <3> QED BY <1>13, <1>15, <3>2
  <2> QED BY <1>4, <1>6, <2>1, <2>2
<1>16. RungOK(d)'
  <2>1. CASE Rings(term, s)
    <3>1. rung' = [rung EXCEPT ![p.n] = rung[p.n] + 1] BY <1>1, <1>15, <2>1
    <3>2. p.n \in DOMAIN rung /\ rung[p.n] = 0
      BY <1>4, <1>10, <1>11, <1>14, <1>15, <2>1 DEF RungOK
    <3>3. ASSUME NEW n \in DOMAIN rung'
          PROVE  rung'[n] \in {0, 1} /\ (rung'[n] # 0 => n <= d.high)
      <4>1. n \in DOMAIN rung /\ n \in Nat BY <1>14, <3>1
      <4>2. CASE n = p.n BY <1>11, <1>14, <1>15, <2>1, <3>1, <3>2, <4>1, <4>2
      <4>3. CASE n # p.n
        <5>1. rung'[n] = rung[n] BY <3>1, <4>1, <4>3
        <5> QED BY <1>4, <1>11, <1>15, <2>1, <4>1, <5>1 DEF RungOK
      <4> QED BY <4>2, <4>3
    <3> QED BY <3>3 DEF RungOK
  <2>2. CASE ~Rings(term, s)
    <3>1. rung' = rung BY <1>1, <2>2
    <3>2. c.high <= d.high
      <4>1. p.n > c.high /\ d.high = p.n => c.high <= d.high BY <1>11
      <4> QED BY <1>6, <1>11, <4>1
    <3>3. ASSUME NEW n \in DOMAIN rung
          PROVE  rung[n] \in {0, 1} /\ (rung[n] # 0 => n <= d.high)
      <4>1. n \in Nat BY <1>14
      <4> QED BY <1>4, <1>11, <3>2, <4>1 DEF RungOK
    <3> QED BY <3>1, <3>3 DEF RungOK
  <2> QED BY <2>1, <2>2
<1>17. StatusesLead'
  <2>1. d.req = term'.status.pending BY <1>6, <1>7 DEF p
  <2>2. Cursor(server') = Cursor(server) /\ Shows(bound', server') = Shows(bound, server)
    BY <1>1
  <2>3. Path(Shows(bound', server'), d, statuses', m) BY <1>1, <1>5
  <2>4. pc' = "run" => /\ Path(Shows(bound', server'), m, down', e)
                       /\ server'.host # 0 /\ server'.told => e.req = server'.pending
    BY <1>1, <1>4
  <2> QED BY <1>4, <1>6, <1>16, <2>1, <2>2, <2>3, <2>4 DEF StatusesLead
<1>18. RequestRung'
  <2> SUFFICES ASSUME request(term') # None
               PROVE  rung'[request(term').n] = 1 \/ request(term').n \in server.silent
    BY <1>1 DEF RequestRung
  <2>1. request(term') = p /\ p # None BY <1>12
  <2>2. CASE Rings(term, s)
    <3>1. p.n \in DOMAIN rung /\ rung[p.n] = 0
      BY <1>4, <1>10, <1>11, <1>14, <1>15, <2>2 DEF RungOK
    <3>2. rung' = [rung EXCEPT ![p.n] = rung[p.n] + 1] BY <1>1, <2>1, <2>2
    <3>3. rung'[p.n] = 1 BY <3>1, <3>2
    <3> QED BY <2>1, <3>3
  <2>3. CASE ~Rings(term, s)
    <3>1. rung' = rung BY <1>1, <2>3
    <3>2. request(term) # None BY <1>13, <2>1, <2>3 DEF Same
    <3>3. request(term) = r /\ r # None BY <1>12, <3>2
    <3>4. CASE p = r
      <4>1. rung[r.n] = 1 \/ r.n \in server.silent
        BY <3>2, <3>3 DEF ShownOK, RequestRung
      <4> QED BY <2>1, <3>1, <3>4, <4>1
    <3>5. CASE p # r
      <4>1. p.n \in server.silent BY <1>4, <1>6, <2>1, <3>3, <3>5
      <4> QED BY <2>1, <4>1
    <3> QED BY <3>4, <3>5
  <2> QED BY <2>2, <2>3
<1>19. HidesOnlyAnswered'
  <2> SUFFICES ASSUME p # None, request(term') = None
               PROVE  p.n = term.answered \/ p.n \in server.silent
    BY <1>1, <1>7 DEF HidesOnlyAnswered, p
  <2>1. p.viewer = term.dismissed /\ p.viewer \in Viewer
    BY <1>10, <1>12 DEF Request
  <2>2. r # None BY <2>1, TerminalAssumption DEF ShownOK, DismissedIsPending, r
  <2>3. CASE p = r
    <3>1. request(term) = None BY <1>12, <2>1, <2>3
    <3> QED BY <2>2, <2>3, <3>1 DEF ShownOK, HidesOnlyAnswered, r
  <2>4. CASE p # r BY <1>4, <1>6, <2>2, <2>4
  <2> QED BY <2>3, <2>4
<1> QED BY <1>8, <1>9, <1>17, <1>18, <1>19 DEF ShownOK

\* What the server tells is one more step.
LEMMA TellsLeads ==
  ASSUME bound \in Bounds, server \in ServerIn(bound), ServerFacts(bound), server.host # 0,
         NEW s \in StatusIn(bound), Tells(s),
         NEW e \in Cursor(server), server.told => e.req = server.pending
  PROVE  \E d \in Cursor(server') : <<e, s, d>> \in Shows(bound, server') /\ d.req = s.pending
<1>1. /\ server.asked \in Nat /\ server'.asked \in Nat
      /\ server.asked <= server'.asked /\ server.silent \subseteq server'.silent
      /\ ~server.told => server.pending = None
  BY ServerFields DEF ServerFacts, ServerIn
<1>2. e \in Cursor(server') /\ e.high \in Nat /\ e.high <= server.asked
  BY <1>1, ShowsWider, CursorFields
<1>3. s.pending \in Request \cup {None} BY DEF StatusIn, SessionStatus
<1>4. CASE s.pending = None
  <2>1. \E d \in Cursor(server') : <<e, s, d>> \in Shows(bound, server') /\ d.req = None
    BY <1>2, <1>4, ShowsNone
  <2> QED BY <1>4, <2>1
<1>5. CASE s.pending = server.pending /\ server.told
  <2>1. e.req = s.pending BY <1>5
  <2> QED BY <1>2, <2>1, ShowsSteps
<1>6. CASE /\ s.pending # None
           /\ s.pending.n = server.asked + 1 /\ server'.asked = s.pending.n
           /\ (server.told /\ server.pending = None) \/ s.pending.n \in server'.silent
  <2> DEFINE n == s.pending.n
  <2>1. n \in Nat /\ n <= server'.asked /\ n > e.high BY <1>1, <1>2, <1>6
  <2> HIDE DEF n
  <2>2. \E d \in Cursor(server') : d.req = s.pending /\ d.high = n
    <3>1. s.pending # None => s.pending.n <= n BY <2>1 DEF n
    <3> QED BY <1>3, <2>1, <3>1, CursorIs
  <2>3. PICK d \in Cursor(server') : d.req = s.pending /\ d.high = n BY <2>2
  <2>4. e.req = None \/ n \in server'.silent BY <1>6 DEF n
  <2>5. <<e, s, d>> \in Shows(bound, server') BY <1>2, <2>1, <2>3, <2>4, ShowsSteps DEF n
  <2> QED BY <2>3, <2>5
<1> QED BY <1>3, <1>4, <1>5, <1>6 DEF Tells

LEMMA ShownServer ==
  ASSUME Types, ShownOK, ServerActs
  PROVE  ShownOK'
<1>1. /\ bound \in Bounds /\ server \in ServerIn(bound) /\ conn \in Nat /\ up \in Seq(Answer)
      /\ down \in Seq(StatusIn(bound))
  BY BoundFields DEF Types, NetworkOK, DecisionsOK, StatusesOK
<1>2. /\ bound' = bound /\ term' = term /\ rung' = rung /\ statuses' = statuses
      /\ Connect \/ pc' = pc
  BY DEF ServerActs, Ask, Withdraw, Rebroadcast, Poll, Decide, HostLost, HostReplaced,
         SessionEnds, Connect, host, network
<1>3. /\ server' \in ServerIn(bound)
      /\ server.asked <= server'.asked /\ server.silent \subseteq server'.silent
      /\ server.asked \in Nat /\ server'.asked \in Nat
  <2>1. server.asked \in Nat BY <1>1, ServerFields DEF ServerIn
  <2>2. CASE Connect
    <3>1. /\ server' \in ServerIn(bound)
          /\ server'.asked = server.asked /\ server'.silent = server.silent
      BY <1>1, <2>2, ConnectFacts
    <3> QED BY <2>1, <3>1
  <2>3. CASE ~Connect
    <3>1. ServerFacts(bound) BY <1>1, <2>3, ServerStepFacts
    <3>2. server'.asked \in Nat BY <3>1, ServerFields DEF ServerFacts, ServerIn
    <3> QED BY <2>1, <3>1, <3>2 DEF ServerFacts
  <2> QED BY <2>2, <2>3
<1> DEFINE S == Shows(bound, server)
           U == Shows(bound, server')
<1>4. Cursor(server) \subseteq Cursor(server') /\ S \subseteq U BY <1>3, ShowsWider
<1>5. PICK c \in Cursor(server), m \in Cursor(server), e \in Cursor(server) :
        /\ c.req = term.status.pending /\ RungOK(c)
        /\ Path(S, c, statuses, m)
        /\ pc = "run" => /\ Path(S, m, down, e)
                         /\ server.host # 0 /\ server.told => e.req = server.pending
  BY DEF ShownOK, StatusesLead
<1> HIDE DEF S, U
<1>6. \E d \in Cursor(server') :
        pc' = "run" => /\ Path(U, m, down', d)
                       /\ server'.host # 0 /\ server'.told => d.req = server'.pending
  <2>1. CASE Connect
    <3> DEFINE s == statusOf(server')
    <3>1. down' = <<s>> /\ server'.pending = None BY <1>1, <2>1, ConnectFacts
    <3>2. s \in StatusIn(bound) /\ s.pending = server'.pending
      BY <1>1, <1>3, StatusOfType
    <3> HIDE DEF s
    <3>3. PICK d \in Cursor(server') : <<m, s, d>> \in U /\ d.req = None
      BY <1>4, <3>1, <3>2, ShowsNone DEF U
    <3>4. Path(U, m, <<s>>, d) BY <3>3, PathOne
    <3>5. Path(U, m, down', d) BY ONLY <3>1, <3>4
    <3> QED BY <3>1, <3>3, <3>5
  <2>2. CASE ~Connect /\ pc # "run" BY <1>2, <1>4, <2>2
  <2>3. CASE ~Connect /\ pc = "run"
    <3>1. ServerFacts(bound) BY <1>1, <2>3, ServerStepFacts
    <3>2. Path(U, m, down, e) BY <1>4, <1>5, <2>3, PathWider
    <3>3. CASE Quiet
      <4>1. down' = down /\ (server'.host # 0 => server.host # 0)
        BY <3>1, <3>3 DEF ServerFacts, Quiet
      <4>2. Path(U, m, down', e) BY ONLY <3>2, <4>1
      <4>3. server'.host # 0 /\ server'.told => e.req = server'.pending
        BY <1>5, <2>3, <3>3, <4>1 DEF Quiet
      <4> QED BY <1>4, <4>2, <4>3
    <3>4. CASE server.host # 0 /\ \E s \in StatusIn(bound) : Tells(s)
      <4>1. PICK s \in StatusIn(bound) : Tells(s) BY <3>4
      <4>2. PICK d \in Cursor(server') : <<e, s, d>> \in U /\ d.req = s.pending
        BY <1>1, <1>5, <2>3, <3>1, <3>4, <4>1, TellsLeads DEF U
      <4>3. down' = Append(down, s) /\ (server'.host # 0 => s.pending = server'.pending)
        BY <4>1 DEF Tells
      <4>4. Path(U, m, Append(down, s), d) BY <1>1, <3>2, <4>2, PathAppend
      <4>5. Path(U, m, down', d) BY ONLY <4>3, <4>4
      <4> QED BY <4>2, <4>3, <4>5
    <3> QED BY <3>1, <3>3, <3>4 DEF ServerFacts
  <2> QED BY <2>1, <2>2, <2>3
<1>7. StatusesLead'
  <2>1. Path(U, c, statuses, m) BY <1>4, <1>5, PathWider
  <2>2. Path(U, c, statuses', m) BY ONLY <1>2, <2>1
  <2>3. U = Shows(bound', server') BY <1>2 DEF U
  <2>4. RungOK(c)' BY <1>2, <1>5 DEF RungOK
  <2>5. c.req = term'.status.pending BY <1>2, <1>5
  <2> QED BY <1>4, <1>6, <2>2, <2>3, <2>4, <2>5 DEF StatusesLead
<1>8. RequestRung' BY <1>2, <1>3 DEF ShownOK, RequestRung
<1>9. HidesOnlyAnswered' BY <1>2, <1>3 DEF ShownOK, HidesOnlyAnswered
<1>10. DismissedIsPending' /\ PromptIsLive'
  BY <1>2 DEF ShownOK, DismissedIsPending, PromptIsLive
<1> QED BY <1>7, <1>8, <1>9, <1>10 DEF ShownOK

\* The steps of websocket_loop that leave the server alone.
LEMMA ShownTransport ==
  ASSUME Types, ShownOK,
         ReadStatus \/ ReportEnded \/ Report \/ ConnectFails \/ ConnectGone \/ Lose \/ Drain
  PROVE  ShownOK'
<1>1. /\ bound' = bound /\ term' = term /\ rung' = rung /\ server' = server
  BY DEF ReadStatus, ReportEnded, Report, ConnectFails, ConnectGone, Lose, Drain, host
<1> DEFINE S == Shows(bound, server)
<1>2. statuses \in Seq(StatusIn(bound)) /\ down \in Seq(StatusIn(bound))
  BY DEF Types, StatusesOK
<1>3. PICK c \in Cursor(server), m \in Cursor(server), e \in Cursor(server) :
        /\ c.req = term.status.pending /\ RungOK(c)
        /\ Path(S, c, statuses, m)
        /\ pc = "run" => /\ Path(S, m, down, e)
                         /\ server.host # 0 /\ server.told => e.req = server.pending
  BY DEF ShownOK, StatusesLead
<1> HIDE DEF S
<1>4. \E d \in Cursor(server) :
        /\ Path(S, c, statuses', d)
        /\ pc' = "run" => /\ Path(S, d, down', e)
                          /\ server.host # 0 /\ server.told => e.req = server.pending
  <2>1. CASE ReadStatus
    <3> DEFINE s == Head(down)
    <3>1. /\ pc = "run" /\ down # <<>> /\ down' = Tail(down) /\ statuses' = Append(statuses, s)
      BY <2>1 DEF ReadStatus
    <3>2. s \in StatusIn(bound) BY <1>2, <3>1
    <3>3. PICK d : <<m, s, d>> \in S /\ Path(S, d, Tail(down), e)
      BY <1>2, <1>3, <3>1, PathHead
    <3> HIDE DEF s
    <3>4. d \in Cursor(server) BY <3>3, ShowsSteps DEF S
    <3>5. Path(S, c, Append(statuses, s), d) BY <1>2, <1>3, <3>2, <3>3, PathAppend
    <3>6. Path(S, c, statuses', d) /\ Path(S, d, down', e) BY ONLY <3>1, <3>3, <3>5
    <3> QED BY <1>3, <3>1, <3>4, <3>6
  <2>2. CASE ReportEnded \/ Report
    <3>1. PICK s \in StatusIn(bound) : s.pending = None /\ statuses' = Append(statuses, s)
      BY <2>2, PlainStatuses DEF ReportEnded, Report
    <3>2. PICK d \in Cursor(server) : <<m, s, d>> \in S BY <3>1, ShowsNone DEF S
    <3>3. Path(S, c, Append(statuses, s), d) BY <1>2, <1>3, <3>1, <3>2, PathAppend
    <3>4. Path(S, c, statuses', d) BY ONLY <3>1, <3>3
    <3>5. pc' # "run" BY <2>2 DEF ReportEnded, Report
    <3> QED BY <3>2, <3>4, <3>5
  <2>3. CASE ConnectFails \/ ConnectGone \/ Lose \/ Drain
    <3>1. statuses' = statuses /\ pc' # "run"
      BY <2>3 DEF ConnectFails, ConnectGone, Lose, Drain
    <3> QED BY <1>3, <3>1
  <2> QED BY <2>1, <2>2, <2>3
<1>5. StatusesLead'
  <2>1. PICK d \in Cursor(server) :
        /\ Path(S, c, statuses', d)
        /\ pc' = "run" => /\ Path(S, d, down', e)
                          /\ server.host # 0 /\ server.told => e.req = server.pending
    BY <1>4
  <2>2. S = Shows(bound', server') /\ Cursor(server') = Cursor(server) BY <1>1 DEF S
  <2>3. RungOK(c)' BY <1>1, <1>3 DEF RungOK
  <2> QED BY <1>1, <1>3, <2>1, <2>2, <2>3 DEF StatusesLead
<1>6. /\ RequestRung' /\ HidesOnlyAnswered' /\ DismissedIsPending' /\ PromptIsLive'
  BY <1>1 DEF ShownOK, RequestRung, HidesOnlyAnswered, DismissedIsPending, PromptIsLive
<1> QED BY <1>5, <1>6 DEF ShownOK

LEMMA NextShown == Types /\ ShownOK /\ [Next]_vars => ShownOK'
<1> SUFFICES ASSUME Types, ShownOK, [Next]_vars PROVE ShownOK' OBVIOUS
<1>1. CASE SyncStatus BY <1>1, ShownSync
<1>2. CASE ServerActs BY <1>2, ShownServer
<1>3. CASE ReadStatus \/ ReportEnded \/ Report \/ ConnectFails \/ ConnectGone \/ Lose \/ Drain
  BY <1>3, ShownTransport
<1>4. CASE /\ ~SyncStatus /\ ~ServerActs
           /\ ~(ReadStatus \/ ReportEnded \/ Report \/ ConnectFails \/ ConnectGone
                \/ Lose \/ Drain)
  <2>1. /\ bound' = bound /\ rung' = rung /\ statuses' = statuses /\ down' = down
        /\ server' = server /\ pc' = pc
        /\ HandleFrame \/ ShellDraws \/ term' = term
    BY <1>4, WhoChanges DEF ServerActs
  <2>2. term \in Terminal BY DEF Types, TermOK
  <2>3. /\ term' \in Terminal /\ term'.status = term.status
        /\ request(term) # None => term'.scroll \in {term.scroll, 0}
        /\ \/ term'.dismissed = term.dismissed /\ term'.answered = term.answered
           \/ /\ request(term) # None
              /\ term'.dismissed = request(term).viewer
              /\ term'.answered = request(term).n
    <3>1. CASE HandleFrame BY <3>1, FrameHandled
    <3>2. CASE ShellDraws
      <4>1. PICK screen \in Screen : term' = handle_pty_output(term, screen)
        BY <3>2 DEF ShellDraws
      <4> QED BY <2>2, <4>1, DrawTerminal
    <3>3. CASE term' = term BY <2>2, <3>3
    <3> QED BY <2>1, <3>1, <3>2, <3>3
  <2>4. (RequestRung /\ DismissedIsPending /\ HidesOnlyAnswered /\ PromptIsLive)'
    BY <2>1, <2>2, <2>3, ShownAside
  <2>5. StatusesLead' BY <2>1, <2>3 DEF ShownOK, StatusesLead, RungOK
  <2> QED BY <2>4, <2>5 DEF ShownOK
<1> QED BY <1>1, <1>2, <1>3, <1>4

LEMMA ShownAlways == Spec => []ShownOK
BY InitShown, NextShown, TypesAlways, PTL DEF Spec

(* While the prompt asks, the host sees the screen's live end: a status with *)
(* a request ends scrolling, and nothing scrolls under the prompt            *)
(* (sync_status, scroll).                                                    *)
THEOREM PromptStaysLive == Spec => []PromptIsLive
<1>1. ShownOK => PromptIsLive BY DEF ShownOK
<1> QED BY <1>1, ShownAlways, PTL

(* A request is never hidden by the answer to another one, unless the server *)
(* let the earlier one lapse without a word and the host cannot know of it   *)
(* (dismissed_viewer_id).                                                    *)
THEOREM OnlyAnsweredIsHidden == Spec => []HidesOnlyAnswered
<1>1. ShownOK => HidesOnlyAnswered BY DEF ShownOK
<1> QED BY <1>1, ShownAlways, PTL

(* The bell rings once for each request, however often its status is         *)
(* repeated and over however many connections: the statuses on their way     *)
(* lead from the request that is shown to requests that are new.             *)
THEOREM OneRingEach == Spec => []BellRingsOnce
<1>1. Types /\ ShownOK => BellRingsOnce
  <2> SUFFICES ASSUME Types, ShownOK PROVE BellRingsOnce OBVIOUS
  <2>1. PICK c : RungOK(c) BY DEF ShownOK, StatusesLead
  <2>2. ASSUME NEW n \in DOMAIN rung PROVE rung[n] <= 1
    <3>1. rung[n] \in {0, 1} BY <2>1 DEF RungOK
    <3> QED BY <3>1
  <2> QED BY <2>2 DEF ShownOK, RequestRung, BellRingsOnce
<1> QED BY <1>1, ShownAlways, TypesAlways, PTL

----------------------------------------------------------------------------
(* Grants.                                                                 *)

\* Counts the approvals of v.
Counts(v) ==
  {x \in Nat \X Answer \X Nat :
     x[3] = x[1] + IF x[2].kind = "approve" /\ x[2].viewer = v THEN 1 ELSE 0}

LEMMA CountsSteps ==
  ASSUME NEW v, NEW k \in Nat, NEW d \in Answer, NEW m
  PROVE  <<k, d, m>> \in Counts(v) <=>
           m = k + IF d.kind = "approve" /\ d.viewer = v THEN 1 ELSE 0
BY DEF Counts

\* The approvals of v that are queued or on their way have not been used.
UnusedFor(v) ==
  \E a, b, m \in Nat :
    /\ Path(Counts(v), a, up, b)
    /\ Path(Counts(v), b, control, m)
    /\ m - a <= approved[v]

GrantsOK == \A v \in Viewer : UnusedFor(v)

LEMMA CountsUp ==
  ASSUME NEW v, NEW q \in Seq(Answer), NEW a \in Nat, NEW b, Path(Counts(v), a, q, b)
  PROVE  b \in Nat /\ a <= b
<1> DEFINE I == {k \in Nat : a <= k}
<1>1. ASSUME NEW i \in 1 .. Len(q), NEW k, NEW m, k \in I, <<k, q[i], m>> \in Counts(v)
      PROVE  m \in I
  <2>1. /\ k \in Nat /\ m \in Nat
        /\ m = k + IF q[i].kind = "approve" /\ q[i].viewer = v THEN 1 ELSE 0
    BY <1>1 DEF Counts
  <2> QED BY <1>1, <2>1
<1>2. a \in I OBVIOUS
<1> HIDE DEF I
<1>3. b \in I BY <1>1, <1>2, PathKeeps
<1> QED BY <1>3 DEF I

LEMMA NextGrants ==
  ASSUME Types, GrantsOK, [Next]_vars
  PROVE  /\ GrantsOK'
         /\ server'.controller \in {None, server.controller} \/ approved[server'.controller] > 0
<1>1. /\ bound \in Bounds /\ server \in ServerIn(bound)
      /\ control \in Seq(Answer) /\ up \in Seq(Answer) /\ Len(control) <= ControlCapacity
      /\ approved \in [Viewer -> Int] /\ conn \in Nat
  BY BoundFields DEF Types, DecisionsOK, CountsOK, NetworkOK
<1>2. /\ server'.controller \in {None, server.controller}
         \/ (Decide /\ Head(up).kind = "approve" /\ server'.controller = Head(up).viewer)
  <2>1. CASE Connect BY <1>1, <2>1, ConnectFacts
  <2>2. CASE ServerActs /\ ~Connect BY <1>1, <2>2, ServerStepFacts
  <2>3. CASE server' = server BY <2>3
  <2> QED BY <2>1, <2>2, <2>3, WhoChanges
<1>3. server' \in ServerIn(bound) /\ server'.controller \in Viewer \cup {None}
  <2>1. bound' = bound /\ (server \in ServerIn(bound))' BY WhoChanges, StatusSteps
  <2>2. server' \in ServerIn(bound') BY <2>1
  <2>3. server' \in ServerIn(bound) BY <2>1, <2>2
  <2>4. server' \in Server BY <2>3 DEF ServerIn
  <2> QED BY <2>3, <2>4, ServerFields
<1>4. ASSUME NEW v \in Viewer
      PROVE  /\ UnusedFor(v)'
             /\ server'.controller = v /\ server.controller # v => approved[v] > 0
  <2> DEFINE S == Counts(v)
  <2>1. PICK a \in Nat, b \in Nat, m \in Nat :
          Path(S, a, up, b) /\ Path(S, b, control, m) /\ m - a <= approved[v]
    BY DEF GrantsOK, UnusedFor
  <2> HIDE DEF S
  <2>2. a <= b /\ b <= m BY <1>1, <2>1, CountsUp DEF S
  <2>3. approved[v] \in Int /\ v # None BY <1>1, TerminalAssumption
  \* The end of the path, when decisions go that have not been sent.
  <2>4. Path(S, b, <<>>, b) /\ \A k : Path(S, k, <<>>, k) BY PathEmpty
  <2>5. CASE HandleFrame
    <3> DEFINE d == handle_input(term, Head(frames)).decision
    <3>1. control' = enqueue_control(d) /\ (d # None => d \in Answer)
      BY <2>5, FrameHandled
    <3>2. /\ up' = up /\ server' = server
          /\ approved' = IF d # None /\ d.kind = "approve"
                         THEN [approved EXCEPT ![d.viewer] = @ + 1] ELSE approved
      BY <2>5 DEF HandleFrame, network
    <3> HIDE DEF d
    <3>3. control' = control \/ (d # None /\ control' = Append(control, Stamped(d)))
      BY <1>1, <3>1, Enqueued
    <3>4. /\ approved'[v] = approved[v]
             + IF d # None /\ d.kind = "approve" /\ d.viewer = v THEN 1 ELSE 0
      BY <1>1, <2>3, <3>2
    <3>5. CASE control' = control
      <4>1. m - a <= approved'[v] BY <2>1, <2>3, <3>4
      <4>2. Path(S, a, up', b) /\ Path(S, b, control', m) BY ONLY <2>1, <3>2, <3>5
      <4>3. UnusedFor(v)' BY <4>1, <4>2 DEF UnusedFor, S
      <4> QED BY <3>2, <4>3
    <3>6. CASE d # None /\ control' = Append(control, Stamped(d))
      <4> DEFINE j == IF d.kind = "approve" /\ d.viewer = v THEN 1 ELSE 0
      <4>1. /\ Stamped(d) \in Answer /\ Stamped(d).kind = d.kind
            /\ Stamped(d).viewer = d.viewer
        BY <3>1, <3>6, StampedType
      <4>2. <<m, Stamped(d), m + j>> \in S BY <4>1, CountsSteps DEF S
      <4>3. m + j \in Nat /\ j \in Nat OBVIOUS
      <4>4. approved'[v] = approved[v] + j BY <3>4, <3>6
      <4> HIDE DEF j
      <4>5. Path(S, b, Append(control, Stamped(d)), m + j)
        BY <1>1, <2>1, <4>1, <4>2, PathAppend
      <4>6. Path(S, a, up', b) /\ Path(S, b, control', m + j) BY ONLY <2>1, <3>2, <3>6, <4>5
      <4>7. (m + j) - a <= approved'[v] BY <2>1, <2>3, <4>3, <4>4
      <4>8. UnusedFor(v)' BY <4>3, <4>6, <4>7 DEF UnusedFor, S
      <4> QED BY <3>2, <4>8
    <3> QED BY <3>3, <3>5, <3>6
  <2>6. CASE Decide
    <3> DEFINE d == Head(up)
               j == IF d.kind = "approve" /\ d.viewer = v THEN 1 ELSE 0
    <3>1. /\ up # <<>> /\ up' = Tail(up) /\ control' = control
          /\ approved' = IF server'.controller \notin {None, server.controller}
                         THEN [approved EXCEPT ![server'.controller] = @ - 1] ELSE approved
      BY <2>6 DEF Decide
    <3>2. d \in Answer BY <1>1, <3>1
    <3>3. PICK k : <<a, d, k>> \in S /\ Path(S, k, Tail(up), b)
      BY <1>1, <2>1, <3>1, PathHead
    <3>4. k = a + j /\ k \in Nat /\ j \in Nat BY <3>2, <3>3, CountsSteps DEF S
    <3>5. k <= b
      <4>1. Tail(up) \in Seq(Answer) BY <1>1, <3>1
      <4> QED BY <3>3, <3>4, <4>1, CountsUp DEF S
    <3>6. server'.controller = v /\ server.controller # v => j = 1
      BY <1>2, <2>3
    <3> HIDE DEF d, j
    <3>7. server'.controller = v /\ server.controller # v => approved[v] > 0
      BY <2>1, <2>2, <2>3, <3>4, <3>5, <3>6
    <3>8. m - k <= approved'[v]
      <4>1. CASE server'.controller = v /\ server.controller # v
        <5>1. approved'[v] = approved[v] - 1 BY <1>1, <2>3, <3>1, <4>1
        <5> QED BY <2>1, <2>3, <3>4, <3>6, <4>1, <5>1
      <4>2. CASE ~(server'.controller = v /\ server.controller # v)
        <5>1. approved'[v] = approved[v] BY <1>1, <2>3, <3>1, <4>2
        <5> QED BY <2>1, <2>3, <3>4, <5>1
      <4> QED BY <4>1, <4>2
    <3>9. Path(S, k, up', b) /\ Path(S, b, control', m) BY ONLY <2>1, <3>1, <3>3
    <3>10. UnusedFor(v)' BY <3>4, <3>8, <3>9 DEF UnusedFor, S
    <3> QED BY <3>7, <3>10
  <2>7. CASE ~HandleFrame /\ ~Decide
    <3>1. approved' = approved /\ server'.controller \in {None, server.controller}
      BY <1>2, <2>7, WhoChanges
    <3>2. CASE SendDecisions
      <4>1. control' = <<>> /\ (up' = up \o control \/ up' = up) BY <3>2 DEF SendDecisions
      <4>2. CASE up' = up \o control
        <5>1. Path(S, a, up \o control, m) BY <1>1, <2>1, PathConcat
        <5>2. Path(S, a, up', m) /\ Path(S, m, control', m) BY ONLY <2>4, <4>1, <4>2, <5>1
        <5>3. UnusedFor(v)' BY <2>1, <3>1, <5>2 DEF UnusedFor, S
        <5> QED BY <2>3, <3>1, <5>3
      <4>3. CASE up' = up
        <5>1. Path(S, a, up', b) /\ Path(S, b, control', b) BY ONLY <2>1, <2>4, <4>1, <4>3
        <5>2. b - a <= approved'[v] BY <2>1, <2>2, <2>3, <3>1
        <5>3. UnusedFor(v)' BY <5>1, <5>2 DEF UnusedFor, S
        <5> QED BY <2>3, <3>1, <5>3
      <4> QED BY <4>1, <4>2, <4>3
    <3>3. CASE control' = <<>> /\ up' = up
      <4>1. Path(S, a, up', b) /\ Path(S, b, control', b) BY ONLY <2>1, <2>4, <3>3
      <4>2. b - a <= approved'[v] BY <2>1, <2>2, <2>3, <3>1
      <4>3. UnusedFor(v)' BY <4>1, <4>2 DEF UnusedFor, S
      <4> QED BY <2>3, <3>1, <4>3
    <3>4. CASE control' = control /\ up' = <<>>
      <4>1. Path(S, b, up', b) /\ Path(S, b, control', m) BY ONLY <2>1, <2>4, <3>4
      <4>2. m - b <= approved'[v] BY <2>1, <2>2, <2>3, <3>1
      <4>3. UnusedFor(v)' BY <4>1, <4>2 DEF UnusedFor, S
      <4> QED BY <2>3, <3>1, <4>3
    <3>5. CASE control' = control /\ up' = up
      <4>1. Path(S, a, up', b) /\ Path(S, b, control', m) BY ONLY <2>1, <3>5
      <4>2. m - a <= approved'[v] BY <2>1, <3>1
      <4>3. UnusedFor(v)' BY <4>1, <4>2 DEF UnusedFor, S
      <4> QED BY <2>3, <3>1, <4>3
    <3>6. \/ SendDecisions
          \/ control' = <<>> /\ up' = up
          \/ control' = control /\ up' = <<>>
          \/ control' = control /\ up' = up
      <4>1. CASE ServerActs
        BY <2>7, <4>1 DEF ServerActs, Ask, Withdraw, Rebroadcast, Poll, HostLost,
                          HostReplaced, SessionEnds, Connect, network
      <4>2. CASE Drain \/ ReportEnded \/ ReadStatus
        BY <4>2 DEF Drain, ReportEnded, ReadStatus
      <4> QED BY <2>7, <4>1, <4>2, WhoChanges
    <3> QED BY <3>2, <3>3, <3>4, <3>5, <3>6
  <2> QED BY <2>5, <2>6, <2>7
<1>5. GrantsOK' BY <1>4 DEF GrantsOK
<1>6. server'.controller \in {None, server.controller} \/ approved[server'.controller] > 0
  BY <1>3, <1>4
<1> QED BY <1>5, <1>6

(* A viewer is granted control no more often than the host has approved it,  *)
(* whatever was lost, late, or decided for another request                   *)
(* (handleControlApprove compares the viewers): each grant takes an approval *)
(* from the way up, and no approval of the host is there twice.              *)
THEOREM GrantsAreApproved == Spec => GrantIsApproved
<1>1. Init => GrantsOK
  <2> SUFFICES ASSUME Init, NEW v \in Viewer PROVE UnusedFor(v) BY DEF GrantsOK
  <2>1. control = <<>> /\ up = <<>> /\ approved[v] = 0 BY DEF Init
  <2>2. Path(Counts(v), 0, <<>>, 0) BY PathEmpty
  <2>3. Path(Counts(v), 0, up, 0) /\ Path(Counts(v), 0, control, 0) BY ONLY <2>1, <2>2
  <2>4. 0 - 0 <= approved[v] BY <2>1
  <2> QED BY <2>3, <2>4 DEF UnusedFor
<1>2. Types /\ GrantsOK /\ [Next]_vars => GrantsOK' BY NextGrants
<1>3. Types /\ GrantsOK /\ [Next]_vars =>
        [server'.controller \in {None, server.controller}
           \/ approved[server'.controller] > 0]_vars
  BY NextGrants
<1> QED BY <1>1, <1>2, <1>3, TypesAlways, PTL DEF Spec, GrantIsApproved
=============================================================================
