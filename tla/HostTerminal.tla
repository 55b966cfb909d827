---------------------------- MODULE HostTerminal ----------------------------
(***************************************************************************)
(* The approval prompt and the footer of the host's terminal               *)
(* (agent/src/terminal.rs: HostTerminal): what it does with a status, with *)
(* a frame of input and with the shell's output.  Each operator is one     *)
(* method, from the terminal before to the terminal after; the terminal's  *)
(* lock is held throughout.                                                *)
(*                                                                         *)
(* A request carries the number of the request in the server, n, which the *)
(* code cannot see: it tells requests apart by viewer and lease, and here  *)
(* all leases are the same.  conn, the connection a status came from, is   *)
(* not part of the code either.                                            *)
(***************************************************************************)
EXTENDS InputFraming

CONSTANTS
  Viewer,      \* the viewers
  None,        \* no viewer; no request
  Scrollback   \* lines the shell has scrolled off, in turns of the wheel

ASSUME TerminalAssumption == None \notin Viewer /\ Scrollback \in Nat

Request == [viewer : Viewer, n : Nat \ {0}]

\* What a request is to the code.
Same(r, s) ==
  \/ r = None /\ s = None
  \/ r # None /\ s # None /\ r.viewer = s.viewer

\* SessionStatus, the fields the host acts on
SessionStatus ==
  [ connected  : BOOLEAN,
    ended      : BOOLEAN,
    controller : Viewer \cup {None},
    pending    : Request \cup {None},
    conn       : Nat ]

\* SessionStatus::default
Disconnected ==
  [connected |-> FALSE, ended |-> FALSE, controller |-> None, pending |-> None, conn |-> 0]

Ended == [Disconnected EXCEPT !.ended = TRUE]

\* What the shell's program has made of the screen: lines of text, the alternate
\* screen, or a screen with mouse reports of its own.
Screen == {"lines", "full", "mouse"}

\* ModalDecision; the request it was made for, the keystroke it was made with, the
\* connection of the status it was made for, and whether that connection was known to
\* be lost, are not part of it.
Decision ==
  [ kind : {"approve", "reject", "revoke"}, viewer : Viewer \cup {None}, n : Nat,
    key : DOMAIN Keystroke, conn : Nat, late : BOOLEAN ]

Terminal ==
  [ status    : SessionStatus,
    dismissed : Viewer \cup {None},    \* dismissed_viewer_id
    answered  : Nat,                   \* the request that was dismissed
    guard     : [sequence : Seq(Code), paste : BOOLEAN],
    screen    : Screen,
    scroll    : 0 .. Scrollback ]

\* HostTerminal::new
new ==
  [ status |-> Disconnected, dismissed |-> None, answered |-> 0, guard |-> NoGuard,
    screen |-> "lines", scroll |-> 0 ]

----------------------------------------------------------------------------

\* HostTerminal::request: the request the prompt shows.
request(t) ==
  IF t.status.pending # None /\ t.status.pending.viewer = t.dismissed
  THEN None ELSE t.status.pending

owns_scroll(t) == t.screen = "lines"

\* HostTerminal::live_footer
footer(t) ==
  CASE request(t) # None            -> "prompt"
    [] OTHER -> IF t.status.ended                  THEN "ended"
                ELSE IF ~t.status.connected        THEN "disconnected"
                ELSE IF t.dismissed # None         THEN "sending"
                ELSE IF t.status.controller # None THEN "control"
                ELSE "view only"

\* render: the physical terminal reports clicks to the host's side.
CapturesMouse(t) ==
  \/ owns_scroll(t)
  \/ /\ t.screen # "mouse"
     /\ t.status.connected
     /\ t.status.controller # None \/ request(t) # None

\* Mutant: a dismissal outlives the request it was made for.
sync_status_keeps(t, status) ==
  LET synced == [t EXCEPT !.status = status]
  IN  [synced EXCEPT !.scroll = IF request(synced) # None THEN 0 ELSE @]

\* Mutant: the prompt comes up under what the host has scrolled to.
sync_status_scrolled(t, status) ==
  [t EXCEPT !.status = status,
            !.dismissed = IF status.pending = None THEN None ELSE @]

\* HostTerminal::sync_status
sync_status(t, status) ==
  LET synced == [t EXCEPT !.status = status,
                          !.dismissed = IF status.pending = None THEN None ELSE @]
  IN  [synced EXCEPT !.scroll = IF request(synced) # None THEN 0 ELSE @]

\* Mutant: every status with a request rings.
Rings_always(t, status) == request(sync_status(t, status)) # None

\* request_bell_pending, after which the frame of sync_status rings the bell
Rings(t, status) ==
  LET shown == request(sync_status(t, status))
  IN  shown # None /\ ~Same(shown, request(t))

\* HostTerminal::handle_pty_output: the program changes the screen.
handle_pty_output(t, screen) ==
  [t EXCEPT !.screen = screen, !.scroll = IF screen = "lines" THEN @ ELSE 0]

----------------------------------------------------------------------------
(* HostTerminal::handle_input.  Its result is the terminal and what becomes *)
(* of the frame: passed on to the shell, consumed, or a decision.           *)

Passthrough(t) == [term |-> t, pass |-> TRUE, decision |-> None]
Consumed(t) == [term |-> t, pass |-> FALSE, decision |-> None]
Decides(t, kind, viewer, n, key) ==
  [ term |-> t, pass |-> FALSE,
    decision |-> [kind |-> kind, viewer |-> viewer, n |-> n, key |-> key,
                  conn |-> t.status.conn, late |-> FALSE] ]

\* HostTerminal::decide_request, with a request shown
decide_request(t, kind, key) ==
  Decides([t EXCEPT !.dismissed = request(t).viewer, !.answered = request(t).n],
          kind, request(t).viewer, request(t).n, key)

OnFooter(report) == report.at \in {"allow", "deny"}

\* HostTerminal::scroll
scrolled(t, at) ==
  [t EXCEPT !.scroll = CASE at = "wheel" /\ @ < Scrollback -> @ + 1
                         [] at = "back" /\ @ > 0 -> @ - 1
                         [] OTHER -> @]
unscrolled(t) == [t EXCEPT !.scroll = 0]

\* A mouse report outside a paste: clicks on the footer decide or revoke, the
\* wheel scrolls the shell's lines, and the rest goes to a program that asked for
\* reports.
handle_report(t, report, key) ==
  CASE request(t) # None /\ OnFooter(report) ->
         IF report.pressed
         THEN decide_request(t, IF report.at = "allow" THEN "approve" ELSE "reject", key)
         ELSE Consumed(t)
    [] request(t) = None /\ OnFooter(report) /\ report.pressed
         /\ t.status.connected /\ t.status.controller # None ->
         Decides(t, "revoke", None, 0, key)
    [] OTHER ->
         IF owns_scroll(t)
         THEN Consumed(IF request(t) = None /\ report.pressed
                       THEN scrolled(t, report.at) ELSE t)
         ELSE IF OnFooter(report) \/ t.screen # "mouse" \/ request(t) # None
         THEN Consumed(t) ELSE Passthrough(t)

\* Anything else: with a request shown a key decides, and nothing passes.
handle_key(t, g, frame) ==
  LET key == frame[1].key
      b   == frame[1].b
  IN  IF request(t) = None THEN Passthrough(t)
      ELSE IF IsKey(g, frame) /\ b = "y" THEN decide_request(t, "approve", key)
      ELSE IF IsKey(g, frame) /\ b \in {"n", "ESC"} THEN decide_request(t, "reject", key)
      ELSE Consumed(t)

\* HostTerminal::handle_input
handle_input(t, frame) ==
  LET g     == t.guard
      after == [t EXCEPT !.guard = guarded(g, frame)]
  IN  IF g.paste THEN handle_key(after, g, frame)
      ELSE IF IsReport(frame) THEN handle_report(after, mouse_report(frame), frame[1].key)
      ELSE handle_key(unscrolled(after), g, frame)
=============================================================================
