----------------------------- MODULE HostScreen -----------------------------
(***************************************************************************)
(* What the agent does to the host's physical terminal: the alternate      *)
(* screen and the modes it draws with (agent/src/terminal.rs: HostTerminal *)
(* start, render and stop, ChangedModes), and the mode of the console      *)
(* (platform.rs and platform_windows.rs: RawTerminal).                     *)
(*                                                                         *)
(* A mode is on or off.  A terminal either knows how to save a mode and to *)
(* restore it (CSI ? s and CSI ? r) or ignores both.                       *)
(***************************************************************************)
EXTENDS Integers

\* DECTCEM (25), DECAWM (7), cursor keys (1) and keypad (66), bracketed paste (2004),
\* mouse tracking (9, 1000, 1002, 1003, one group) and its encoding (1005, 1006).
Mode == {"cursor", "wrap", "keys", "paste", "mouse", "encoding"}
InputMode == Mode \ {"cursor", "wrap"}

Terminal ==
  [ modes : [Mode -> BOOLEAN],
    saved : [Mode -> BOOLEAN],
    saves : BOOLEAN,            \* knows how to save and restore
    alternate : BOOLEAN ]

\* A terminal as it is after a reset.
Default == [m \in Mode |-> m \in {"cursor", "wrap"}]

\* The shell's virtual screen: the modes the program asks for, and whether it is the
\* alternate one.
Drawn == Mode \ {"wrap"}
Program == [Drawn \cup {"alternate"} -> BOOLEAN]

\* What is shown of it.  attends: the footer shows a request or who has control;
\* scrolled: back to earlier lines.
View == [attends : BOOLEAN, scrolled : BOOLEAN]

----------------------------------------------------------------------------
(* HostTerminal, the part that draws.                                      *)

\* changed: ChangedModes.  previous: previous_screen, or the defaults.
Compositor ==
  [ started : BOOLEAN, finished : BOOLEAN, changed : SUBSET Mode,
    previous : [Drawn -> BOOLEAN] ]

\* The virtual screen before the program has written.
Idle == [m \in Drawn \cup {"alternate"} |-> m = "cursor"]

\* HostTerminal::new
new ==
  [ started |-> FALSE, finished |-> FALSE, changed |-> {},
    previous |-> [m \in Drawn |-> Default[m]] ]

\* ChangedModes::remember: a mode is saved before it is changed for the first time.
remember(tty, changed, modes) ==
  IF tty.saves
  THEN [tty EXCEPT !.saved = [m \in Mode |-> IF m \in modes \ changed
                                             THEN tty.modes[m] ELSE tty.saved[m]]]
  ELSE tty

\* ChangedModes::restore
restore(tty, changed) ==
  IF tty.saves
  THEN [tty EXCEPT !.modes = [m \in Mode |-> IF m \in changed
                                             THEN tty.saved[m] ELSE tty.modes[m]]]
  ELSE tty

\* The wheel scrolls: the program has not asked for it, and the lines are kept.
owns_scroll(program) == ~program["alternate"] /\ ~program["mouse"]

\* Mouse reports are asked for although the program has not: for the wheel, or the footer.
captures(program, view) ==
  owns_scroll(program) \/ (view.attends /\ ~program["mouse"])

\* The physical modes for a program: its own and the captured mouse's, and no cursor among
\* earlier lines.
wanted(program, view) ==
  [m \in Drawn |->
     CASE m = "cursor"                -> program[m] /\ ~view.scrolled
       [] m \in {"mouse", "encoding"} -> program[m] \/ captures(program, view)
       [] OTHER                       -> program[m]]

\* What a frame changes.
changes(c, want) == {m \in InputMode : want[m] # c.previous[m]} \cup {"cursor", "wrap"}

\* HostTerminal::render: drawn with the cursor hidden and without wrapping.
render(c, tty, program, view) ==
  LET want    == wanted(program, view)
      modes   == changes(c, want)
      saved   == remember(tty, c.changed, modes)
  IN  IF c.finished THEN [compositor |-> c, tty |-> tty]
      ELSE [ compositor |-> [c EXCEPT !.changed = @ \cup modes, !.previous = want],
             tty |-> [saved EXCEPT !.modes =
                        [m \in Mode |-> IF m = "wrap" THEN FALSE
                                        ELSE IF m \in modes THEN want[m] ELSE @[m]]] ]

\* render when the write fails: the modes count as changed, the screen not as drawn.
render_fails(c, program, view) ==
  IF c.finished THEN c ELSE [c EXCEPT !.changed = @ \cup changes(c, wanted(program, view))]

\* The modes that nobody can bring back after such a write, of which nothing or all may
\* have arrived: on a terminal that saves modes those that were to be saved, on others
\* those that were to be changed.
spoilt(c, tty, program, view) ==
  LET modes == changes(c, wanted(program, view))
  IN  IF c.finished THEN {} ELSE IF tty.saves THEN modes \ c.changed ELSE modes \ {"wrap"}

\* HostTerminal::start, up to the first frame, when the shell has not asked for anything
started(c) == [c EXCEPT !.started = TRUE]
entered(tty) == [tty EXCEPT !.alternate = TRUE]

\* Mutant: what was saved is restored before the modes in force are released.
stop_swapped(c, tty) ==
  LET back == restore(tty, c.changed)
  IN  IF c.finished \/ ~c.started THEN [compositor |-> c, tty |-> tty]
      ELSE [ compositor |-> [c EXCEPT !.finished = TRUE],
             tty |-> [back EXCEPT !.alternate = FALSE, !.modes =
                        [m \in Mode |->
                           CASE m = "cursor" -> @[m] \/ ~c.previous[m]
                             [] m = "wrap"   -> @[m] \/ m \in c.changed
                             [] OTHER        -> @[m] /\ ~c.previous[m]]] ]

\* HostTerminal::stop: the modes still in force are released, wrapping is turned on
\* again, and what was saved is restored.
stop(c, tty) ==
  LET released ==
        [m \in Mode |->
           CASE m = "cursor" -> tty.modes[m] \/ ~c.previous[m]
             [] m = "wrap"   -> tty.modes[m] \/ m \in c.changed
             [] OTHER        -> tty.modes[m] /\ ~c.previous[m]]
  IN  IF c.finished \/ ~c.started THEN [compositor |-> c, tty |-> tty]
      ELSE [ compositor |-> [c EXCEPT !.finished = TRUE],
             tty |-> restore([tty EXCEPT !.modes = released, !.alternate = FALSE],
                             c.changed) ]

----------------------------------------------------------------------------
(* RawTerminal.                                                            *)

\* The console: whether it edits lines and echoes, whether it interprets control
\* sequences in output, and its code pages; Unix has the first only.
Console == [cooked : BOOLEAN, plain : BOOLEAN, oldPages : BOOLEAN]

\* What RawTerminal::enter has to undo.  pages: the code pages can be read; active:
\* the mode of the output could be set.
Undo == [console : Console, pages : BOOLEAN, active : BOOLEAN]

\* RawTerminal::enter, after the last step that can fail
enter(console, windows, pages, active) ==
  [ undo    |-> [console |-> console, pages |-> pages, active |-> active],
    console |-> [ cooked   |-> FALSE,
                  plain    |-> IF windows /\ active THEN FALSE ELSE console.plain,
                  oldPages |-> IF windows /\ pages THEN FALSE ELSE console.oldPages ] ]

\* RawTerminal::drop
leave(console, undo) ==
  [ cooked   |-> undo.console.cooked,
    plain    |-> IF undo.active THEN undo.console.plain ELSE console.plain,
    oldPages |-> IF undo.pages THEN undo.console.oldPages ELSE console.oldPages ]
=============================================================================
