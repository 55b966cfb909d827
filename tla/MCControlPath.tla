---------------------------- MODULE MCControlPath ----------------------------
(***************************************************************************)
(* Instances of ControlPath for TLC: queues of one, so that a second       *)
(* decision is dropped and a second status waits.  One instance is about   *)
(* the bytes of what is typed, one about the mouse and one about           *)
(* connections that are lost.                                              *)
(***************************************************************************)
EXTENDS ControlPath

\* One of the viewers; it makes the first request.
One == CHOOSE v \in Viewer : TRUE

\* Whatever sends an escape sequence, cut in every way, before a key that decides.
Typing ==
  [keys |-> {"y", "escape", "keypad", "long", "paste"}, presses |-> 2, cut |-> TRUE,
   askers |-> <<{One}>>, connections |-> 1, screens |-> 0, repeat |-> FALSE, flight |-> 1]

\* Clicks and the wheel, over every screen of the shell's program.
Clicking ==
  [keys |-> {"allow", "deny", "release", "output", "wheel", "back"}, presses |-> 2, cut |-> FALSE,
   askers |-> <<{One}>>, connections |-> 1, screens |-> 1, repeat |-> FALSE, flight |-> 1]

\* Two requests, of one viewer or of two, and two connections.
Losing ==
  [keys |-> {"y", "n"}, presses |-> 2, cut |-> FALSE,
   askers |-> <<{One}, Viewer>>, connections |-> 2, screens |-> 0, repeat |-> TRUE, flight |-> 1]

Instances == {Typing, Clicking, Losing}
=============================================================================
