---------------------------- MODULE InputFraming ----------------------------
(***************************************************************************)
(* What the host types, from the bytes its terminal sends to the frames    *)
(* the approval prompt and the shell are given (agent/src/terminal.rs:     *)
(* InputDecoder, InputGuard, mouse_report).                                *)
(*                                                                         *)
(* A byte carries the keystroke it belongs to, which the code cannot see.  *)
(* The parameter of a control sequence, and the body of a mouse report,    *)
(* are one byte here.                                                      *)
(***************************************************************************)
EXTENDS Integers, Sequences, SequencesExt

CONSTANT MaxFrame   \* 256: the longest control sequence that is kept together

ASSUME MaxFrameAssumption == MaxFrame \in Nat /\ MaxFrame > 2

\* What a keystroke sends.  allow, deny, output and wheel are the bodies of mouse
\* reports: a left click on the two words of the footer or above it, and the two
\* turns of the wheel; release is the end of a click.
Keystroke ==
  [ y       |-> <<"y">>,
    n       |-> <<"n">>,
    escape  |-> <<"ESC">>,
    arrow   |-> <<"ESC", "[", "A">>,
    keypad  |-> <<"ESC", "O", "y">>,
    long    |-> <<"ESC", "[", "1", "1", "1", "1", "1", "y">>,
    paste   |-> <<"ESC", "[", "200", "~", "y", "ESC", "[", "201", "~">>,
    allow   |-> <<"ESC", "[", "<", "allow", "M">>,
    release |-> <<"ESC", "[", "<", "allow", "m">>,
    deny    |-> <<"ESC", "[", "<", "deny", "M">>,
    output  |-> <<"ESC", "[", "<", "output", "M">>,
    wheel   |-> <<"ESC", "[", "<", "wheel", "M">>,
    back    |-> <<"ESC", "[", "<", "back", "M">> ]

Code == UNION {Range(Keystroke[key]) : key \in DOMAIN Keystroke}
Byte == [b : Code, key : DOMAIN Keystroke]

bytesOf(key) ==
  [i \in DOMAIN Keystroke[key] |-> [b |-> Keystroke[key][i], key |-> key]]

plain(frame) == [i \in DOMAIN frame |-> frame[i].b]

\* 0x40 ..= 0x7e
Final(b) == b \in {"[", "O", "A", "M", "m", "n", "y", "~"}

----------------------------------------------------------------------------
(* InputDecoder.                                                           *)

\* The bytes kept back are a whole control sequence.
Complete(pending) ==
  LET p == plain(pending)
  IN  /\ p \notin {<<"ESC">>, <<"ESC", "[">>, <<"ESC", "O">>}
      /\ p[2] = "[" => Final(Last(p))

framesOf(text) == IF text = <<>> THEN <<>> ELSE <<text>>

\* One byte; d.text is the text and d.frames the frames of this read so far.
feedByte(d, byte) ==
  IF d.pending = <<>> /\ byte.b # "ESC"
  THEN [d EXCEPT !.text = Append(@, byte)]
  ELSE LET pending == Append(d.pending, byte)
           whole   == Complete(pending) \/ Len(pending) >= MaxFrame
       IN  [ text    |-> <<>>,
             pending |-> IF whole THEN <<>> ELSE pending,
             frames  |-> d.frames \o framesOf(d.text)
                           \o (IF whole THEN <<pending>> ELSE <<>>) ]

\* InputDecoder::feed: the bytes kept back, and the frames of this read.
feed(pending, bytes) ==
  LET after[i \in 0 .. Len(bytes)] ==
        IF i = 0 THEN [pending |-> pending, text |-> <<>>, frames |-> <<>>]
        ELSE feedByte(after[i - 1], bytes[i])
      d == after[Len(bytes)]
  IN  [pending |-> d.pending, frames |-> d.frames \o framesOf(d.text)]

\* InputDecoder::flush_key: nothing has come for 25 ms.
flush_key(pending) ==
  IF IsPrefix(<<"ESC", "[", "<">>, plain(pending))
  THEN [pending |-> pending, frames |-> <<>>]
  ELSE [pending |-> <<>>, frames |-> framesOf(pending)]

----------------------------------------------------------------------------
(* mouse_report.                                                           *)

IsReport(frame) ==
  LET p == plain(frame)
  IN  /\ Len(p) = 5
      /\ IsPrefix(<<"ESC", "[", "<">>, p)
      /\ p[5] \in {"M", "m"}

mouse_report(frame) == [at |-> frame[4].b, pressed |-> frame[5].b = "M"]

----------------------------------------------------------------------------
(* InputGuard.                                                             *)

NoGuard == [sequence |-> <<>>, paste |-> FALSE]

\* Mutant: the marks of a paste are looked for within one frame only.
guardByte_forgets(g, b) ==
  IF b = "ESC" THEN [g EXCEPT !.sequence = <<b>>]
  ELSE [g EXCEPT !.sequence = <<>>]

guardByte(g, b) ==
  LET s == Append(g.sequence, b)
      over == \/ Len(s) = 2 /\ b # "["
              \/ Len(s) > 2 /\ Final(b)
              \/ Len(s) > MaxFrame
  IN  CASE b = "ESC" -> [g EXCEPT !.sequence = <<b>>]
        [] b # "ESC" /\ g.sequence = <<>> -> g
        [] OTHER -> [ sequence |-> IF over THEN <<>> ELSE s,
                      paste    |-> CASE s = <<"ESC", "[", "200", "~">> -> TRUE
                                     [] s = <<"ESC", "[", "201", "~">> -> FALSE
                                     [] OTHER -> g.paste ]

\* InputGuard::explicit_key: a frame of one byte, outside pastes and sequences,
\* is a key.
IsKey(g, frame) == g.sequence = <<>> /\ ~g.paste /\ Len(frame) = 1

guarded(g, frame) ==
  LET after[i \in 0 .. Len(frame)] ==
        IF i = 0 THEN g ELSE guardByte(after[i - 1], frame[i].b)
  IN  after[Len(frame)]
=============================================================================
