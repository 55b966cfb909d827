---------------------------- MODULE MCAgentProcess ----------------------------
(***************************************************************************)
(* Instances of AgentProcess for TLC: the arguments, URLs and responses;   *)
(* what the host's screen is left as; what its console is left as; the     *)
(* threads that wait for each other.                                       *)
(***************************************************************************)
EXTENDS AgentProcess

CONSTANT Code   \* a code of SessionId

\* URLs and other words.
Segments == {"p", "s", "api", "session", "host", Code}
At(scheme, path) ==
  [scheme |-> scheme, user |-> FALSE, host |-> "h", port |-> NoPort, path |-> path, query |-> FALSE]

LocalServer == [At("http", <<>>) EXCEPT !.port = 5173]

Option(name, value) == [option |-> name, value |-> value, text |-> Reference(<<name>>)]
Text(text) == [option |-> "none", value |-> None, text |-> text]

Host(scheme) == At(scheme, <<"api", "session", Code, "host">>)

CommandLines ==
  { <<>>,
    <<Option("version", None)>>,
    <<Option("server", None), Text(At("https", <<"p">>))>>,
    <<Option("server", At("https", <<>>)), Option("session", Code)>>,
    <<Option("shell", None), Option("version", None), Option("session", None), Text(Code)>>,
    <<Option("server", Host("ws"))>>,
    <<Option("server", [Host("wss") EXCEPT !.query = TRUE])>>,
    <<Option("server", Host("ws")), Option("session", Code)>>,
    <<Option("session", None), Option("shell", None)>>,
    <<Option("server", None)>>,
    <<Option("server", Empty)>>,
    <<Text(Code)>> }
  \cup { <<Option("server", url)>> :
           url \in { [LocalServer EXCEPT !.user = TRUE], [LocalServer EXCEPT !.port = 65536],
                     [LocalServer EXCEPT !.host = "none"], [LocalServer EXCEPT !.scheme = "ftp"] } }

\* Responses: up to two chunks, each of which may say another length; all that is sent,
\* or any part of it, arrives, and the connection is closed or, with one chunk, fails.
Chunk == [length : {1, 2}, says : {Bad, 1, 2, MaxUsize - 2, MaxUsize - 1, MaxUsize}]
Chunks == {<<>>} \cup [{1} -> Chunk] \cup [{1, 2} -> Chunk]

Sent(chunks, chunked) ==
  [ addresses |-> <<FALSE, TRUE>>, head |-> "ok", chunked |-> chunked, chunks |-> chunks,
    arrived |-> 0, ends |-> "closed", session |-> Code ]

Responses ==
  LET all   == {Sent(c, b) : c \in Chunks, b \in BOOLEAN}
      whole(r) == [r EXCEPT !.arrived = Len(framed(r))]
      plain == whole(Sent(<<[length |-> 1, says |-> 1]>>, TRUE))
      parts(r) == {[r EXCEPT !.arrived = k] : k \in 0 .. Len(framed(r))}
      fails(r) == [r EXCEPT !.ends = "failed"]
  IN  UNION {parts(r) : r \in all}
      \cup {fails(r) : r \in UNION {parts(s) : s \in {t \in all : Len(t.chunks) <= 1}}}
      \cup { [plain EXCEPT !.head = "refused"], [plain EXCEPT !.head = "torn"],
             [plain EXCEPT !.addresses = <<FALSE>>], [plain EXCEPT !.addresses = <<>>] }

\* Terminals as the agent may find them: with input modes on and the cursor hidden, or, in
\* the other instances, as after a reset.
Odd == [m \in Mode |-> m \notin {"cursor", "keys"}]
Tty(modes, saves) ==
  [modes |-> modes, saved |-> [m \in Mode |-> FALSE], saves |-> saves, alternate |-> FALSE]
Ttys == {Tty(Odd, TRUE), Tty(Odd, FALSE)}
Cooked == [cooked |-> TRUE, plain |-> TRUE, oldPages |-> TRUE]

\* Full-screen programs: with everything that Idle has not, and without the mouse.
FullScreen == [m \in DOMAIN Idle |-> m # "cursor"]
Editor == [FullScreen EXCEPT !["mouse"] = FALSE, !["encoding"] = FALSE]

Unix    == [windows |-> FALSE, pages |-> FALSE, active |-> FALSE]
Windows == [windows |-> TRUE, pages |-> TRUE, active |-> TRUE]
Systems == {Unix, Windows, [Windows EXCEPT !.active = FALSE], [Windows EXCEPT !.pages = FALSE]}

Simple ==
  [ ttys |-> {Tty(Default, TRUE)},
    consoles |-> {Cooked}, systems |-> {Unix}, programs |-> {Idle}, kinds |-> {"sequential"},
    fails |-> {}, types |-> FALSE, scrolls |-> FALSE,
    connects |-> FALSE, resizes |-> 0, statuses |-> 0 ]

Resolving ==
  [Simple EXCEPT !.fails = {"nested", "tty"}]

Restoring ==
  [Simple EXCEPT !.ttys = Ttys, !.programs = {Idle, Editor},
                 !.fails = {"spawn", "raw", "clone", "draw"},
                 !.connects = TRUE, !.statuses = 1]

Scrolling ==
  [Simple EXCEPT !.ttys = {Tty(Odd, TRUE)}, !.fails = {"draw"}, !.types = TRUE,
                 !.programs = {Idle, FullScreen}, !.scrolls = TRUE]

Leaving ==
  [Simple EXCEPT !.systems = Systems, !.fails = Restoring.fails, !.resizes = 1]

Flowing ==
  [Simple EXCEPT !.kinds = {"independent", "sequential"}, !.types = TRUE,
                 !.connects = TRUE, !.resizes = 1, !.statuses = 1]

Failing ==
  [Simple EXCEPT !.types = TRUE, !.resizes = 2, !.fails = {"draw"}]

Instances == [resolving |-> Resolving, restoring |-> Restoring, scrolling |-> Scrolling,
              leaving |-> Leaving, flowing |-> Flowing, failing |-> Failing]
ByName == [i \in DOMAIN Instances |-> IF i = "resolving" THEN CommandLines
                                      ELSE {<<Option("session", Code)>>}]
===============================================================================
