--------------------------- MODULE AgentConnection ---------------------------
(***************************************************************************)
(* What the agent works out before it starts: its arguments (cli.rs), the  *)
(* URLs of the session it joins or creates, and the HTTP response that     *)
(* creates one (connection.rs).                                            *)
(*                                                                         *)
(* A URL is a record of its parts; a session's code is a value of          *)
(* SessionId.  A response's body is a sequence of symbols: a chunk's size  *)
(* line, with its end of line, or a single byte.                           *)
(***************************************************************************)
EXTENDS Integers, Sequences

LOCAL INSTANCE SequencesExt

CONSTANTS
  SessionId,     \* the codes validate_session_id accepts
  Segment,       \* what stands between the slashes of a path
  None,
  MaxUsize,      \* the largest usize
  MaxBody,       \* MAX_HTTP_BODY
  MaxResponse    \* MAX_HTTP_RESPONSE, without what the head takes

Scheme == {"http", "https", "ws", "wss"}

\* What ParsedUrl::parse accepts (a port of -1: none).
Url ==
  [ scheme : Scheme, user : {FALSE}, host : STRING, port : Int, path : Seq(Segment),
    query : BOOLEAN ]

ASSUME ConnectionAssumption ==
  /\ SessionId \cup {"s", "api", "session", "host"} \subseteq Segment
  /\ None \notin SessionId /\ None \notin Url /\ None \notin [server : Url, session : SessionId]
  /\ MaxUsize \in Nat /\ MaxBody \in Nat /\ MaxResponse \in Nat
  /\ MaxBody <= MaxResponse /\ MaxResponse < MaxUsize - 1

----------------------------------------------------------------------------
(* Arguments.                                                              *)

\* A code the server can have given out.
validate_session_id(session) == session \in SessionId

\* The empty text: all that can be missing is missing.
Empty ==
  [scheme |-> "none", user |-> FALSE, host |-> "none", port |-> -1, path |-> <<>>, query |-> FALSE]

\* parse_args: "version", "error", or "run" with the server's URL and the session's
\* code.  A word has the option it names ("none" if it names none), the value behind
\* its equals sign (None if it has none), and the text it is as a value.
parse_args(words, server) ==
  LET take(state, option, value) ==
        CASE option = "server"  -> [state EXCEPT !.awaits = "none", !.config.server = value]
          [] option = "session" -> [state EXCEPT !.awaits = "none", !.config.session = value]
          [] option = "shell"   -> [state EXCEPT !.awaits = "none"]
      read(state, word) ==
        CASE state.kind # "run"       -> state
          [] state.kind = "run" /\ state.awaits # "none" ->
               take(state, state.awaits, word.text)
          [] state.kind = "run" /\ state.awaits = "none" ->
               CASE word.option = "version" -> [state EXCEPT !.kind = "version"]
                 [] word.option = "none"    -> [state EXCEPT !.kind = "error"]
                 [] word.option \in {"server", "session", "shell"} ->
                      IF word.value # None THEN take(state, word.option, word.value)
                      ELSE [state EXCEPT !.awaits = word.option]
      last == FoldLeft(read, [ kind |-> "run", awaits |-> "none",
                               config |-> [server |-> server, session |-> None] ], words)
      wrong == \/ last.awaits # "none"
               \/ last.config.server = Empty
               \/ last.config.session # None /\ ~validate_session_id(last.config.session)
  IN  [ kind |-> IF last.kind = "run" /\ wrong THEN "error" ELSE last.kind,
        config |-> last.config ]

----------------------------------------------------------------------------
(* URLs.                                                                   *)

NoPort == -1

parse_port(port) == port \in 0 .. 65535

parse_authority(text) == text.host # "none" /\ (text.port = NoPort \/ parse_port(text.port))

\* ParsedUrl::parse of a text: its scheme ("none" if it has none), whether it names a
\* user, host ("none" if empty or not ASCII), port, segments of the path, and whether
\* there is a query.
parse_url(text) ==
  IF text.scheme \in Scheme /\ ~text.user /\ parse_authority(text) THEN text ELSE None

\* ParsedUrl::with_path
with_path(url, path) == [url EXCEPT !.path = path, !.query = FALSE]

\* join_url: an absolute reference replaces the base.
join_url(base, ref) ==
  IF ref.scheme \in {"http", "https"} THEN ref
  ELSE [base EXCEPT !.path = ref.path, !.query = ref.query]

websocket_url(base, ref) ==
  LET url == join_url(base, ref)
  IN  [url EXCEPT !.scheme = IF @ = "https" THEN "wss" ELSE "ws"]

\* Mutant: the query of the websocket's URL stays.
viewer_url_keeps(url) ==
  LET viewer == [url EXCEPT !.scheme = IF @ = "wss" THEN "https" ELSE "http"]
  IN  IF Len(url.path) >= 3 THEN [viewer EXCEPT !.path = <<"s", url.path[3]>>] ELSE viewer

viewer_url_from_websocket(url) ==
  LET viewer == [url EXCEPT !.scheme = IF @ = "wss" THEN "https" ELSE "http"]
  IN  IF Len(url.path) >= 3 THEN with_path(viewer, <<"s", url.path[3]>>) ELSE viewer

\* A reference that is only a path.
Reference(segments) ==
  [Empty EXCEPT !.path = segments]

ViewerPath(session) == Reference(<<"s", session>>)
HostPath(session) == Reference(<<"api", "session", session, "host">>)

\* reconnect_command: the server and the code that the printed command leads to.
reconnect_command(viewer) ==
  LET base    == parse_url(viewer)
      session == IF viewer.path = <<>> \/ viewer.query THEN None ELSE viewer.path[Len(viewer.path)]
  IN  IF base = None \/ ~validate_session_id(session) THEN None
      ELSE [server |-> with_path(base, <<>>), session |-> session]

----------------------------------------------------------------------------
(* The HTTP response.                                                      *)

Bad == -1   \* a size line that is no hexadecimal number of a usize

Size(n) == [t |-> "size", n |-> n]
Byte(k, j) == [t |-> "byte", chunk |-> k, at |-> j]
CR == [t |-> "cr"]
LF == [t |-> "lf"]

Error == [kind |-> "error", bytes |-> <<>>]
Panic == [kind |-> "panic", bytes |-> <<>>]
Data(bytes) == [kind |-> "data", bytes |-> bytes]

\* Mutant: the end of line behind the chunk's data is not counted.
behind_data(size) == size

\* size + 2, in a build without overflow checks
behind(size) == (size + 2) % (MaxUsize + 1)

\* One turn of decode_chunked_body, at position i and with n bytes decoded; then: what
\* the turns behind it lead to.  A slice that ends before it begins panics.
turn(body, then, i, n) ==
  LET size == body[i].n
      tail == SubSeq(body, i + 1, Len(body))
      next == then[i + 1 + behind(size)][n + size]
  IN  IF i > Len(body) \/ body[i].t # "size" \/ size = Bad THEN Error
      ELSE IF size = 0 THEN Data(<<>>)
      ELSE IF Len(tail) < behind(size) THEN Error
      ELSE IF size > behind(size) THEN Panic
      ELSE IF SubSeq(tail, size + 1, behind(size)) # <<CR, LF>> \/ n + size > MaxBody THEN Error
      ELSE IF next.kind = "data" THEN Data(SubSeq(tail, 1, size) \o next.bytes)
      ELSE next

decode_chunked_body(body) ==
  LET from[i \in 1 .. Len(body) + 1] == [n \in 0 .. MaxBody |-> turn(body, from, i, n)]
  IN  from[1][0]

\* What a server sends and what arrives of it.  reached: the addresses it was tried
\* at answer or not; head: whether the end of the head arrives ("torn" if not) and
\* its status is 200; chunks: the length of each chunk of the message, and the one
\* that its size line says; arrived: the symbols of the body that arrive; ends: whether
\* the connection is closed behind them or fails, by a reset, the timeout of a read or a
\* write, or in TLS.
chunk(reply, k) ==
  LET data == [j \in 1 .. reply.chunks[k].length |-> Byte(k, j)]
  IN  IF reply.chunked THEN <<Size(reply.chunks[k].says)>> \o data \o <<CR, LF>> ELSE data

\* The symbols from chunk k on.
frames(reply) ==
  LET n == Len(reply.chunks)
      from[k \in 1 .. n + 1] ==
        IF k <= n THEN chunk(reply, k) \o from[k + 1]
        ELSE IF reply.chunked THEN <<Size(0), CR, LF>> ELSE <<>>
  IN  from

framed(reply) == frames(reply)[1]
body_of(reply) == framed([reply EXCEPT !.chunked = FALSE])

\* connect_tcp: the addresses are tried one after the other.
connect_tcp(addresses) == \E i \in DOMAIN addresses : addresses[i]

\* read_http_response
read_http_response(reply) ==
  LET body == SubSeq(framed(reply), 1, reply.arrived)
  IN  IF reply.ends = "failed" \/ Len(body) > MaxResponse \/ reply.head # "ok" THEN Error
      ELSE IF reply.chunked THEN decode_chunked_body(body)
      ELSE IF Len(body) > MaxBody THEN Error ELSE Data(body)

http_request(reply) ==
  IF connect_tcp(reply.addresses) THEN read_http_response(reply) ELSE Error

\* create_session: the body is JSON, which lacks its end when the message does.
create_session(base, reply) ==
  LET body == http_request(reply)
  IN  IF body.kind = "data" /\ body.bytes = body_of(reply)
      THEN [ viewer |-> join_url(base, ViewerPath(reply.session)),
             host   |-> websocket_url(base, HostPath(reply.session)) ]
      ELSE None

\* resolve_connection: the viewer's URL and the host's.
resolve_connection(config, reply) ==
  LET base == parse_url(config.server)
  IN  CASE base = None -> None
        [] base # None /\ base.scheme \in {"ws", "wss"} ->
             IF config.session # None THEN None
             ELSE [viewer |-> viewer_url_from_websocket(base), host |-> base]
        [] base # None /\ base.scheme \in {"http", "https"} ->
             IF config.session = None THEN create_session(base, reply)
             ELSE [ viewer |-> join_url(base, ViewerPath(config.session)),
                    host   |-> websocket_url(base, HostPath(config.session)) ]

\* Whether a session has to be created.
Creates(config) ==
  LET base == parse_url(config.server)
  IN  base # None /\ base.scheme \in {"http", "https"} /\ config.session = None
=============================================================================
