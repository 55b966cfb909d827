------------------------ MODULE OutputStreamProofs ------------------------
(***************************************************************************)
(* Proofs about OutputStream, for any number of viewers and connections    *)
(* and all capacities.  The frames between the agent and the server lead   *)
(* from the screen the viewers show to the one the transport has sent;     *)
(* every action extends that path at one end or shortens it at the other.  *)
(* Then the limits of the agent's queue, and the terminal sizes on their   *)
(* way through it.                                                         *)
(***************************************************************************)
EXTENDS OutputStream, Paths, SequenceTheorems, FiniteSetTheorems, TLAPS

Position == {Blank} \cup Nat

\* A viewer that shows screen p and handles frame f shows screen q.
Leads(p, f, q) ==
  \/ f.kind = "output" /\ Continues(p, f.data) /\ q = p + Len(f.data)
  \/ f.kind = "size" /\ f.n = 0 /\ q = p
  \/ f.kind = "size" /\ f.n # 0 /\ Continues(p, <<f.n>>) /\ q = p + 1
  \/ f.kind = "screen" /\ p = Blank /\ q = f.at
  \/ f.kind = "snapshot" /\ f.at = p /\ q = p

\* pos lists the screens between the frames of w.
IsPath(w, pos) ==
  /\ pos \in Seq(Position)
  /\ Len(pos) = Len(w) + 1
  /\ \A i \in 1 .. Len(w) : Leads(pos[i], w[i], pos[i + 1])

Reach(w, p, q) ==
  \E pos \in Seq(Position) : IsPath(w, pos) /\ pos[1] = p /\ pos[Len(w) + 1] = q

LEMMA ReachEmpty == ASSUME NEW p \in Position PROVE Reach(<<>>, p, p)
<1>1. /\ <<p>> \in Seq(Position) /\ Len(<<p>>) = 1 /\ <<p>>[1] = p
      /\ Len(<<>>) = 0
  OBVIOUS
<1>2. IsPath(<<>>, <<p>>)
  <2>1. Len(<<p>>) = Len(<<>>) + 1 /\ 1 .. Len(<<>>) = {} BY <1>1
  <2> QED BY <1>1, <2>1 DEF IsPath
<1>3. <<p>>[Len(<<>>) + 1] = p BY <1>1
<1> QED BY <1>1, <1>2, <1>3 DEF Reach

LEMMA ReachAppend ==
  ASSUME NEW w \in Seq(Frame), NEW p \in Position, NEW q \in Position, Reach(w, p, q),
         NEW f \in Frame, NEW r \in Position, Leads(q, f, r)
  PROVE  Reach(Append(w, f), p, r)
<1>1. PICK pos \in Seq(Position) : IsPath(w, pos) /\ pos[1] = p /\ pos[Len(w) + 1] = q
  BY DEF Reach
<1>2. Len(pos) = Len(w) + 1 /\ Len(w) \in Nat BY <1>1 DEF IsPath
<1>3. /\ Len(Append(w, f)) = Len(w) + 1
      /\ \A i \in 1 .. Len(w) : Append(w, f)[i] = w[i]
      /\ Append(w, f)[Len(w) + 1] = f
  BY AppendProperties
<1>4. /\ Append(pos, r) \in Seq(Position)
      /\ Len(Append(pos, r)) = Len(w) + 2
      /\ \A i \in 1 .. Len(w) + 1 : Append(pos, r)[i] = pos[i]
      /\ Append(pos, r)[Len(w) + 2] = r
  BY <1>2, AppendProperties
<1>5. ASSUME NEW i \in 1 .. Len(w) + 1
      PROVE  Leads(Append(pos, r)[i], Append(w, f)[i], Append(pos, r)[i + 1])
  <2>1. CASE i \in 1 .. Len(w)
    <3>1. i + 1 \in 1 .. Len(w) + 1 BY <1>2, <2>1
    <3> QED BY <1>1, <1>3, <1>4, <2>1, <3>1 DEF IsPath
  <2>2. CASE i = Len(w) + 1
    <3>1. i + 1 = Len(w) + 2 BY <1>2, <2>2
    <3> QED BY <1>1, <1>3, <1>4, <2>2, <3>1
  <2> QED BY <1>2, <2>1, <2>2
<1>6. IsPath(Append(w, f), Append(pos, r)) BY <1>2, <1>3, <1>4, <1>5 DEF IsPath
<1>7. Append(pos, r)[1] = p /\ Append(pos, r)[Len(Append(w, f)) + 1] = r
  BY <1>1, <1>2, <1>3, <1>4
<1> QED BY <1>4, <1>6, <1>7 DEF Reach

LEMMA ReachTail ==
  ASSUME NEW w \in Seq(Frame), NEW p \in Position, NEW q \in Position, Reach(w, p, q),
         w # <<>>
  PROVE  \E r \in Position : Leads(p, Head(w), r) /\ Reach(Tail(w), r, q)
<1>1. PICK pos \in Seq(Position) : IsPath(w, pos) /\ pos[1] = p /\ pos[Len(w) + 1] = q
  BY DEF Reach
<1>2. /\ Len(pos) = Len(w) + 1 /\ Len(w) >= 1 /\ Tail(w) \in Seq(Frame)
      /\ Len(Tail(w)) = Len(w) - 1 /\ Tail(pos) \in Seq(Position)
      /\ Len(Tail(pos)) = Len(w)
  BY <1>1 DEF IsPath
<1>3. \A i \in 1 .. Len(w) - 1 : Tail(w)[i] = w[i + 1] BY <1>2
<1>4. \A i \in 1 .. Len(w) : Tail(pos)[i] = pos[i + 1] BY <1>2
<1>5. IsPath(Tail(w), Tail(pos))
  <2>1. ASSUME NEW i \in 1 .. Len(Tail(w))
        PROVE  Leads(Tail(pos)[i], Tail(w)[i], Tail(pos)[i + 1])
    <3>1. i + 1 \in 1 .. Len(w) /\ i \in 1 .. Len(w) - 1 /\ i \in 1 .. Len(w) BY <1>2
    <3>2. Leads(pos[i + 1], w[i + 1], pos[(i + 1) + 1]) BY <1>1, <3>1 DEF IsPath
    <3> QED BY <1>3, <1>4, <3>1, <3>2
  <2> QED BY <1>2, <2>1 DEF IsPath
<1>6. Leads(p, Head(w), pos[2]) BY <1>1, <1>2 DEF IsPath
<1>7. pos[2] \in Position BY <1>1, <1>2
<1>8. Tail(pos)[1] = pos[2] /\ Tail(pos)[Len(Tail(w)) + 1] = q BY <1>1, <1>2, <1>4
<1>9. Reach(Tail(w), pos[2], q) BY <1>2, <1>5, <1>8 DEF Reach
<1> QED BY <1>6, <1>7, <1>9

\* Frames that leave a screen as it is may follow any path to that screen.
LEMMA ReachSame ==
  ASSUME NEW w \in Seq(Frame), NEW p \in Position, NEW q \in Position, Reach(w, p, q),
         NEW g \in Seq(Frame), \A i \in 1 .. Len(g) : Leads(q, g[i], q)
  PROVE  Reach(w \o g, p, q)
<1>1. PICK pos \in Seq(Position) : IsPath(w, pos) /\ pos[1] = p /\ pos[Len(w) + 1] = q
  BY DEF Reach
<1> DEFINE rest == [i \in 1 .. Len(g) |-> q]
<1>2. Len(pos) = Len(w) + 1 /\ Len(w) \in Nat /\ Len(g) \in Nat BY <1>1 DEF IsPath
<1>3. rest \in Seq(Position) /\ Len(rest) = Len(g) OBVIOUS
<1>4. \A i \in 1 .. Len(g) : rest[i] = q OBVIOUS
<1> DEFINE wg == w \o g
           pr == pos \o rest
<1> HIDE DEF rest
<1>5. /\ Len(wg) = Len(w) + Len(g)
      /\ \A i \in 1 .. Len(w) + Len(g) :
           wg[i] = IF i <= Len(w) THEN w[i] ELSE g[i - Len(w)]
  BY ConcatProperties
<1>6. /\ pr \in Seq(Position)
      /\ Len(pr) = Len(w) + 1 + Len(g)
      /\ \A i \in 1 .. Len(w) + 1 + Len(g) :
           pr[i] = IF i <= Len(w) + 1 THEN pos[i] ELSE rest[i - (Len(w) + 1)]
  <2>1. /\ pr \in Seq(Position)
        /\ Len(pr) = Len(pos) + Len(rest)
        /\ \A i \in 1 .. Len(pos) + Len(rest) :
             pr[i] = IF i <= Len(pos) THEN pos[i] ELSE rest[i - Len(pos)]
    BY <1>3, ConcatProperties
  <2> HIDE DEF pr
  <2> QED BY <1>2, <1>3, <2>1
<1> HIDE DEF wg, pr
<1>7. ASSUME NEW i \in Len(w) + 1 .. Len(w) + 1 + Len(g)
      PROVE  pr[i] = q
  <2>1. CASE i = Len(w) + 1
    <3>1. i \in 1 .. Len(w) + 1 + Len(g) /\ i <= Len(w) + 1 BY <1>2, <2>1
    <3>2. pr[i] = pos[i] BY <1>6, <3>1
    <3> QED BY <1>1, <2>1, <3>2
  <2>2. CASE i > Len(w) + 1
    <3>1. i - (Len(w) + 1) \in 1 .. Len(g) BY <1>2, <2>2
    <3>2. i \in 1 .. Len(w) + 1 + Len(g) /\ ~(i <= Len(w) + 1) BY <1>2, <2>2
    <3> QED BY <1>3, <1>4, <1>6, <3>1, <3>2
  <2> QED BY <1>2, <2>1, <2>2
<1>8. ASSUME NEW i \in 1 .. Len(w) + Len(g)
      PROVE  Leads(pr[i], wg[i], pr[i + 1])
  <2>1. CASE i <= Len(w)
    <3>1. /\ i \in 1 .. Len(w)
          /\ i \in 1 .. Len(w) + 1 + Len(g) /\ i + 1 \in 1 .. Len(w) + 1 + Len(g)
          /\ i <= Len(w) + 1 /\ i + 1 <= Len(w) + 1
      BY <1>2, <2>1
    <3>2. pr[i] = pos[i] /\ pr[i + 1] = pos[i + 1] BY <1>6, <3>1
    <3>3. wg[i] = w[i] BY <1>5, <2>1
    <3> QED BY <1>1, <3>1, <3>2, <3>3 DEF IsPath
  <2>2. CASE i > Len(w)
    <3>1. /\ i - Len(w) \in 1 .. Len(g) /\ ~(i <= Len(w))
          /\ i \in Len(w) + 1 .. Len(w) + 1 + Len(g)
          /\ i + 1 \in Len(w) + 1 .. Len(w) + 1 + Len(g)
      BY <1>2, <2>2
    <3>2. pr[i] = q /\ pr[i + 1] = q BY <1>7, <3>1
    <3>3. wg[i] = g[i - Len(w)] BY <1>5, <3>1
    <3> QED BY <3>1, <3>2, <3>3
  <2> QED BY <1>2, <2>1, <2>2
<1>9. IsPath(wg, pr)
  <2>1. Len(pr) = Len(wg) + 1 BY <1>2, <1>5, <1>6
  <2> QED BY <1>5, <1>6, <1>8, <2>1 DEF IsPath
<1>10. pr[1] = p /\ pr[Len(wg) + 1] = q
  <2>1. 1 \in 1 .. Len(w) + 1 + Len(g) /\ 1 <= Len(w) + 1 BY <1>2
  <2>2. Len(wg) + 1 \in Len(w) + 1 .. Len(w) + 1 + Len(g) BY <1>2, <1>5
  <2> QED BY <1>1, <1>6, <1>7, <2>1, <2>2
<1> QED BY <1>6, <1>9, <1>10 DEF Reach, wg

----------------------------------------------------------------------------
(* The invariant.                                                          *)

\* The queue ends with the last message of the stream and has no gap.
QueueOK(o) ==
  /\ o.screen.at \in Nat
  /\ o.overflowed => o.queue = <<>>
  /\ \A i \in 1 .. Len(o.queue) : o.queue[i].n = o.screen.at - Len(o.queue) + i

\* The transport has taken everything before the queue, and the batch is the
\* end of what it has taken.
SenderOK ==
  /\ screen.at \in Nat
  /\ pc \notin {"end", "bye", "done"} => left # 0
  /\ pc # "drain" => pending = <<>>
  /\ Len(pending) <= screen.at
  /\ \A i \in 1 .. Len(pending) : pending[i] = screen.at - Len(pending) + i
  /\ pc \in {"flush", "drain", "read"} /\ ~out.overflowed =>
       screen.at + Len(out.queue) = out.screen.at

\* The batch may have been dropped before the end marker, see Overflow.
Live == pc \in {"start", "flush", "drain", "read"}

\* The screen of a viewer that has handled all that was sent.
sent == IF pc = "start" THEN Blank ELSE screen.at - Len(pending)

EndMarker == [kind |-> "end"]

Ending == pc \in {"end", "bye", "done"}

\* The end marker has been sent, or is the next frame; w: the frames before it.
Closing(w) == ended \/ wire # w \/ pc = "end"

\* The wire leads from what the viewers show to what has been sent; when the end
\* marker follows, that is all the shell has written.
PathOK(w, p, q) ==
  /\ Reach(w, p, q)
  /\ \A v \in Viewer : pic[v] \in {Stale, p}
  /\ Live => q = sent
  /\ wire # w => wire = Append(w, EndMarker) /\ pc # "end"
  /\ ended => wire = <<>> /\ pc # "end"
  /\ Closing(w) => Ending /\ exit # None /\ (~out.overflowed => exit <= q)

WireOK ==
  \E p \in Position, q \in Position, w \in Seq(Frame) : PathOK(w, p, q)

ViewersOK == \A v \in Viewer : conn[v] = 0 => pic[v] = Stale

\* The flushes that are left take all that the shell has written.
DrainOK ==
  /\ Len(out.queue) <= MaxQueue
  /\ exit # None => exit <= out.screen.at
  /\ left # None => exit # None /\ pc \notin {"down", "start", "read"}
  /\ pc \in {"end", "bye"} => left # None
  /\ taken <= Turn
  /\ pc # "drain" => taken = 0
  /\ left # None /\ pc \in {"flush", "drain"} /\ ~out.overflowed =>
       exit <= screen.at + left * Turn - taken

StreamOK ==
  /\ TypeOK
  /\ QueueOK(out)
  /\ SenderOK
  /\ WireOK
  /\ ViewersOK

Inv == StreamOK /\ DrainOK

----------------------------------------------------------------------------
(* The queue's operations.                                                 *)

LEMMA TrackedNext ==
  ASSUME NEW s \in Screen, s.at \in Nat, NEW m \in Message, m.n = s.at + 1
  PROVE  tracked(s, m) \in Screen /\ tracked(s, m).at = m.n
<1>1. Continues(s.at, <<m.n>>) BY DEF Continues
<1>2. s.at # Stale BY DEF Stale
<1>3. Draw(s.at, <<m.n>>) = m.n BY <1>1, <1>2 DEF Draw, Message
<1> QED BY <1>3 DEF tracked, Screen, Message

LEMMA PushKeeps ==
  ASSUME NEW o \in State, QueueOK(o), NEW m \in Message, m.n = o.screen.at + 1
  PROVE  /\ push(o, m) \in State
         /\ QueueOK(push(o, m))
         /\ push(o, m).screen.at = o.screen.at + 1
         /\ ~push(o, m).overflowed =>
              ~o.overflowed /\ Len(push(o, m).queue) = Len(o.queue) + 1
<1> DEFINE seen == [o EXCEPT !.screen = tracked(@, m)]
<1>1. tracked(o.screen, m) \in Screen /\ tracked(o.screen, m).at = m.n
  BY TrackedNext DEF QueueOK, State
<1>2. /\ seen \in State /\ seen.screen.at = m.n
      /\ seen.queue = o.queue /\ seen.overflowed = o.overflowed /\ seen.bytes = o.bytes
  BY <1>1 DEF State
<1> HIDE DEF seen
<1>3. CASE o.overflowed
  <2>1. push(o, m) = seen BY <1>3 DEF push, seen
  <2>2. o.queue = <<>> BY <1>3 DEF QueueOK
  <2>3. seen.queue = <<>> /\ Len(seen.queue) = 0 BY <1>2, <2>2
  <2>4. seen.screen.at = o.screen.at + 1 /\ seen.screen.at \in Nat
    BY <1>2 DEF QueueOK
  <2>5. QueueOK(seen)
    <3>1. \A i \in 1 .. Len(seen.queue) : FALSE BY <2>3
    <3> QED BY <2>3, <2>4, <3>1 DEF QueueOK
  <2> QED BY <1>2, <1>3, <2>1, <2>4, <2>5
<1>4. CASE ~o.overflowed /\ (Len(o.queue) >= MaxQueue \/ m.len > Capacity - o.bytes)
  <2>1. push(o, m) = [seen EXCEPT !.queue = <<>>, !.bytes = 0, !.overflowed = TRUE]
    BY <1>4 DEF push, seen
  <2>2. <<>> \in Seq(Message) /\ 0 \in Int OBVIOUS
  <2>3. /\ push(o, m) \in State /\ push(o, m).queue = <<>> /\ push(o, m).overflowed
        /\ push(o, m).screen = seen.screen
    BY <1>2, <2>1, <2>2 DEF State
  <2>4. Len(push(o, m).queue) = 0 BY <2>3
  <2> QED BY <1>2, <2>3, <2>4 DEF QueueOK, Message
<1>5. CASE ~o.overflowed /\ ~(Len(o.queue) >= MaxQueue \/ m.len > Capacity - o.bytes)
  <2>1. push(o, m) = [seen EXCEPT !.queue = Append(@, m), !.bytes = @ + m.len]
    BY <1>5 DEF push, seen
  <2>3. /\ o.queue \in Seq(Message) /\ Append(o.queue, m) \in Seq(Message)
        /\ seen.bytes + m.len \in Int
    BY <1>2 DEF State, Message
  <2>2. /\ push(o, m) \in State /\ push(o, m).queue = Append(o.queue, m)
        /\ push(o, m).screen = seen.screen /\ ~push(o, m).overflowed
    BY <1>2, <1>5, <2>1, <2>3 DEF State
  <2>4. /\ Len(Append(o.queue, m)) = Len(o.queue) + 1
        /\ \A i \in 1 .. Len(o.queue) : Append(o.queue, m)[i] = o.queue[i]
        /\ Append(o.queue, m)[Len(o.queue) + 1] = m
    BY <2>3, AppendProperties
  <2>5. ASSUME NEW i \in 1 .. Len(push(o, m).queue)
        PROVE  push(o, m).queue[i].n = push(o, m).screen.at - Len(push(o, m).queue) + i
    <3>1. CASE i \in 1 .. Len(o.queue)
      <4>1. o.queue[i].n = o.screen.at - Len(o.queue) + i BY <3>1 DEF QueueOK
      <4>2. push(o, m).queue[i] = o.queue[i] BY <2>2, <2>4, <3>1
      <4>3. push(o, m).screen.at = o.screen.at + 1 BY <1>2, <2>2
      <4>4. Len(push(o, m).queue) = Len(o.queue) + 1 BY <2>2, <2>4
      <4>5. o.screen.at \in Nat /\ Len(o.queue) \in Nat BY <2>3 DEF QueueOK
      <4> QED BY <4>1, <4>2, <4>3, <4>4, <4>5
    <3>2. CASE i = Len(o.queue) + 1
      BY <1>2, <2>2, <2>3, <2>4, <3>2 DEF Message
    <3> QED BY <2>2, <2>3, <2>4, <3>1, <3>2
  <2> QED BY <1>2, <1>5, <2>2, <2>4, <2>5 DEF QueueOK, Message
<1> QED BY <1>3, <1>4, <1>5

LEMMA PushBounded ==
  ASSUME NEW o \in State, NEW m \in Message, Len(o.queue) <= MaxQueue
  PROVE  Len(push(o, m).queue) <= MaxQueue /\ Len(push(o, m).queue) <= Len(o.queue) + 1
<1> DEFINE seen == [o EXCEPT !.screen = tracked(@, m)]
<1>1. o.queue \in Seq(Message) /\ Len(o.queue) \in Nat BY DEF State
<1>2. seen.queue = o.queue BY DEF State
<1>3. push(o, m).queue \in {o.queue, <<>>}
        \/ (Len(o.queue) < MaxQueue /\ push(o, m).queue = Append(o.queue, m))
  BY <1>1, <1>2, SizesAssumption DEF push, State
<1>4. Len(Append(o.queue, m)) = Len(o.queue) + 1 /\ Len(<<>>) = 0 BY <1>1
<1> QED BY <1>1, <1>3, <1>4, SizesAssumption

LEMMA TakeKeeps ==
  ASSUME NEW o \in State, QueueOK(o), o.queue # <<>>
  PROVE  /\ try_recv(o) \in State
         /\ QueueOK(try_recv(o))
         /\ try_recv(o).screen = o.screen
         /\ try_recv(o).overflowed = o.overflowed
         /\ Len(try_recv(o).queue) = Len(o.queue) - 1
         /\ Head(o.queue) \in Message
         /\ Head(o.queue).n = o.screen.at - Len(o.queue) + 1
<1>1. o.queue \in Seq(Message) BY DEF State
<1>2. /\ Head(o.queue) \in Message /\ Tail(o.queue) \in Seq(Message)
      /\ Len(Tail(o.queue)) = Len(o.queue) - 1
      /\ \A i \in 1 .. Len(Tail(o.queue)) : Tail(o.queue)[i] = o.queue[i + 1]
  BY <1>1, HeadTailProperties
<1>3. /\ try_recv(o) \in State /\ try_recv(o).queue = Tail(o.queue)
      /\ try_recv(o).screen = o.screen /\ try_recv(o).overflowed = o.overflowed
  <2>1. o.bytes - Head(o.queue).len \in Int BY <1>2 DEF State, Message
  <2>2. try_recv(o) =
          [o EXCEPT !.queue = Tail(o.queue), !.bytes = o.bytes - Head(o.queue).len]
    BY DEF try_recv, State
  <2> QED BY <1>2, <2>1, <2>2 DEF State
<1>4. Len(o.queue) \in Nat /\ Len(o.queue) >= 1 /\ Head(o.queue) = o.queue[1] BY <1>1
<1>5. Head(o.queue).n = o.screen.at - Len(o.queue) + 1
  <2>1. 1 \in 1 .. Len(o.queue) BY <1>4
  <2> QED BY <1>4, <2>1 DEF QueueOK
<1>6. ASSUME NEW i \in 1 .. Len(Tail(o.queue))
      PROVE  Tail(o.queue)[i].n = o.screen.at - Len(Tail(o.queue)) + i
  <2>1. i + 1 \in 1 .. Len(o.queue) BY <1>2, <1>4
  <2>2. o.queue[i + 1].n = o.screen.at - Len(o.queue) + (i + 1) BY <2>1 DEF QueueOK
  <2>3. Tail(o.queue)[i] = o.queue[i + 1] BY <1>2
  <2>4. o.screen.at \in Nat /\ i \in Nat BY DEF QueueOK
  <2>5. o.screen.at - Len(o.queue) + (i + 1) = o.screen.at - Len(Tail(o.queue)) + i
    BY <1>2, <1>4, <2>4
  <2> QED BY <2>2, <2>3, <2>5
<1>7. o.overflowed => Tail(o.queue) = <<>> BY DEF QueueOK
<1> QED BY <1>2, <1>3, <1>5, <1>6, <1>7 DEF QueueOK

----------------------------------------------------------------------------
(* What a step does to the wire.                                           *)

LEMMA SendBatch ==
  ASSUME NEW w \in Seq(Frame), NEW p \in Position, NEW q \in Nat, Reach(w, p, q),
         NEW batch \in Seq(Nat \ {0}),
         \A i \in 1 .. Len(batch) : batch[i] = q + i
  PROVE  /\ w \o send_tty_output(batch) \in Seq(Frame)
         /\ Reach(w \o send_tty_output(batch), p, q + Len(batch))
<1>1. CASE batch = <<>>
  <2>1. send_tty_output(batch) = <<>> /\ Len(batch) = 0 BY <1>1 DEF send_tty_output
  <2>2. w \o <<>> = w BY ConcatEmptySeq
  <2>3. q + Len(batch) = q BY <2>1
  <2> QED BY <2>1, <2>2, <2>3
<1>2. CASE batch # <<>>
  <2> DEFINE f == [kind |-> "output", data |-> batch]
  <2>1. f \in Frame BY DEF Frame
  <2>2. send_tty_output(batch) = <<f>> BY <1>2 DEF send_tty_output
  <2>3. w \o <<f>> = Append(w, f) BY <2>1, AppendIsConcat
  <2>4. Leads(q, f, q + Len(batch))
    <3>1. Continues(q, batch) BY DEF Continues
    <3>2. f.kind = "output" /\ f.data = batch OBVIOUS
    <3> QED BY <3>1, <3>2 DEF Leads
  <2>5. q \in Position /\ q + Len(batch) \in Position BY DEF Position
  <2>6. Reach(Append(w, f), p, q + Len(batch)) BY <2>1, <2>4, <2>5, ReachAppend
  <2>7. Append(w, f) \in Seq(Frame) BY <2>1
  <2> QED BY <2>2, <2>3, <2>6, <2>7
<1> QED BY <1>1, <1>2

\* While the connection is in use, nothing has been said of the end.
LEMMA LivePath ==
  ASSUME Live, NEW w \in Seq(Frame), NEW p \in Position, NEW q \in Position, PathOK(w, p, q)
  PROVE  Reach(wire, p, sent) /\ q = sent /\ wire = w /\ ~ended
<1>1. ~Ending BY DEF Live, Ending
<1>2. ~Closing(w) BY <1>1 DEF PathOK
<1> QED BY <1>2 DEF PathOK, Closing

\* A step that sends nothing and changes no picture.
LEMMA WireKept ==
  ASSUME WireOK, wire' = wire, pic' = pic, ended' = ended,
         Live' => Live /\ sent' = sent,
         Ending => Ending' /\ (out.overflowed => out'.overflowed),
         exit # None => exit' = exit,
         pc' = "end" => pc = "end" \/ (pc \in {"flush", "drain"} /\ exit # None /\ out'.overflowed)
  PROVE  WireOK'
<1>1. PICK p \in Position, q \in Position, w \in Seq(Frame) : PathOK(w, p, q) BY DEF WireOK
<1>2. Closing(w)' => Ending' /\ exit' # None /\ (~out'.overflowed => exit' <= q)
  <2>1. CASE Closing(w)
    BY <1>1, <2>1 DEF PathOK
  <2>2. CASE ~Closing(w)
    BY <2>2 DEF Closing, Ending
  <2> QED BY <2>1, <2>2
<1>3. PathOK(w, p, q)'
  <2>1. /\ Reach(w, p, q) /\ \A v \in Viewer : pic'[v] \in {Stale, p}
        /\ Live' => q = sent'
    BY <1>1 DEF PathOK
  <2>2. ended \/ wire # w => Closing(w) /\ pc # "end" BY <1>1 DEF PathOK, Closing
  <2>3. ended' \/ wire' # w => pc' # "end"
    BY <1>1, <2>2 DEF PathOK, Ending
  <2> QED BY <1>1, <1>2, <2>1, <2>3 DEF PathOK
<1> QED BY <1>3 DEF WireOK

\* A step of the transport that extends the wire.
LEMMA WireExtended ==
  ASSUME WireOK, pic' = pic, ended' = ended, Live, sent' \in Position, wire' \in Seq(Frame),
         \A p \in Position : Reach(wire, p, sent) => Reach(wire', p, sent'),
         pc' = "end" => exit' # None /\ (~out'.overflowed => exit' <= sent')
  PROVE  WireOK'
<1>1. PICK p \in Position, q \in Position, w \in Seq(Frame) : PathOK(w, p, q) BY DEF WireOK
<1>2. Reach(wire, p, sent) /\ ~ended BY <1>1, LivePath
<1>3. \A v \in Viewer : pic'[v] \in {Stale, p} BY <1>1 DEF PathOK
<1>4. PathOK(wire, p, sent)'
  BY <1>2, <1>3 DEF PathOK, Closing, Ending
<1> QED BY <1>4 DEF WireOK

LEMMA SizeSent ==
  ASSUME NEW w \in Seq(Frame), NEW p \in Position, NEW q \in Position, Reach(w, p, q),
         NEW s \in Size \cup {None}
  PROVE  /\ Append(w, SizeFrame(0, s)) \in Seq(Frame)
         /\ Reach(Append(w, SizeFrame(0, s)), p, q)
<1>1. SizeFrame(0, s) \in Frame BY DEF SizeFrame, Frame
<1>2. Leads(q, SizeFrame(0, s), q) BY DEF Leads, SizeFrame
<1> QED BY <1>1, <1>2, ReachAppend

----------------------------------------------------------------------------
(* The invariant holds in every state.                                     *)

LEMMA Initially == Init => Inv
<1> SUFFICES ASSUME Init PROVE Inv OBVIOUS
<1> USE SizesAssumption DEF Init
<1> DEFINE sizeMsg == terminal_size_frame(channel, os)
           sized == push(channel, sizeMsg)
           banner == chunk(sized, 1, TRUE)
<1>1. channel \in State /\ QueueOK(channel) /\ channel.screen = [at |-> 0, rest |-> TRUE, size |-> None]
  BY DEF channel, State, Screen, QueueOK
<1>2. sizeMsg \in Message /\ sizeMsg.n = channel.screen.at + 1
  BY <1>1 DEF terminal_size_frame, Message
<1> HIDE DEF sizeMsg
<1>3. sized \in State /\ QueueOK(sized) /\ sized.screen.at = 1
  BY <1>1, <1>2, PushKeeps
<1> HIDE DEF sized
<1>4. banner \in Message /\ banner.n = sized.screen.at + 1 BY <1>3 DEF chunk, Message
<1> HIDE DEF banner
<1>5. push(sized, banner) \in State /\ QueueOK(push(sized, banner))
  BY <1>3, <1>4, PushKeeps
<1>6. out = push(sized, banner) BY DEF sized, sizeMsg, banner
<1>7. TypeOK
  <2>1. screen \in Screen BY <1>1 DEF Screen
  <2>2. pic \in [Viewer -> Picture] BY DEF Picture
  <2>3. /\ conn \in [Viewer -> Nat] /\ shown \in [Viewer -> Size \cup {None}]
        /\ joins \in Nat /\ ended \in BOOLEAN /\ known \in Size \cup {None}
    OBVIOUS
  <2>4. /\ pending \in Seq(Nat \ {0}) /\ asks \in Seq(Nat \ {0})
        /\ wire \in Seq(Frame) /\ down \in Seq(Nat)
    OBVIOUS
  <2>5. /\ os \in Size /\ last \in Size /\ exit \in Nat \cup {None}
        /\ left \in Nat \cup {None} /\ taken \in Nat /\ pc = "down"
    OBVIOUS
  <2> QED BY <1>5, <1>6, <2>1, <2>2, <2>3, <2>4, <2>5 DEF TypeOK
<1>8. SenderOK
  <2>1. left # 0 BY DEF Init
  <2> QED BY <1>1, <2>1 DEF SenderOK
<1>9. WireOK
  <2>1. Blank \in Position BY DEF Position
  <2>2. Reach(wire, Blank, Blank) /\ wire \in Seq(Frame) BY <2>1, ReachEmpty
  <2>3. PathOK(wire, Blank, Blank) BY <2>2 DEF PathOK, Live, Closing
  <2> QED BY <2>1, <2>2, <2>3 DEF WireOK
<1>10. ViewersOK BY DEF ViewersOK
<1>11. DrainOK
  <2>1. Len(sized.queue) <= 1
    <3>1. Len(channel.queue) = 0 BY DEF channel
    <3>2. Len(channel.queue) <= MaxQueue BY <3>1
    <3> QED BY <3>1, <3>2, <1>1, <1>2, PushBounded DEF sized
  <2>2. Len(sized.queue) <= MaxQueue
    <3>1. Len(sized.queue) \in Nat BY <1>3 DEF State
    <3> QED BY <2>1, <3>1
  <2>3. Len(out.queue) <= MaxQueue BY <1>3, <1>4, <1>6, <2>2, PushBounded
  <2>4. exit = None /\ left = None /\ taken = 0 /\ taken <= Turn OBVIOUS
  <2> QED BY <2>3, <2>4 DEF DrainOK
<1> QED BY <1>5, <1>6, <1>7, <1>8, <1>9, <1>10, <1>11 DEF Inv, StreamOK

LEMMA HostSteps ==
  ASSUME Inv, Produce \/ Resize \/ Poll \/ Exit
  PROVE  StreamOK'
<1> USE DEF Inv, StreamOK, window, transport, server
<1>1. ASSUME NEW m \in Message, m.n = out.screen.at + 1, out' = push(out, m),
             os' \in Size, last' \in Size, UNCHANGED <<exit, transport, wire, down, server>>
      PROVE  StreamOK'
  <2>1. /\ out' \in State /\ QueueOK(out')
        /\ out'.screen.at = out.screen.at + 1
        /\ ~out'.overflowed => ~out.overflowed /\ Len(out'.queue) = Len(out.queue) + 1
    BY <1>1, PushKeeps DEF TypeOK
  <2>2. TypeOK' BY <1>1, <2>1 DEF TypeOK
  <2>3. QueueOK(out)' BY <2>1
  <2>4. SenderOK'
    <3>1. out.queue \in Seq(Message) BY DEF TypeOK, State
    <3>2. out.screen.at \in Nat /\ Len(out.queue) \in Nat BY <3>1 DEF QueueOK
    <3>3. ASSUME pc' \in {"flush", "drain", "read"}, ~out'.overflowed
          PROVE  screen'.at + Len(out'.queue) = out'.screen.at
      <4>1. screen.at + Len(out.queue) = out.screen.at BY <1>1, <2>1, <3>3 DEF SenderOK
      <4>2. screen' = screen /\ screen.at \in Nat BY <1>1 DEF SenderOK
      <4>3. Len(out'.queue) = Len(out.queue) + 1 BY <2>1, <3>3
      <4> QED BY <2>1, <3>2, <4>1, <4>2, <4>3
    <3> QED BY <1>1, <3>3 DEF SenderOK
  <2>5. WireOK' BY <1>1, <2>1, WireKept DEF Live, Ending, sent
  <2>6. ViewersOK' BY <1>1 DEF ViewersOK
  <2> QED BY <2>2, <2>3, <2>4, <2>5, <2>6
<1>2. CASE Produce
  <2>1. PICK len \in ChunkLen, rest \in BOOLEAN : out' = push(out, chunk(out, len, rest))
    BY <1>2 DEF Produce
  <2>2. /\ chunk(out, len, rest) \in Message
        /\ chunk(out, len, rest).n = out.screen.at + 1
    BY SizesAssumption DEF chunk, Message, QueueOK
  <2> QED BY <1>1, <1>2, <2>1, <2>2 DEF Produce, TypeOK
<1>3. CASE Poll
  <2>1. /\ terminal_size_frame(out, os) \in Message
        /\ terminal_size_frame(out, os).n = out.screen.at + 1
    BY DEF terminal_size_frame, Message, QueueOK, TypeOK, State, Screen
  <2> QED BY <1>1, <1>3, <2>1 DEF Poll, TypeOK
<1>4. CASE Resize \/ Exit
  <2>1. /\ UNCHANGED <<out, transport, wire, down, server, last>>
        /\ os' \in Size /\ exit' \in Nat \cup {None}
    BY <1>4 DEF Resize, Exit, TypeOK, QueueOK
  <2>2. TypeOK' BY <2>1 DEF TypeOK
  <2>3. SenderOK' BY <2>1 DEF SenderOK
  <2>4. WireOK'
    <3>1. exit # None => exit' = exit BY <1>4 DEF Resize, Exit
    <3> QED BY <2>1, <3>1, WireKept DEF Live, Ending, sent
  <2>5. ViewersOK' BY <2>1 DEF ViewersOK
  <2> QED BY <2>1, <2>2, <2>3, <2>4, <2>5
<1> QED BY <1>2, <1>3, <1>4

LEMMA ConnectionSteps ==
  ASSUME Inv, Connect \/ StartOutput \/ CannotStart
  PROVE  StreamOK'
<1> USE DEF Inv, StreamOK, window, transport, server
<1>1. CASE Connect
  <2> USE <1>1 DEF Connect
  <2>1. SizeFrame(0, os) \in Frame BY DEF TypeOK, SizeFrame, Frame
  <2>2. wire' \in Seq(Frame) BY <2>1
  <2>3. down' \in Seq(Nat)
    <3>1. PICK order \in Orders(Present) :
            down' = <<SizeRequest>> \o [i \in DOMAIN order |-> conn[order[i]]]
      OBVIOUS
    <3>2. order \in [1 .. Cardinality(Present) -> Present] BY DEF Orders
    <3>3. Cardinality(Present) \in Nat
      <4>1. Present \subseteq Viewer BY DEF Present
      <4> QED BY <4>1, ViewerAssumption, FS_Subset, FS_CardinalityType
    <3>4. \A i \in DOMAIN order : conn[order[i]] \in Nat BY <3>2 DEF Present, TypeOK
    <3> DEFINE n == Cardinality(Present)
               ids == [i \in DOMAIN order |-> conn[order[i]]]
    <3>5. ids \in Seq(Nat)
      <4>1. DOMAIN order = 1 .. n BY <3>2
      <4>2. n \in Nat BY <3>3
      <4> HIDE DEF n
      <4>3. ids \in [1 .. n -> Nat] BY <3>4, <4>1
      <4> HIDE DEF ids
      <4> QED BY <4>2, <4>3, SeqDef
    <3>6. <<SizeRequest>> \in Seq(Nat) BY DEF SizeRequest
    <3> HIDE DEF n, ids
    <3>7. down' = <<SizeRequest>> \o ids BY <3>1 DEF ids
    <3> QED BY <3>5, <3>6, <3>7, ConcatProperties
  <2>4. pic' \in [Viewer -> Picture] BY DEF TypeOK, Picture
  <2>5. TypeOK' BY <2>2, <2>3, <2>4 DEF TypeOK
  <2>6. SenderOK' BY DEF SenderOK
  <2>7. WireOK'
    <3>1. Blank \in Position BY DEF Position
    <3>2. Reach(<<>>, Blank, Blank) BY <3>1, ReachEmpty
    <3>3. Append(<<>>, SizeFrame(0, os)) = wire' OBVIOUS
    <3>4. Reach(wire', Blank, Blank)
      <4>1. <<>> \in Seq(Frame) /\ os \in Size \cup {None} BY DEF TypeOK
      <4> QED BY <3>1, <3>2, <3>3, <4>1, SizeSent
    <3>5. \A v \in Viewer : pic'[v] \in {Stale, Blank} BY DEF ViewersOK, Present
    <3>6. wire' \in Seq(Frame) /\ sent' = Blank BY <2>2 DEF sent
    <3>7. ~ended BY DEF WireOK, PathOK, Closing
    <3>8. PathOK(wire, Blank, Blank)' BY <3>4, <3>5, <3>6, <3>7 DEF PathOK, Closing
    <3> QED BY <3>1, <3>6, <3>8 DEF WireOK
  <2>8. ViewersOK' BY DEF ViewersOK, Present
  <2> QED BY <2>5, <2>6, <2>7, <2>8
<1>2. CASE StartOutput
  <2> USE <1>2 DEF StartOutput
  <2>1. /\ out' \in State /\ QueueOK(out') /\ out'.queue = <<>> /\ ~out'.overflowed
        /\ out'.screen = out.screen
    <3>1. /\ out' \in State /\ out'.queue = <<>> /\ ~out'.overflowed
          /\ out'.screen = out.screen
      <4>1. <<>> \in Seq(Message) /\ 0 \in Int OBVIOUS
      <4> QED BY <4>1 DEF restart, TypeOK, State
    <3> QED BY <3>1 DEF QueueOK
  <2>2. out.screen \in Screen /\ out.screen.at \in Nat /\ out.screen.size \in Size \cup {None}
    BY DEF TypeOK, State, Screen, QueueOK
  <2> DEFINE w == Append(wire, SizeFrame(0, out.screen.size))
             f == [kind |-> "screen", at |-> out.screen.at]
  <2>3. wire \in Seq(Frame) /\ f \in Frame BY <2>2 DEF TypeOK, Frame
  <2>4. w \in Seq(Frame)
    <3>1. SizeFrame(0, out.screen.size) \in Frame BY <2>2 DEF SizeFrame, Frame
    <3> QED BY <2>3, <3>1
  <2>5. wire' = Append(w, f) /\ wire' \in Seq(Frame) BY <2>3, <2>4
  <2>6. pending = <<>> /\ Len(pending) = 0 BY DEF SenderOK
  <2>7. TypeOK' BY <2>1, <2>2, <2>5 DEF TypeOK
  <2>8. SenderOK'
    <3>1. Len(out'.queue) = 0 BY <2>1
    <3> QED BY <2>1, <2>2, <2>6, <3>1 DEF SenderOK
  <2>9. WireOK'
    <3>1. sent = Blank /\ sent' = out.screen.at /\ Live BY <2>2, <2>6 DEF sent, Live
    <3>2. Blank \in Position /\ sent' \in Position BY <2>2, <3>1 DEF Position
    <3>3. ASSUME NEW p \in Position, Reach(wire, p, Blank)
          PROVE  Reach(wire', p, out.screen.at)
      <4>1. Reach(w, p, Blank) BY <2>2, <2>3, <3>2, <3>3, SizeSent
      <4>2. f.kind = "screen" /\ f.at = out.screen.at OBVIOUS
      <4>3. Leads(Blank, f, out.screen.at) BY <4>2 DEF Leads
      <4> HIDE DEF w, f
      <4> QED BY <2>3, <2>4, <2>5, <3>1, <3>2, <4>1, <4>3, ReachAppend
    <3>4. ended' = ended /\ pic' = pic /\ pc' # "end" OBVIOUS
    <3> QED BY <2>5, <3>1, <3>2, <3>3, <3>4, WireExtended
  <2>10. ViewersOK' BY DEF ViewersOK
  <2> QED BY <2>1, <2>7, <2>8, <2>9, <2>10
<1>3. CASE CannotStart
  <2> USE <1>3 DEF CannotStart
  <2>1. TypeOK' BY DEF TypeOK
  <2>2. SenderOK' BY DEF SenderOK
  <2>3. WireOK' BY WireKept DEF Live, Ending
  <2>4. ViewersOK' BY DEF ViewersOK
  <2> QED BY <2>1, <2>2, <2>3, <2>4
<1> QED BY <1>1, <1>2, <1>3

\* The rest of the batch is sent.
LEMMA BatchSent ==
  ASSUME Inv, pc # "start"
  PROVE  /\ sent \in Nat /\ screen.at \in Nat
         /\ wire \o send_tty_output(pending) \in Seq(Frame)
         /\ \A p \in Position :
              Reach(wire, p, sent) => Reach(wire \o send_tty_output(pending), p, screen.at)
<1> USE DEF Inv, StreamOK
<1>1. pending \in Seq(Nat \ {0}) /\ wire \in Seq(Frame) BY DEF TypeOK
<1>2. screen.at \in Nat /\ Len(pending) \in Nat /\ Len(pending) <= screen.at
  BY <1>1 DEF SenderOK
<1>3. sent = screen.at - Len(pending) BY DEF sent
<1>4. sent \in Nat /\ sent + Len(pending) = screen.at BY <1>2, <1>3
<1>5. \A i \in 1 .. Len(pending) : pending[i] = sent + i BY <1>3 DEF SenderOK
<1>6. wire \o send_tty_output(pending) \in Seq(Frame)
  <2> DEFINE f == [kind |-> "output", data |-> pending]
  <2>1. f \in Frame BY <1>1 DEF Frame
  <2>2. send_tty_output(pending) = IF pending = <<>> THEN <<>> ELSE <<f>>
    BY DEF send_tty_output
  <2> HIDE DEF f
  <2>3. send_tty_output(pending) \in Seq(Frame) BY <2>1, <2>2
  <2> QED BY <1>1, <2>3, ConcatProperties
<1>7. ASSUME NEW p \in Position, Reach(wire, p, sent)
      PROVE  Reach(wire \o send_tty_output(pending), p, screen.at)
  BY <1>1, <1>4, <1>5, <1>7, SendBatch
<1> QED BY <1>2, <1>4, <1>6, <1>7

LEMMA DrainStep == Inv /\ Drain => StreamOK'
<1> SUFFICES ASSUME Inv, Drain PROVE StreamOK' OBVIOUS
<1> USE DEF Inv, StreamOK, Drain, window, server
<1> DEFINE m == Head(out.queue)
           w == wire \o send_tty_output(pending)
<1>1. /\ out' \in State /\ QueueOK(out') /\ out'.screen = out.screen
      /\ out'.overflowed = out.overflowed /\ Len(out'.queue) = Len(out.queue) - 1
      /\ m \in Message /\ m.n = out.screen.at - Len(out.queue) + 1
  BY TakeKeeps DEF TypeOK
<1>2. ~out.overflowed BY DEF QueueOK
<1>3. Len(out.queue) \in Nat /\ out.screen.at \in Nat /\ Len(pending) \in Nat
  BY DEF TypeOK, State, QueueOK
<1>4. /\ screen.at \in Nat /\ sent \in Nat /\ w \in Seq(Frame)
      /\ \A p \in Position : Reach(wire, p, sent) => Reach(w, p, screen.at)
  BY BatchSent
<1>5. screen.at + Len(out.queue) = out.screen.at BY <1>2 DEF SenderOK
<1>6. m.n = screen.at + 1 BY <1>1, <1>3, <1>4, <1>5
<1>7. screen' = tracked(screen, m) OBVIOUS
<1> HIDE DEF m, w
<1>8. screen' \in Screen /\ screen'.at = screen.at + 1
  BY <1>1, <1>4, <1>6, <1>7, TrackedNext DEF TypeOK
<1>9. Live /\ Live' /\ sent = screen.at - Len(pending) /\ sent' = screen'.at - Len(pending')
  BY DEF Live, sent
<1>10. screen'.at + Len(out'.queue) = out'.screen.at
  <2>1. /\ Len(out'.queue) = Len(out.queue) - 1 /\ out'.screen.at = out.screen.at
        /\ screen'.at = screen.at + 1
    BY <1>1, <1>8
  <2>2. screen.at \in Nat /\ Len(out.queue) \in Nat BY <1>3, <1>4
  <2> QED BY ONLY <2>1, <2>2, <1>5
<1>11. \/ /\ m.size # None
          /\ wire' = w \o <<SizeFrame(m.n, m.size)>>
          /\ pending' = <<>>
       \/ wire' = w /\ pending' = <<m.n>>
       \/ wire' = wire /\ pending' = Append(pending, m.n)
  BY DEF m, w
<1>12. pending \in Seq(Nat \ {0}) /\ m.n \in Nat \ {0} /\ taken' \in Nat /\ wire \in Seq(Frame)
  BY <1>1 DEF TypeOK, Message
<1>13. ASSUME wire' \in Seq(Frame), pending' \in Seq(Nat \ {0}), Len(pending') <= screen'.at,
              \A i \in 1 .. Len(pending') : pending'[i] = screen'.at - Len(pending') + i,
              \A p \in Position : Reach(wire, p, sent) => Reach(wire', p, sent'),
              sent' \in Nat
       PROVE  StreamOK'
  <2>1. TypeOK' BY <1>1, <1>8, <1>12, <1>13 DEF TypeOK
  <2>2. SenderOK' BY <1>4, <1>8, <1>10, <1>13 DEF SenderOK
  <2>3. WireOK'
    <3>1. pc' # "end" /\ ended' = ended /\ pic' = pic OBVIOUS
    <3>2. sent' \in Position BY <1>13 DEF Position
    <3> QED BY <1>9, <1>13, <3>1, <3>2, WireExtended
  <2>4. ViewersOK' BY DEF ViewersOK
  <2> QED BY <1>1, <2>1, <2>2, <2>3, <2>4
<1>14. CASE m.size # None /\ wire' = w \o <<SizeFrame(m.n, m.size)>> /\ pending' = <<>>
  <2> DEFINE f == SizeFrame(m.n, m.size)
  <2>1. f \in Frame BY <1>1, <1>12 DEF SizeFrame, Frame, Message
  <2>2. Leads(screen.at, f, screen.at + 1)
    <3>1. f.kind = "size" /\ f.n = m.n BY DEF SizeFrame
    <3>2. Continues(screen.at, <<f.n>>) BY <1>4, <1>6, <3>1 DEF Continues
    <3>3. f.n # 0 BY <1>12, <3>1
    <3> QED BY <3>1, <3>2, <3>3 DEF Leads
  <2>3. wire' = w \o <<f>> BY <1>14
  <2> HIDE DEF f
  <2>4. wire' = Append(w, f) /\ wire' \in Seq(Frame) BY <1>4, <2>1, <2>3, AppendIsConcat
  <2>5. screen.at \in Position /\ screen.at + 1 \in Position BY <1>4 DEF Position
  <2>6. \A p \in Position : Reach(w, p, screen.at) => Reach(wire', p, screen.at + 1)
    BY <1>4, <2>1, <2>2, <2>4, <2>5, ReachAppend
  <2>7. Len(pending') = 0 BY <1>14
  <2>8. sent' = screen.at + 1 BY <1>4, <1>8, <1>9, <2>7
  <2>9. pending' \in Seq(Nat \ {0}) BY <1>14
  <2> QED BY <1>4, <1>8, <1>13, <2>4, <2>6, <2>7, <2>8, <2>9
<1>15. CASE wire' = w /\ pending' = <<m.n>>
  <2>1. Len(pending') = 1 /\ pending'[1] = m.n /\ pending' \in Seq(Nat \ {0}) BY <1>12, <1>15
  <2>2. sent' = screen.at BY ONLY <1>4, <1>8, <1>9, <2>1
  <2>3. \A i \in 1 .. Len(pending') : i = 1 BY <2>1
  <2>4. pending'[1] = screen'.at - Len(pending') + 1 /\ Len(pending') <= screen'.at
    BY <1>4, <1>6, <1>8, <2>1
  <2> QED BY <1>4, <1>13, <1>15, <2>1, <2>2, <2>3, <2>4
<1>16. CASE wire' = wire /\ pending' = Append(pending, m.n)
  <2>1. /\ pending' \in Seq(Nat \ {0}) /\ Len(pending') = Len(pending) + 1
        /\ \A i \in 1 .. Len(pending) : pending'[i] = pending[i]
        /\ pending'[Len(pending) + 1] = m.n
    BY <1>12, <1>16, AppendProperties
  <2>2. /\ screen.at \in Nat /\ Len(pending) \in Nat
        /\ screen'.at = screen.at + 1 /\ Len(pending') = Len(pending) + 1
    BY <1>3, <1>4, <1>8, <2>1
  <2>3. sent' = sent BY ONLY <1>9, <2>2
  <2>4. Len(pending') <= screen'.at BY <1>3, <1>4, <1>8, <2>1 DEF SenderOK
  <2>5. ASSUME NEW i \in 1 .. Len(pending')
        PROVE  pending'[i] = screen'.at - Len(pending') + i
    <3>1. screen'.at - Len(pending') = screen.at - Len(pending)
      BY ONLY <2>2
    <3>2. CASE i \in 1 .. Len(pending)
      <4>1. pending[i] = screen.at - Len(pending) + i BY <3>2 DEF SenderOK
      <4> QED BY <2>1, <3>1, <3>2, <4>1
    <3>3. CASE i = Len(pending) + 1
      <4>1. screen.at - Len(pending) + i = screen.at + 1 BY <1>3, <1>4, <3>3
      <4> QED BY <1>6, <2>1, <3>1, <3>3, <4>1
    <3> QED BY <1>3, <2>1, <3>2, <3>3
  <2> QED BY <1>4, <1>12, <1>13, <1>16, <2>1, <2>3, <2>4, <2>5
<1> QED BY <1>11, <1>14, <1>15, <1>16

\* A step that sends the rest of the batch, and then frames that change no screen.
LEMMA FlushEnds ==
  ASSUME Inv, pc # "start",
         NEW g \in Seq(Frame), \A i \in 1 .. Len(g) : Leads(screen.at, g[i], screen.at),
         wire' = (wire \o send_tty_output(pending)) \o g,
         pending' = <<>>, screen' = screen, pic' = pic, ended' = ended, Live, pc' # "start",
         pc' = "end" => exit' # None /\ (~out'.overflowed => exit' <= screen.at)
  PROVE  wire' \in Seq(Frame) /\ WireOK'
<1> DEFINE w == wire \o send_tty_output(pending)
<1>1. /\ screen.at \in Nat /\ w \in Seq(Frame)
      /\ \A p \in Position : Reach(wire, p, sent) => Reach(w, p, screen.at)
  BY BatchSent
<1>2. wire' = w \o g OBVIOUS
<1> HIDE DEF w
<1>3. screen.at \in Position BY <1>1 DEF Position
<1>4. \A p \in Position : Reach(w, p, screen.at) => Reach(w \o g, p, screen.at)
  BY <1>1, <1>3, ReachSame
<1>5. Len(pending') = 0 OBVIOUS
<1>6. sent' = screen.at BY <1>1, <1>5 DEF sent
<1>7. wire' \in Seq(Frame) BY <1>1, <1>2, ConcatProperties
<1>8. WireOK BY DEF Inv, StreamOK
<1>9. \A p \in Position : Reach(wire, p, sent) => Reach(wire', p, sent')
  BY <1>1, <1>2, <1>4, <1>6
<1> QED BY <1>3, <1>6, <1>7, <1>8, <1>9, WireExtended

LEMMA FlushSteps ==
  ASSUME Inv, Flush \/ EndOfFlush \/ EndOfLastFlush \/ Overflow
  PROVE  StreamOK'
<1> USE DEF Inv, StreamOK, window, server, EndOfDrain
<1>1. /\ flushesLeft \in Nat \cup {None}
      /\ left # 0 => flushesLeft # 0
  BY SizesAssumption DEF TypeOK, flushesLeft
<1>2. CASE Flush
  <2> USE <1>2 DEF Flush
  <2>1. TypeOK' BY <1>1 DEF TypeOK
  <2>2. SenderOK' BY <1>1 DEF SenderOK
  <2>3. WireOK' BY WireKept DEF Live, Ending, sent
  <2>4. ViewersOK' BY DEF ViewersOK
  <2> QED BY <2>1, <2>2, <2>3, <2>4
<1>3. CASE EndOfFlush
  <2> USE <1>3 DEF EndOfFlush
  <2>1. screen \in Screen /\ asks \in Seq(Nat \ {0}) /\ screen.at \in Nat
    BY DEF TypeOK, SenderOK
  <2>2. answers \in Seq(Frame) /\ \A i \in 1 .. Len(answers) : Leads(screen.at, answers[i], screen.at)
    <3>1. CASE screen.rest
      <4>1. answers = [i \in DOMAIN asks |-> snapshot_text(asks[i])] BY <3>1 DEF answers
      <4>2. DOMAIN asks = 1 .. Len(asks) /\ Len(asks) \in Nat BY <2>1
      <4>3. ASSUME NEW i \in 1 .. Len(asks)
            PROVE  /\ snapshot_text(asks[i]) \in Frame
                   /\ Leads(screen.at, snapshot_text(asks[i]), screen.at)
        <5>1. asks[i] \in Nat \ {0} BY <2>1
        <5>2. snapshot_text(asks[i]) \in Frame
          BY <2>1, <5>1 DEF snapshot_text, Frame, Screen
        <5>3. snapshot_text(asks[i]).kind = "snapshot" /\ snapshot_text(asks[i]).at = screen.at
          BY DEF snapshot_text
        <5> QED BY <5>2, <5>3 DEF Leads
      <4>4. answers \in [1 .. Len(asks) -> Frame] BY <4>1, <4>2, <4>3
      <4>5. answers \in Seq(Frame) /\ Len(answers) = Len(asks) BY <4>2, <4>4, SeqDef
      <4> QED BY <4>1, <4>2, <4>3, <4>5
    <3>2. CASE ~screen.rest
      <4>1. answers = <<>> BY <3>2 DEF answers
      <4> QED BY <4>1
    <3> QED BY <3>1, <3>2
  <2>3. wire' = (wire \o send_tty_output(pending)) \o answers OBVIOUS
  <2>4. Live BY DEF Live
  <2>5. wire' \in Seq(Frame) /\ WireOK'
    <3>1. /\ pending' = <<>> /\ screen' = screen /\ pic' = pic /\ ended' = ended
          /\ pc' = "read" /\ pc # "start"
      OBVIOUS
    <3> QED BY <2>2, <2>3, <2>4, <3>1, FlushEnds
  <2>6. asks' \in Seq(Nat \ {0}) /\ pending' \in Seq(Nat \ {0}) BY <2>1
  <2>7. TypeOK' BY <2>5, <2>6 DEF TypeOK
  <2>8. SenderOK' BY <2>1 DEF SenderOK
  <2>9. ViewersOK' BY DEF ViewersOK
  <2> QED BY <2>5, <2>7, <2>8, <2>9
<1>4. CASE EndOfLastFlush
  <2> USE <1>4 DEF EndOfLastFlush
  <2>1. <<>> \in Seq(Frame) /\ \A i \in 1 .. Len(<<>>) : FALSE OBVIOUS
  <2>2. wire' = (wire \o send_tty_output(pending)) \o <<>>
    <3>1. wire \o send_tty_output(pending) \in Seq(Frame) BY BatchSent
    <3> QED BY <3>1, ConcatEmptySeq
  <2>3. Live BY DEF Live
  <2>4. wire' \in Seq(Frame) /\ WireOK'
    <3>1. /\ pending' = <<>> /\ screen' = screen /\ pic' = pic /\ ended' = ended
          /\ pc' \in {"end", "flush"} /\ pc = "drain"
      OBVIOUS
    <3>2. ASSUME pc' = "end" PROVE exit' # None /\ exit' <= screen.at
      <4>1. left = 1 /\ exit' = exit /\ exit # None BY <3>2 DEF DrainOK
      <4>2. screen.at \in Nat /\ exit \in Nat BY <4>1 DEF SenderOK, TypeOK
      <4>3. CASE taken = Turn
        <5>1. exit <= screen.at + 1 * Turn - Turn BY <4>1, <4>3 DEF DrainOK
        <5> QED BY <4>1, <4>2, <5>1, SizesAssumption
      <4>4. CASE out.queue = <<>>
        <5>1. Len(out.queue) = 0 BY <4>4
        <5>2. screen.at = out.screen.at BY <4>2, <5>1 DEF SenderOK
        <5> QED BY <4>1, <5>2 DEF DrainOK
      <4> QED BY <4>3, <4>4
    <3>3. <<>> \in Seq(Frame) /\ \A i \in 1 .. Len(<<>>) : Leads(screen.at, <<>>[i], screen.at)
      BY <2>1
    <3> QED BY <2>2, <2>3, <3>1, <3>2, <3>3, FlushEnds
  <2>5. left' \in Nat /\ pending' \in Seq(Nat \ {0}) /\ asks' \in Seq(Nat \ {0})
    BY DEF TypeOK, SenderOK
  <2>6. TypeOK' BY <2>4, <2>5 DEF TypeOK
  <2>7. SenderOK'
    <3>1. pc' # "end" => left' # 0 BY DEF TypeOK, SenderOK
    <3> QED BY <3>1 DEF SenderOK
  <2>8. ViewersOK' BY DEF ViewersOK
  <2> QED BY <2>4, <2>6, <2>7, <2>8
<1>5. CASE Overflow
  <2> USE <1>5 DEF Overflow
  <2>1. left' \in Nat \cup {None} BY <1>1 DEF TypeOK
  <2>2. TypeOK' BY <2>1 DEF TypeOK
  <2>3. SenderOK'
    <3>1. pc' # "end" => left' # 0 BY SizesAssumption
    <3>2. Len(<<>>) = 0 OBVIOUS
    <3> QED BY <3>1, <3>2 DEF SenderOK
  <2>4. WireOK'
    <3>1. pc' = "end" => exit # None BY DEF DrainOK, flushesLeft
    <3> QED BY <3>1, WireKept DEF Live, Ending
  <2>5. ViewersOK' BY DEF ViewersOK
  <2> QED BY <2>2, <2>3, <2>4, <2>5
<1> QED BY <1>2, <1>3, <1>4, <1>5

LEMMA OtherSteps ==
  ASSUME Inv,
         ReadNothing \/ ReadSizeRequest \/ ReadSnapshotRequest
           \/ EndSession \/ Finish \/ Fail \/ GiveUp \/ Over
  PROVE  StreamOK'
<1> USE DEF Inv, StreamOK, window, server
<1>1. CASE ReadNothing
  <2> USE <1>1 DEF ReadNothing
  <2>1. TypeOK' BY DEF TypeOK
  <2>2. SenderOK' BY DEF SenderOK
  <2>3. WireOK' BY WireKept DEF Live, Ending, sent
  <2>4. ViewersOK' BY DEF ViewersOK
  <2> QED BY <2>1, <2>2, <2>3, <2>4
<1>2. CASE ReadSizeRequest
  <2> USE <1>2 DEF ReadSizeRequest
  <2>1. /\ sent \in Nat /\ screen.at \in Nat /\ os \in Size \cup {None}
        /\ wire \in Seq(Frame) /\ down' \in Seq(Nat)
    BY BatchSent DEF TypeOK
  <2>2. sent \in Position /\ sent' = sent /\ Live BY <2>1 DEF Position, sent, Live
  <2>3. /\ wire' \in Seq(Frame)
        /\ \A p \in Position : Reach(wire, p, sent) => Reach(wire', p, sent')
    <3>1. SizeFrame(0, os) \in Frame BY <2>1 DEF SizeFrame, Frame
    <3>2. wire' = Append(wire, SizeFrame(0, os)) OBVIOUS
    <3>3. wire' \in Seq(Frame) BY <2>1, <3>1, <3>2
    <3> QED BY <2>1, <2>2, <3>2, <3>3, SizeSent
  <2>4. TypeOK' BY <2>1, <2>3 DEF TypeOK
  <2>5. SenderOK' BY DEF SenderOK
  <2>6. WireOK'
    <3>1. ended' = ended /\ pic' = pic /\ pc' # "end" OBVIOUS
    <3> QED BY <2>2, <2>3, <3>1, WireExtended
  <2>7. ViewersOK' BY DEF ViewersOK
  <2> QED BY <2>4, <2>5, <2>6, <2>7
<1>3. CASE ReadSnapshotRequest
  <2> USE <1>3 DEF ReadSnapshotRequest
  <2>1. /\ asks \in Seq(Nat \ {0}) /\ down' \in Seq(Nat)
        /\ Head(down) \in Nat \ {0}
    BY DEF TypeOK, SizeRequest
  <2>2. asks' \in Seq(Nat \ {0})
    <3> DEFINE rest == IF Len(asks) >= MaxRequests THEN Tail(asks) ELSE asks
    <3>1. rest \in Seq(Nat \ {0})
      <4>1. Len(asks) >= MaxRequests => asks # <<>> BY <2>1, SizesAssumption
      <4> QED BY <2>1, <4>1
    <3> DEFINE id == Head(down)
    <3>2. asks' = Append(rest, id) /\ id \in Nat \ {0} BY <2>1
    <3> HIDE DEF rest, id
    <3>3. Append(rest, id) \in Seq(Nat \ {0}) BY ONLY <3>1, <3>2, AppendProperties
    <3> QED BY ONLY <3>2, <3>3
  <2>3. TypeOK' BY <2>1, <2>2 DEF TypeOK
  <2>4. SenderOK' BY DEF SenderOK
  <2>5. WireOK' BY WireKept DEF Live, Ending, sent
  <2>6. ViewersOK' BY DEF ViewersOK
  <2> QED BY <2>3, <2>4, <2>5, <2>6
<1>4. CASE EndSession
  <2> USE <1>4 DEF EndSession
  <2>1. wire \in Seq(Frame) /\ EndMarker \in Frame BY DEF EndMarker, Frame, TypeOK
  <2>2. wire' = Append(wire, EndMarker) BY DEF EndMarker
  <2>3. wire' \in Seq(Frame) BY <2>1, <2>2
  <2>4. TypeOK' BY <2>3 DEF TypeOK
  <2>5. SenderOK' BY DEF SenderOK
  <2>6. WireOK'
    <3>1. PICK p \in Position, q \in Position, w \in Seq(Frame) : PathOK(w, p, q) BY DEF WireOK
    <3>2. wire = w /\ ~ended BY <3>1 DEF PathOK
    <3>3. Reach(wire, p, q) /\ exit # None /\ (~out.overflowed => exit <= q)
      BY <3>1, <3>2 DEF PathOK, Closing
    <3>4. \A v \in Viewer : pic'[v] \in {Stale, p} BY <3>1 DEF PathOK
    <3>5. ~Live' /\ Ending' BY DEF Live, Ending
    <3>6. PathOK(w, p, q)' BY <2>2, <3>2, <3>3, <3>4, <3>5 DEF PathOK
    <3> QED BY <3>6 DEF WireOK
  <2>7. ViewersOK' BY DEF ViewersOK
  <2> QED BY <2>4, <2>5, <2>6, <2>7
<1>5. CASE Finish \/ GiveUp
  <2> USE <1>5 DEF Finish, GiveUp
  <2>1. TypeOK' BY DEF TypeOK
  <2>2. SenderOK' BY DEF SenderOK
  <2>3. WireOK' BY WireKept DEF Live, Ending
  <2>4. ViewersOK' BY DEF ViewersOK
  <2> QED BY <2>1, <2>2, <2>3, <2>4
<1>6. CASE Fail \/ Over
  <2> USE <1>6 DEF Fail, Over
  <2>1. pc' \in {"down", "done"} /\ asks' = <<>> /\ UNCHANGED <<window, out, exit, left, screen, wire, down, server>>
    OBVIOUS
  <2>2. pending' = <<>> /\ taken' \in Nat BY DEF SenderOK, TypeOK
  <2>3. TypeOK' BY <2>1, <2>2 DEF TypeOK
  <2>4. SenderOK'
    <3>1. screen.at \in Nat /\ Len(pending') = 0 BY <2>2 DEF SenderOK
    <3>2. pc' # "done" => left' # 0 BY SizesAssumption
    <3> QED BY <2>1, <2>2, <3>1, <3>2 DEF SenderOK
  <2>5. WireOK'
    <3>1. pc \in {"end", "bye"} => pc' = "done" BY DEF DrainOK
    <3> QED BY <2>1, <3>1, WireKept DEF Live, Ending
  <2>6. ViewersOK' BY <2>1 DEF ViewersOK
  <2> QED BY <2>1, <2>3, <2>4, <2>5, <2>6
<1> QED BY <1>1, <1>2, <1>3, <1>4, <1>5, <1>6

\* The server handles a frame: the viewers that show p show r afterwards.
LEMMA RelayPictures ==
  ASSUME Inv, Relay
  PROVE  /\ wire # <<>> /\ wire' = Tail(wire)
         /\ pic' \in [Viewer -> Int]
         /\ \E p \in Position, q \in Position, r \in Position :
              /\ (Head(wire) = EndMarker /\ p = r) \/ Leads(p, Head(wire), r)
              /\ \E w \in Seq(Frame) : PathOK(w, r, q)'
              /\ \A v \in Viewer : pic[v] \in {Stale, p} /\ pic'[v] \in {Stale, r}
<1> USE DEF Inv, StreamOK, transport
<1>1. wire # <<>> /\ wire' = Tail(wire)
  BY DEF Relay, DeliverOutput, DeliverScreen, DeliverSize, DeliverSnapshot, DeliverEnd, Deliver
<1>2. PICK p \in Position, q \in Position, w \in Seq(Frame) : PathOK(w, p, q)
  BY DEF WireOK
<1>3. wire \in Seq(Frame) BY DEF TypeOK
<1>4. \/ /\ Head(wire) = EndMarker /\ wire' = <<>>
         /\ Reach(<<>>, p, q) /\ Closing(<<>>) /\ pc # "end" /\ w = <<>>
      \/ /\ w # <<>> /\ Head(wire) = Head(w)
         /\ \/ wire = w /\ wire' = Tail(w)
            \/ wire # w /\ wire' = Append(Tail(w), EndMarker)
  <2>1. wire # w => wire = Append(w, EndMarker) /\ pc # "end" BY <1>2 DEF PathOK
  <2>2. CASE w = <<>>
    <3>1. wire = <<EndMarker>> /\ pc # "end" BY <1>1, <2>1, <2>2
    <3>2. Head(wire) = EndMarker /\ wire' = <<>> BY <1>1, <3>1
    <3> QED BY <1>1, <1>2, <2>2, <3>1, <3>2 DEF PathOK, Closing
  <2>3. CASE w # <<>>
    <3>1. /\ Head(Append(w, EndMarker)) = Head(w)
          /\ Tail(Append(w, EndMarker)) = Append(Tail(w), EndMarker)
      <4>1. EndMarker \in Frame BY DEF EndMarker, Frame
      <4> HIDE DEF EndMarker
      <4> QED BY <2>3, <4>1
    <3> QED BY <1>1, <2>1, <2>3, <3>1
  <2> QED BY <2>2, <2>3
<1> DEFINE f == Head(wire)
<1>5. f \in Frame BY <1>1, <1>3
<1>6. pic \in [Viewer -> Picture] BY DEF TypeOK
<1>7. p # Stale BY DEF Position, Stale, Blank
<1>8. UNCHANGED <<out, exit, pc, pending, screen>> /\ (f.kind # "end" => ended' = ended)
  BY DEF Relay, DeliverOutput, DeliverScreen, DeliverSize, DeliverSnapshot, DeliverEnd, Deliver
<1> HIDE DEF f
<1>9. Stale \in Int /\ \A r \in Position : r \in Int BY DEF Stale, Position, Blank
<1>10. CASE f = EndMarker /\ w = <<>>
  <2>1. f.kind = "end" BY <1>10 DEF EndMarker
  <2>2. pic' = pic
    BY <2>1 DEF Relay, DeliverOutput, DeliverScreen, DeliverSize, DeliverSnapshot,
                DeliverEnd, Deliver, f
  <2>3. wire' = <<>> /\ Reach(<<>>, p, q) /\ pc # "end" /\ Closing(<<>>)
    BY <1>4, <1>10
  <2>4. Ending /\ exit # None /\ (~out.overflowed => exit <= q) /\ ~Live
    BY <1>2, <1>10, <2>3 DEF PathOK, Ending, Live
  <2>5. PathOK(<<>>, p, q)'
    BY <1>2, <1>8, <2>2, <2>3, <2>4 DEF PathOK, Live, Ending
  <2>6. pic \in [Viewer -> {Stale, p}] BY <1>2, <1>6 DEF PathOK
  <2>7. <<>> \in Seq(Frame) OBVIOUS
  <2>8. pic' \in [Viewer -> Int] BY <1>9, <2>2, <2>6
  <2> QED BY <1>1, <1>10, <2>2, <2>5, <2>6, <2>7, <2>8 DEF f
<1>11. CASE w # <<>>
  <2>1. f = Head(w) BY <1>4, <1>11 DEF f
  <2>2. PICK r \in Position : Leads(p, f, r) /\ Reach(Tail(w), r, q)
    BY <1>2, <1>11, <2>1, ReachTail DEF PathOK
  <2>3. f.kind # "end" BY <2>2 DEF Leads
  <2>4. pic' \in [Viewer -> {Stale, r}]
    <3>1. CASE DeliverOutput
      <4>1. f.kind = "output" /\ pic' = [v \in Viewer |-> Draw(pic[v], f.data)]
        BY <3>1 DEF DeliverOutput, Deliver, f
      <4>2. Continues(p, f.data) /\ r = p + Len(f.data) BY <2>2, <4>1 DEF Leads
      <4>3. \A v \in Viewer : Draw(pic[v], f.data) \in {Stale, r}
        BY <1>2, <1>7, <4>2 DEF Draw, PathOK
      <4> QED BY <4>1, <4>3
    <3>2. CASE DeliverScreen
      <4>1. f.kind = "screen" /\ pic' = [v \in Viewer |-> IF v \in Present THEN f.at ELSE pic[v]]
        BY <3>2 DEF DeliverScreen, Deliver, f
      <4>2. r = f.at BY <2>2, <4>1 DEF Leads
      <4>3. \A v \in Viewer : v \notin Present => pic[v] = Stale
        BY DEF ViewersOK, Present
      <4> QED BY <4>1, <4>2, <4>3
    <3>3. CASE DeliverSize
      <4>1. /\ f.kind = "size"
            /\ pic' = IF f.n = 0 THEN pic ELSE [v \in Viewer |-> Draw(pic[v], <<f.n>>)]
        BY <3>3 DEF DeliverSize, Deliver, f
      <4>2. CASE f.n = 0
        <5>1. r = p BY <2>2, <4>1, <4>2 DEF Leads
        <5> QED BY <1>2, <1>6, <4>1, <4>2, <5>1 DEF PathOK
      <4>3. CASE f.n # 0
        <5>1. Continues(p, <<f.n>>) /\ r = p + 1 BY <2>2, <4>1, <4>3 DEF Leads
        <5>2. Len(<<f.n>>) = 1 OBVIOUS
        <5>3. \A v \in Viewer : Draw(pic[v], <<f.n>>) \in {Stale, r}
          BY <1>2, <1>7, <5>1, <5>2 DEF Draw, PathOK
        <5> QED BY <4>1, <4>3, <5>3
      <4> QED BY <4>2, <4>3
    <3>4. CASE DeliverSnapshot
      <4>1. /\ f.kind = "snapshot"
            /\ pic' = [v \in Viewer |-> IF conn[v] = f.id THEN f.at ELSE pic[v]]
        BY <3>4 DEF DeliverSnapshot, Deliver, f
      <4>2. f.at = p /\ r = p BY <2>2, <4>1 DEF Leads
      <4> QED BY <1>2, <4>1, <4>2 DEF PathOK
    <3>5. ~DeliverEnd BY <2>3 DEF DeliverEnd, Deliver, f
    <3> QED BY <3>1, <3>2, <3>3, <3>4, <3>5 DEF Relay
  <2>5. PathOK(Tail(w), r, q)'
    <3>1. Closing(Tail(w))' => Closing(w) BY <1>4, <1>8, <1>11, <2>3 DEF Closing
    <3>2. wire' # Tail(w) => wire' = Append(Tail(w), EndMarker) /\ pc # "end"
      BY <1>2, <1>4, <1>11 DEF PathOK
    <3>3. ~ended BY <1>1, <1>2 DEF PathOK
    <3>4. /\ Live' => q = sent'
          /\ Closing(Tail(w))' => Ending' /\ exit' # None /\ (~out'.overflowed => exit' <= q)
      BY <1>2, <1>8, <3>1 DEF PathOK, Live, sent, Ending
    <3> QED BY <1>8, <2>2, <2>3, <2>4, <3>2, <3>3, <3>4 DEF PathOK
  <2>6. \A v \in Viewer : pic[v] \in {Stale, p} /\ pic'[v] \in {Stale, r}
    BY <1>2, <2>4 DEF PathOK
  <2>7. pic' \in [Viewer -> Int] /\ Tail(w) \in Seq(Frame) BY <1>9, <1>11, <2>4
  <2> QED BY <1>1, <2>2, <2>5, <2>6, <2>7 DEF f
<1> QED BY <1>4, <1>10, <1>11 DEF f

LEMMA RelaySteps == Inv /\ Relay => StreamOK'
<1> SUFFICES ASSUME Inv, Relay PROVE StreamOK' OBVIOUS
<1> USE DEF Inv, StreamOK, window, transport
<1>1. /\ wire # <<>> /\ wire' = Tail(wire) /\ pic' \in [Viewer -> Int]
  BY RelayPictures
<1>2. PICK q \in Position, r \in Position, w \in Seq(Frame) :
        /\ PathOK(w, r, q)'
        /\ \A v \in Viewer : pic'[v] \in {Stale, r}
  BY RelayPictures
<1>3. UNCHANGED <<window, out, exit, transport, down, conn, joins>>
  BY DEF Relay, DeliverOutput, DeliverScreen, DeliverSize, DeliverSnapshot, DeliverEnd
<1>4. wire \in Seq(Frame) /\ Head(wire) \in Frame /\ wire' \in Seq(Frame)
  BY <1>1 DEF TypeOK
<1>5. pic' \in [Viewer -> Picture]
  <2>1. Stale \in Picture /\ r \in Picture BY DEF Picture, Position
  <2> QED BY <1>1, <1>2, <2>1
<1>6. /\ known' \in Size \cup {None}
      /\ shown' \in [Viewer -> Size \cup {None}]
      /\ ended' \in BOOLEAN
  <2>1. Head(wire).kind \in {"size", "snapshot"} => Head(wire).size \in Size \cup {None}
    BY <1>4 DEF Frame
  <2>2. CASE DeliverSize BY <2>1, <2>2 DEF DeliverSize, Deliver, TypeOK
  <2>3. CASE DeliverSnapshot BY <2>1, <2>3 DEF DeliverSnapshot, Deliver, TypeOK
  <2>4. CASE DeliverOutput \/ DeliverScreen \/ DeliverEnd
    BY <2>4 DEF DeliverOutput, DeliverScreen, DeliverEnd, TypeOK
  <2> QED BY <2>2, <2>3, <2>4 DEF Relay
<1>7. TypeOK' BY <1>3, <1>4, <1>5, <1>6 DEF TypeOK
<1>8. SenderOK' BY <1>3 DEF SenderOK
<1>9. WireOK' BY <1>2 DEF WireOK
<1>10. ViewersOK'
  <2>1. ASSUME NEW v \in Viewer, conn[v] = 0
        PROVE  pic'[v] = Stale
    <3>1. pic[v] = Stale BY <2>1 DEF ViewersOK
    <3>2. CASE DeliverSnapshot
      <4>1. Head(wire).id # 0 BY <1>4, <3>2 DEF DeliverSnapshot, Deliver, Frame
      <4> QED BY <2>1, <3>1, <3>2, <4>1 DEF DeliverSnapshot
    <3>3. CASE DeliverOutput BY <3>1, <3>3 DEF DeliverOutput, Draw
    <3>4. CASE DeliverScreen BY <2>1, <3>1, <3>4 DEF DeliverScreen, Present
    <3>5. CASE DeliverSize BY <3>1, <3>5 DEF DeliverSize, Draw
    <3>6. CASE DeliverEnd BY <3>1, <3>6 DEF DeliverEnd
    <3> QED BY <3>2, <3>3, <3>4, <3>5, <3>6 DEF Relay
  <2> QED BY <1>3, <2>1 DEF ViewersOK
<1> QED BY <1>3, <1>7, <1>8, <1>9, <1>10

LEMMA ViewerSteps ==
  ASSUME Inv, Viewers \/ Evict
  PROVE  StreamOK'
<1> USE DEF Inv, StreamOK, window, transport
<1>1. ASSUME NEW S
      PROVE  told(S) \in [Viewer -> Size \cup {None}]
  BY DEF told, TypeOK
<1>2. ASSUME NEW v \in Viewer, Join(v) PROVE StreamOK'
  <2> USE <1>2 DEF Join
  <2>1. joins' \in Nat \ {0} BY DEF TypeOK
  <2>2. conn' \in [Viewer -> Nat] BY <2>1 DEF TypeOK
  <2>3. down' \in Seq(Nat)
    <3> DEFINE size == IF known = None THEN <<SizeRequest>> ELSE <<>>
    <3>1. size \in Seq(Nat) /\ <<joins + 1>> \in Seq(Nat) /\ down \in Seq(Nat)
      BY <2>1 DEF SizeRequest, TypeOK
    <3>2. down' = down \/ down' = down \o size \o <<joins + 1>> OBVIOUS
    <3> HIDE DEF size
    <3> QED BY ONLY <3>1, <3>2, ConcatProperties
  <2>4. TypeOK' BY <1>1, <2>1, <2>2, <2>3 DEF TypeOK
  <2>5. SenderOK' BY DEF SenderOK
  <2>6. WireOK' BY WireKept DEF Live, Ending, sent
  <2>7. ViewersOK'
    <3>1. \A u \in Viewer : conn'[u] = 0 => conn[u] = 0 BY <2>1 DEF TypeOK
    <3> QED BY <3>1 DEF ViewersOK
  <2> QED BY <2>4, <2>5, <2>6, <2>7
<1>3. ASSUME NEW v \in Viewer, Leave(v) PROVE StreamOK'
  <2> USE <1>3 DEF Leave
  <2>1. conn' \in [Viewer -> Nat] /\ pic' \in [Viewer -> Picture]
    BY DEF TypeOK, Picture
  <2>2. TypeOK' BY <1>1, <2>1 DEF TypeOK
  <2>3. SenderOK' BY DEF SenderOK
  <2>4. WireOK'
    <3>1. PICK p \in Position, q \in Position, w \in Seq(Frame) : PathOK(w, p, q) BY DEF WireOK
    <3>2. \A u \in Viewer : pic'[u] \in {Stale, p} BY <3>1 DEF TypeOK, PathOK
    <3>3. PathOK(w, p, q)' BY <3>1, <3>2 DEF PathOK, Live, sent, Ending, Closing
    <3> QED BY <3>3 DEF WireOK
  <2>5. ViewersOK'
    <3>1. \A u \in Viewer : conn'[u] = 0 => u = v \/ conn[u] = 0 BY DEF TypeOK
    <3>2. \A u \in Viewer : pic'[u] = IF u = v THEN Stale ELSE pic[u] BY DEF TypeOK
    <3> QED BY <3>1, <3>2 DEF ViewersOK
  <2> QED BY <2>2, <2>3, <2>4, <2>5
<1>4. CASE Evict
  <2> USE <1>4 DEF Evict
  <2>1. TypeOK'
    <3>1. down \in Seq(Nat) /\ SizeRequest \in Nat BY DEF TypeOK, SizeRequest
    <3>2. down' \in Seq(Nat) BY ONLY <1>4, <3>1, AppendProperties DEF Evict
    <3> QED BY <3>2 DEF TypeOK
  <2>2. SenderOK' BY DEF SenderOK
  <2>3. WireOK' BY WireKept DEF Live, Ending, sent
  <2>4. ViewersOK' BY DEF ViewersOK
  <2> QED BY <2>1, <2>2, <2>3, <2>4
<1> QED BY <1>2, <1>3, <1>4 DEF Viewers

LEMMA DrainKept ==
  ASSUME Inv, [Next]_vars
  PROVE  DrainOK'
<1> USE DEF Inv, StreamOK, DrainOK, window, transport
<1>1. /\ out \in State /\ out.screen.at \in Nat /\ screen.at \in Nat
      /\ Len(out.queue) \in Nat /\ taken \in Nat
      /\ exit # None => exit \in Nat
      /\ left # None => left \in Nat
  BY DEF TypeOK, State, QueueOK, SenderOK
<1>2. CASE Produce \/ Poll
  <2>1. \E m \in Message : m.n = out.screen.at + 1 /\ out' = push(out, m)
    <3>1. CASE Produce
      <4>1. PICK len \in ChunkLen, rest \in BOOLEAN : out' = push(out, chunk(out, len, rest))
        BY <3>1 DEF Produce
      <4>2. /\ chunk(out, len, rest) \in Message
            /\ chunk(out, len, rest).n = out.screen.at + 1
        BY SizesAssumption DEF chunk, Message, QueueOK
      <4> QED BY <4>1, <4>2
    <3>2. CASE Poll
      <4>1. /\ terminal_size_frame(out, os) \in Message
            /\ terminal_size_frame(out, os).n = out.screen.at + 1
        BY DEF terminal_size_frame, Message, QueueOK, TypeOK, State, Screen
      <4> QED BY <3>2, <4>1 DEF Poll
    <3> QED BY <1>2, <3>1, <3>2
  <2>2. Len(out'.queue) <= MaxQueue BY <1>1, <2>1, PushBounded
  <2>3. out'.screen.at = out.screen.at + 1 /\ (~out'.overflowed => ~out.overflowed)
    BY <1>1, <2>1, PushKeeps
  <2>4. UNCHANGED <<exit, transport>> BY <1>2 DEF Produce, Poll
  <2>5. exit' # None => exit' <= out'.screen.at BY <1>1, <2>3, <2>4
  <2> QED BY <2>2, <2>3, <2>4, <2>5
<1>3. CASE Exit
  <2>1. left = None BY <1>3 DEF Exit
  <2> QED BY <1>1, <1>3, <2>1 DEF Exit
<1>4. CASE Flush
  <2>1. screen.at + Len(out.queue) = out.screen.at BY <1>4 DEF Flush, SenderOK
  <2>2. exit # None => exit <= screen.at + Rounds * Turn
    BY <1>1, <2>1, SizesAssumption, DrainAssumption
  <2>3. UNCHANGED <<out, exit, taken, screen>> /\ pc' = "drain" /\ taken = 0 /\ left' = flushesLeft
    BY <1>4 DEF Flush
  <2>4. left' # None => exit # None BY <2>3 DEF flushesLeft
  <2>5. left' # None => exit <= screen.at + left' * Turn - taken
    <3>1. CASE left = None /\ exit # None
      <4>1. left' = Rounds BY <2>3, <3>1 DEF flushesLeft
      <4> QED BY <1>1, <2>2, <2>3, <3>1, <4>1, SizesAssumption
    <3>2. CASE ~(left = None /\ exit # None)
      BY <1>4, <2>3, <3>2 DEF Flush, flushesLeft
    <3> QED BY <3>1, <3>2
  <2> QED BY <2>3, <2>4, <2>5, SizesAssumption
<1>5. CASE Drain
  <2>1. /\ out'.screen = out.screen /\ out'.overflowed = out.overflowed
        /\ Len(out'.queue) = Len(out.queue) - 1
    BY <1>1, <1>5, TakeKeeps DEF Drain
  <2>2. SenderOK' BY <1>5, DrainStep
  <2>3. pc = "drain" /\ UNCHANGED <<exit, pc, left>> /\ taken' = taken + 1 /\ taken < Turn
    BY <1>5 DEF Drain
  <2>4. ~out.overflowed => screen'.at = screen.at + 1
    <3> SUFFICES ASSUME ~out.overflowed PROVE screen'.at = screen.at + 1 OBVIOUS
    <3>1. screen.at + Len(out.queue) = out.screen.at BY <2>3 DEF SenderOK
    <3>2. screen'.at \in Nat /\ screen'.at + Len(out'.queue) = out.screen.at
      BY <2>1, <2>2, <2>3 DEF SenderOK
    <3>3. screen'.at + (Len(out.queue) - 1) = out.screen.at BY ONLY <2>1, <3>2
    <3>4. Len(out.queue) \in Int /\ screen'.at \in Int /\ screen.at \in Int BY <1>1, <3>2
    <3> QED BY ONLY <3>1, <3>3, <3>4
  <2>5. left # None /\ ~out.overflowed => exit <= screen'.at + left * Turn - taken'
    <3>1. left # None /\ ~out.overflowed => exit <= screen.at + left * Turn - taken BY <2>3
    <3>2. left # None => left * Turn \in Nat BY <1>1, SizesAssumption
    <3> QED BY ONLY <1>1, <2>3, <2>4, <3>1, <3>2
  <2>6. Len(out'.queue) <= MaxQueue /\ taken' <= Turn BY <1>1, <2>1, <2>3, SizesAssumption
  <2> QED BY <2>1, <2>3, <2>5, <2>6
<1>6. CASE EndOfLastFlush
  <2>1. /\ pc = "drain" /\ (taken = Turn \/ out.queue = <<>>) /\ left # None /\ ~out.overflowed
        /\ UNCHANGED <<out, exit, screen>> /\ taken' = 0 /\ left' = left - 1
        /\ pc' \in {"end", "flush"}
    BY <1>6 DEF EndOfLastFlush, EndOfDrain
  <2>2. left \in Nat /\ left # 0 /\ left' # None /\ exit \in Nat /\ exit # None
    BY <1>1, <2>1, SizesAssumption DEF SenderOK
  <2>3. exit <= screen.at + left' * Turn
    <3>1. CASE taken = Turn
      <4>1. exit <= screen.at + left * Turn - Turn BY <2>1, <3>1
      <4>2. (left - 1) * Turn = left * Turn - Turn BY ONLY <2>2, SizesAssumption
      <4>3. left * Turn \in Int /\ Turn \in Int BY <2>2, SizesAssumption
      <4> QED BY ONLY <1>1, <2>1, <2>2, <4>1, <4>2, <4>3
    <3>2. CASE out.queue = <<>>
      <4>1. screen.at + Len(out.queue) = out.screen.at BY <2>1 DEF SenderOK
      <4>2. Len(out.queue) = 0 BY <3>2
      <4>4. exit <= out.screen.at BY <2>2
      <4>5. exit <= screen.at BY ONLY <1>1, <2>2, <4>1, <4>2, <4>4
      <4>3. left' * Turn \in Nat BY <2>1, <2>2, SizesAssumption
      <4> QED BY ONLY <1>1, <2>2, <4>3, <4>5
    <3> QED BY <2>1, <3>1, <3>2
  <2>4. exit <= screen.at + left' * Turn - 0
    <3>1. left' * Turn \in Int BY <2>1, <2>2, SizesAssumption
    <3> QED BY ONLY <1>1, <2>2, <2>3, <3>1
  <2> QED BY <2>1, <2>2, <2>4, SizesAssumption
<1>7. CASE Overflow
  BY <1>7, SizesAssumption DEF Overflow, EndOfDrain, flushesLeft
<1>8. CASE Connect \/ StartOutput \/ CannotStart \/ EndOfFlush
  <2>1. Len(out'.queue) <= MaxQueue /\ out'.screen = out.screen
    <3>1. Len(<<>>) <= MaxQueue BY SizesAssumption
    <3> QED BY <1>1, <1>8, <3>1 DEF Connect, StartOutput, CannotStart, EndOfFlush, restart, State
  <2> QED BY <1>8, <2>1, SizesAssumption
      DEF Connect, StartOutput, CannotStart, EndOfFlush, EndOfDrain
<1>9. CASE ReadNothing \/ Reads \/ Fail \/ Over \/ EndSession \/ Finish \/ GiveUp
  BY <1>9, SizesAssumption
  DEF ReadNothing, Reads, ReadSizeRequest, ReadSnapshotRequest, Fail, Over, EndSession,
      Finish, GiveUp
<1>10. CASE Resize \/ Relay \/ Viewers \/ Evict \/ UNCHANGED vars
  <2>1. UNCHANGED <<out, exit, transport>>
    BY <1>10
    DEF Resize, Relay, DeliverOutput, DeliverScreen, DeliverSize, DeliverSnapshot, DeliverEnd,
        Viewers, Join, Leave, Evict, vars
  <2> QED BY <2>1
<1> QED BY <1>2, <1>3, <1>4, <1>5, <1>6, <1>7, <1>8, <1>9, <1>10 DEF Next, Host, Turns

LEMMA InductiveStep == Inv /\ [Next]_vars => Inv'
<1> SUFFICES ASSUME Inv, [Next]_vars PROVE Inv' OBVIOUS
<1>1. CASE UNCHANGED vars
  <2> USE <1>1 DEF vars, window, transport, server
  <2>1. TypeOK' BY DEF Inv, StreamOK, TypeOK
  <2>2. SenderOK' BY DEF Inv, StreamOK, SenderOK
  <2>3. WireOK' BY WireKept DEF Inv, StreamOK, Live, sent, Ending
  <2>4. ViewersOK' BY DEF Inv, StreamOK, ViewersOK
  <2>5. StreamOK' BY <2>1, <2>2, <2>3, <2>4 DEF Inv, StreamOK
  <2> QED BY <2>5, DrainKept DEF Inv
<1>2. CASE Host BY <1>2, HostSteps, DrainKept DEF Host, Inv
<1>3. CASE Turns
  BY <1>3, ConnectionSteps, DrainStep, FlushSteps, OtherSteps, DrainKept DEF Turns, Inv
<1>4. CASE ReadNothing \/ Reads \/ Fail \/ Over
  BY <1>4, OtherSteps, DrainKept DEF Reads, Inv
<1>5. CASE Relay BY <1>5, RelaySteps, DrainKept DEF Inv
<1>6. CASE Viewers \/ Evict BY <1>6, ViewerSteps, DrainKept DEF Inv
<1> QED BY <1>1, <1>2, <1>3, <1>4, <1>5, <1>6 DEF Next

(* The queue, the transport's batch, the frames under way and the screens   *)
(* are consistent in every reachable state: what the queue, the batch and   *)
(* the wire hold continues, without a gap, what every viewer shows.         *)
THEOREM StreamConsistent == Spec => []Inv
BY Initially, InductiveStep, PTL DEF Spec

(* Every reachable state of the stream is well typed (output.rs's State,    *)
(* the transport's locals, the frames and the viewers' screens).            *)
THEOREM StreamTypes == Spec => []TypeOK
<1>1. Inv => TypeOK BY DEF Inv, StreamOK
<1> QED BY <1>1, StreamConsistent, PTL

(* No viewer ever draws output of which an earlier part is missing or comes *)
(* twice, for every number of viewers and connections and every capacity:   *)
(* restart (output.rs), the batches of flush_outgoing and the snapshots     *)
(* (transport.rs) always continue what the viewer shows.                    *)
THEOREM ScreensHaveNoGap == Spec => []NoGap
<1>1. Inv => NoGap
  <2> SUFFICES ASSUME Inv PROVE NoGap OBVIOUS
  <2>1. screen.at # Broken BY DEF Inv, StreamOK, SenderOK, Broken
  <2>2. \A v \in Viewer : pic[v] # Broken
    BY DEF Inv, StreamOK, WireOK, PathOK, Position, Stale, Blank, Broken
  <2> QED BY <2>1, <2>2 DEF NoGap
<1> QED BY <1>1, StreamConsistent, PTL

(* Within a generation no viewer's screen goes back to an earlier one:      *)
(* neither a late snapshot (applySnapshot in app.tsx) nor the screen of     *)
(* start_output undoes what the viewer has drawn.                           *)
THEOREM ScreensNeverGoBack == Spec => NeverBack
<1> DEFINE Forward == \A v \in Viewer : pic[v] >= 0 /\ pic'[v] >= 0 => pic[v] <= pic'[v]
<1>1. /\ ~(Blank >= 0) /\ ~(Stale >= 0)
      /\ \A n \in Picture : n <= n
  BY DEF Picture, Blank, Stale, Broken
<1>2. ASSUME Inv, [Next]_vars PROVE Forward \/ pic' = pic
  <2>1. \A v \in Viewer : pic[v] <= pic[v] BY <1>2, <1>1 DEF Inv, StreamOK, TypeOK
  <2>2. CASE Relay
    <3>1. PICK p \in Position, r \in Position :
            /\ (Head(wire) = EndMarker /\ p = r) \/ Leads(p, Head(wire), r)
            /\ \A v \in Viewer : pic[v] \in {Stale, p} /\ pic'[v] \in {Stale, r}
      BY <1>2, <2>2, RelayPictures
    <3>2. p >= 0 => p <= r
      <4>1. wire \in Seq(Frame) /\ wire # <<>> BY <1>2, <2>2, RelayPictures DEF Inv, StreamOK, TypeOK
      <4>2. Head(wire).kind = "output" => Len(Head(wire).data) \in Nat
        BY <4>1 DEF Frame
      <4>3. p >= 0 => p # Blank BY DEF Blank
      <4> QED BY <3>1, <4>2, <4>3 DEF Leads, Position, Blank
    <3>3. Stale \in Int /\ ~(Stale >= 0) /\ p \in Int /\ r \in Int
      BY DEF Stale, Position, Blank
    <3> QED BY <3>1, <3>2, <3>3
  <2>3. CASE Connect
    <3>1. \A v \in Viewer : pic'[v] = Blank \/ pic'[v] = pic[v] BY <2>3 DEF Connect
    <3> QED BY <1>1, <2>1, <3>1
  <2>4. CASE Viewers
    <3>1. \A v \in Viewer : pic'[v] = Stale \/ pic'[v] = pic[v]
      BY <1>2, <2>4 DEF Viewers, Join, Leave, Inv, StreamOK, TypeOK
    <3> QED BY <1>1, <2>1, <3>1
  <2>5. CASE Turns /\ ~Connect
    BY <2>5 DEF Turns, StartOutput, CannotStart, Flush, Drain, EndOfFlush, EndOfLastFlush,
                Overflow, EndSession, Finish, GiveUp, server
  <2>6. CASE Host \/ ReadNothing \/ Reads \/ Fail \/ Over \/ Evict \/ UNCHANGED vars
    BY <2>6 DEF Host, Produce, Resize, Poll, Exit, ReadNothing, Reads, ReadSizeRequest,
                ReadSnapshotRequest, Fail, Over, Evict, vars, server
  <2> QED BY <1>2, <2>2, <2>3, <2>4, <2>5, <2>6 DEF Next
<1>3. Inv /\ [Next]_vars => [Forward]_pic BY <1>2
<1> QED BY <1>3, StreamConsistent, PTL DEF Spec, NeverBack

(* When the server handles the end marker, every viewer whose screen has    *)
(* been restored shows all the shell wrote, unless the queue overflowed     *)
(* meanwhile: the rounds of the shutdown in run_websocket (transport.rs)    *)
(* empty a full queue, whatever is pushed in the meantime.                  *)
THEOREM EndComesLast == Spec => []EndIsComplete
<1>1. Inv => EndIsComplete
  <2> SUFFICES ASSUME Inv, ended, ~out.overflowed, NEW v \in Viewer
               PROVE  pic[v] = Stale \/ pic[v] >= exit
    BY DEF EndIsComplete
  <2>1. PICK p \in Position, q \in Position, w \in Seq(Frame) : PathOK(w, p, q)
    BY DEF Inv, StreamOK, WireOK
  <2>2. w = <<>>
    <3>1. wire = <<>> /\ (wire # w => wire = Append(w, EndMarker)) BY <2>1 DEF PathOK
    <3>2. EndMarker \in Frame BY DEF EndMarker, Frame
    <3>3. Append(w, EndMarker) # <<>> BY ONLY <3>2, AppendProperties
    <3> QED BY <3>1, <3>3
  <2>3. p = q
    <3>1. Len(<<>>) = 0 /\ Len(<<>>) + 1 = 1 OBVIOUS
    <3> QED BY <2>1, <2>2, <3>1 DEF PathOK, Reach
  <2>4. exit <= q BY <2>1 DEF PathOK, Closing
  <2>5. q \in Int /\ exit \in Int BY <2>1 DEF Position, Blank, Inv, StreamOK, TypeOK, PathOK, Closing
  <2>6. pic[v] \in {Stale, p} BY <2>1 DEF PathOK
  <2> QED BY ONLY <2>3, <2>4, <2>5, <2>6
<1> QED BY <1>1, StreamConsistent, PTL

----------------------------------------------------------------------------
(* The account of bytes.                                                   *)

\* s[i]: the bytes of the first i messages of q.
Sums(q, s) ==
  /\ s \in [0 .. Len(q) -> Int]
  /\ s[0] = 0
  /\ \A i \in 1 .. Len(q) : s[i] = s[i - 1] + q[i].len

LEMMA QueuedIsSum ==
  ASSUME NEW q \in Seq(Message), NEW s, Sums(q, s)
  PROVE  queued(q) = s[Len(q)]
<1> DEFINE U(f) == [i \in 0 .. Len(q) |-> IF i = 0 THEN 0 ELSE f[i - 1] + q[i].len]
           f == CHOOSE g : g = U(g)
<1>1. Len(q) \in Nat OBVIOUS
<1>2. s = U(s)
  <2>1. \A i \in 0 .. Len(q) : i = 0 \/ i \in 1 .. Len(q) BY <1>1
  <2>2. \A i \in 0 .. Len(q) : s[i] = (IF i = 0 THEN 0 ELSE s[i - 1] + q[i].len)
    BY <1>1, <2>1 DEF Sums
  <2> QED BY <2>2 DEF Sums
<1>3. f = U(f) BY <1>2
<1>4. queued(q) = f[Len(q)] BY DEF queued
<1> HIDE DEF f
<1>5. f[0] = 0 /\ \A i \in 1 .. Len(q) : f[i] = f[i - 1] + q[i].len
  <2>1. \A i \in 0 .. Len(q) : f[i] = (IF i = 0 THEN 0 ELSE f[i - 1] + q[i].len) BY <1>3
  <2> QED BY <1>1, <2>1
<1> DEFINE T == {i \in 0 .. Len(q) : f[i] # s[i]}
<1>6. T = {}
  <2> SUFFICES ASSUME T # {} PROVE FALSE OBVIOUS
  <2>1. T \subseteq Nat BY <1>1
  <2>2. PICK x \in T : \A y \in T : x <= y
    <3> HIDE DEF T
    <3> QED BY <2>1, LeastNumber
  <2>3. x \in 0 .. Len(q) /\ f[x] # s[x] OBVIOUS
  <2>4. x # 0 BY <1>5, <2>3 DEF Sums
  <2>5. x \in 1 .. Len(q) /\ x - 1 \in 0 .. Len(q) /\ ~(x <= x - 1) BY <1>1, <2>3, <2>4
  <2>6. f[x - 1] = s[x - 1] BY <2>2, <2>5
  <2> QED BY <1>5, <2>3, <2>5, <2>6 DEF Sums
<1>7. Len(q) \in 0 .. Len(q) BY <1>1
<1> QED BY <1>4, <1>6, <1>7

\* The account is right and within the capacity.
AccountOK(o) ==
  /\ o.bytes <= Capacity
  /\ \E s : Sums(o.queue, s) /\ s[Len(o.queue)] = o.bytes

LEMMA EmptyAccount ==
  ASSUME NEW o \in State, o.queue = <<>>, o.bytes = 0
  PROVE  AccountOK(o)
<1> DEFINE s == [i \in 0 .. 0 |-> 0]
<1>1. Len(o.queue) = 0 OBVIOUS
<1>2. s \in [0 .. 0 -> Int] /\ s[0] = 0 /\ 1 .. 0 = {} OBVIOUS
<1>3. Sums(o.queue, s) BY <1>1, <1>2 DEF Sums
<1> HIDE DEF s
<1> QED BY <1>1, <1>2, <1>3, SizesAssumption DEF AccountOK

LEMMA PushAccount ==
  ASSUME NEW o \in State, NEW m \in Message, AccountOK(o), push(o, m) \in State
  PROVE  AccountOK(push(o, m))
<1>1. /\ o.queue \in Seq(Message) /\ Len(o.queue) \in Nat
      /\ o.bytes \in Int /\ m.len \in Int
  BY DEF State, Message
<1>2. \/ push(o, m).queue = o.queue /\ push(o, m).bytes = o.bytes
      \/ push(o, m).queue = <<>> /\ push(o, m).bytes = 0
      \/ /\ push(o, m).queue = Append(o.queue, m) /\ push(o, m).bytes = o.bytes + m.len
         /\ ~(m.len > Capacity - o.bytes)
  BY DEF push, State
<1>3. CASE push(o, m).queue = o.queue /\ push(o, m).bytes = o.bytes
  BY <1>3 DEF AccountOK
<1>4. CASE push(o, m).queue = <<>> /\ push(o, m).bytes = 0
  BY <1>4, EmptyAccount
<1>5. CASE /\ push(o, m).queue = Append(o.queue, m) /\ push(o, m).bytes = o.bytes + m.len
           /\ ~(m.len > Capacity - o.bytes)
  <2>1. PICK s : Sums(o.queue, s) /\ s[Len(o.queue)] = o.bytes BY DEF AccountOK
  <2> DEFINE n == Len(o.queue)
             q == Append(o.queue, m)
             t == [i \in 0 .. n + 1 |-> IF i = n + 1 THEN o.bytes + m.len ELSE s[i]]
  <2>2. /\ n \in Nat /\ Len(q) = n + 1 /\ q[n + 1] = m
        /\ \A i \in 1 .. n : q[i] = o.queue[i]
    BY <1>1, AppendProperties
  <2>3. /\ s \in [0 .. n -> Int] /\ s[0] = 0 /\ s[n] = o.bytes
        /\ \A i \in 1 .. n : s[i] = s[i - 1] + o.queue[i].len
    BY <2>1 DEF Sums
  <2> HIDE DEF n, q
  <2>4. t \in [0 .. n + 1 -> Int] BY <1>1, <2>2, <2>3
  <2>5. t[0] = 0 /\ t[n + 1] = o.bytes + m.len /\ \A i \in 0 .. n : t[i] = s[i]
    BY <2>2, <2>3
  <2> HIDE DEF t
  <2>6. ASSUME NEW i \in 1 .. n + 1 PROVE t[i] = t[i - 1] + q[i].len
    <3>1. CASE i = n + 1
      <4>1. i - 1 = n /\ n \in 0 .. n BY <2>2, <3>1
      <4> QED BY <2>2, <2>3, <2>5, <3>1, <4>1
    <3>2. CASE i \in 1 .. n
      <4>1. i \in 0 .. n /\ i - 1 \in 0 .. n BY <2>2, <3>2
      <4> QED BY <2>2, <2>3, <2>5, <3>2, <4>1
    <3> QED BY <2>2, <3>1, <3>2
  <2>7. Sums(q, t) BY <2>2, <2>4, <2>5, <2>6 DEF Sums
  <2>8. push(o, m).queue = q /\ t[Len(q)] = push(o, m).bytes BY <1>5, <2>2, <2>5 DEF q
  <2>9. push(o, m).bytes <= Capacity BY <1>1, <1>5, SizesAssumption
  <2> QED BY <2>7, <2>8, <2>9 DEF AccountOK
<1> QED BY <1>2, <1>3, <1>4, <1>5

LEMMA TakeAccount ==
  ASSUME NEW o \in State, o.queue # <<>>, AccountOK(o)
  PROVE  AccountOK(try_recv(o))
<1>1. /\ o.queue \in Seq(Message) /\ Len(o.queue) \in Nat /\ o.bytes \in Int
      /\ Head(o.queue) \in Message
  BY DEF State
<1>2. /\ try_recv(o).queue = Tail(o.queue)
      /\ try_recv(o).bytes = o.bytes - Head(o.queue).len
  BY DEF try_recv, State
<1>3. PICK s : Sums(o.queue, s) /\ s[Len(o.queue)] = o.bytes BY DEF AccountOK
<1> DEFINE n == Len(o.queue)
           q == Tail(o.queue)
           h == Head(o.queue).len
           t == [i \in 0 .. n - 1 |-> s[i + 1] - h]
<1>4. /\ n \in Nat /\ n >= 1 /\ Len(q) = n - 1 /\ h = o.queue[1].len
      /\ \A i \in 1 .. n - 1 : q[i] = o.queue[i + 1]
  BY <1>1, HeadTailProperties
<1>5. /\ s \in [0 .. n -> Int] /\ s[0] = 0 /\ s[n] = o.bytes
      /\ \A i \in 1 .. n : s[i] = s[i - 1] + o.queue[i].len
  BY <1>3 DEF Sums
<1>6. h \in Nat \ {0} BY <1>1 DEF Message
<1> HIDE DEF n, q, h
<1>7. \A i \in 0 .. n - 1 : s[i + 1] \in Int
  <2> TAKE i \in 0 .. n - 1
  <2>1. i + 1 \in 0 .. n BY <1>4
  <2> QED BY <1>5, <2>1
<1>8. t \in [0 .. n - 1 -> Int] BY <1>6, <1>7
<1>9. \A i \in 0 .. n - 1 : t[i] = s[i + 1] - h OBVIOUS
<1> HIDE DEF t
<1>10. t[0] = 0
  <2>1. 0 \in 0 .. n - 1 /\ 1 \in 1 .. n BY <1>4
  <2>2. s[1] = s[0] + o.queue[1].len BY <1>5, <2>1
  <2>3. t[0] = s[0 + 1] - h BY <1>9, <2>1
  <2> QED BY <1>4, <1>5, <1>6, <2>2, <2>3
<1>11. ASSUME NEW i \in 1 .. n - 1 PROVE t[i] = t[i - 1] + q[i].len
  <2>1. i + 1 \in 1 .. n /\ i \in 0 .. n - 1 /\ i - 1 \in 0 .. n - 1 /\ (i + 1) - 1 = i /\ (i - 1) + 1 = i
    BY <1>4
  <2>2. s[i + 1] = s[i] + o.queue[i + 1].len BY <1>5, <2>1
  <2>3. t[i] = s[i + 1] - h /\ t[i - 1] = s[i] - h BY <1>9, <2>1
  <2>4. q[i] = o.queue[i + 1] BY <1>4
  <2>5. s[i] \in Int /\ s[i + 1] \in Int /\ o.queue[i + 1].len \in Int
    <3>1. o.queue[i + 1] \in Message BY <1>1, <2>1 DEF n
    <3>2. i \in 0 .. n BY <1>4
    <3> QED BY <1>5, <1>7, <2>1, <3>1, <3>2 DEF Message
  <2> QED BY <1>6, <2>2, <2>3, <2>4, <2>5
<1>12. Sums(q, t) BY <1>4, <1>8, <1>10, <1>11 DEF Sums
<1>13. t[Len(q)] = o.bytes - h
  <2>1. n - 1 \in 0 .. n - 1 /\ (n - 1) + 1 = n BY <1>4
  <2> QED BY <1>4, <1>5, <1>9, <2>1
<1>14. o.bytes - h <= Capacity
  <2>1. o.bytes <= Capacity BY DEF AccountOK
  <2> QED BY <1>1, <1>6, <2>1, SizesAssumption
<1> QED BY <1>2, <1>12, <1>13, <1>14 DEF AccountOK, q, h

LEMMA RestartAccount ==
  ASSUME NEW o \in State
  PROVE  AccountOK(restart(o))
<1>1. /\ restart(o) \in State /\ restart(o).queue = <<>> /\ restart(o).bytes = 0
  <2>1. <<>> \in Seq(Message) /\ 0 \in Int OBVIOUS
  <2> QED BY <2>1 DEF restart, State
<1> QED BY <1>1, EmptyAccount

\* What a step may do to the queue.
LEMMA QueueSteps ==
  ASSUME Inv, [Next]_vars
  PROVE  \/ out' = out
         \/ \E m \in Message : m.n = out.screen.at + 1 /\ out' = push(out, m)
         \/ out' = restart(out)
         \/ out.queue # <<>> /\ out' = try_recv(out)
<1> USE DEF Inv, StreamOK
<1>1. CASE Produce
  <2>1. PICK len \in ChunkLen, rest \in BOOLEAN : out' = push(out, chunk(out, len, rest))
    BY <1>1 DEF Produce
  <2>2. /\ chunk(out, len, rest) \in Message
        /\ chunk(out, len, rest).n = out.screen.at + 1
    BY SizesAssumption DEF chunk, Message, QueueOK
  <2> QED BY <2>1, <2>2
<1>2. CASE Poll
  <2>1. /\ terminal_size_frame(out, os) \in Message
        /\ terminal_size_frame(out, os).n = out.screen.at + 1
    BY DEF terminal_size_frame, Message, QueueOK, TypeOK, State, Screen
  <2> QED BY <1>2, <2>1 DEF Poll
<1>3. CASE StartOutput BY <1>3 DEF StartOutput
<1>4. CASE Drain BY <1>4 DEF Drain
<1>5. CASE ~Produce /\ ~Poll /\ ~StartOutput /\ ~Drain
  BY <1>5
  DEF Next, Host, Turns, Resize, Exit, Connect, CannotStart, Flush, EndOfFlush,
      EndOfLastFlush, Overflow, EndSession, Finish, GiveUp, ReadNothing, Reads,
      ReadSizeRequest, ReadSnapshotRequest, Fail, Over, Relay, DeliverOutput, DeliverScreen,
      DeliverSize, DeliverSnapshot, DeliverEnd, Viewers, Join, Leave, Evict, vars
<1> QED BY <1>1, <1>2, <1>3, <1>4, <1>5

(* The account of the queue's bytes is right after every step, whatever was *)
(* pushed, taken, dropped by an overflow or by a restart (output.rs).       *)
LEMMA AccountAlways == Spec => []AccountOK(out)
<1>1. Init => AccountOK(out)
  <2> SUFFICES ASSUME Init PROVE AccountOK(out) OBVIOUS
  <2> DEFINE sizeMsg == terminal_size_frame(channel, os)
             sized == push(channel, sizeMsg)
             banner == chunk(sized, 1, TRUE)
  <2>1. /\ channel \in State /\ QueueOK(channel) /\ channel.queue = <<>> /\ channel.bytes = 0
        /\ channel.screen = [at |-> 0, rest |-> TRUE, size |-> None]
    BY DEF channel, State, Screen, QueueOK
  <2>2. sizeMsg \in Message /\ sizeMsg.n = channel.screen.at + 1
    BY <2>1 DEF terminal_size_frame, Message, Init
  <2>3. out = push(sized, banner) BY DEF Init
  <2> HIDE DEF sizeMsg
  <2>4. sized \in State /\ QueueOK(sized) /\ AccountOK(sized)
    BY <2>1, <2>2, PushKeeps, EmptyAccount, PushAccount
  <2> HIDE DEF sized
  <2>5. banner \in Message /\ banner.n = sized.screen.at + 1 BY <2>4 DEF chunk, Message, QueueOK
  <2> HIDE DEF banner
  <2> QED BY <2>3, <2>4, <2>5, PushKeeps, PushAccount
<1>2. Inv /\ AccountOK(out) /\ [Next]_vars => AccountOK(out)'
  <2> SUFFICES ASSUME Inv, AccountOK(out), [Next]_vars PROVE AccountOK(out') OBVIOUS
  <2>1. out \in State /\ QueueOK(out) BY DEF Inv, StreamOK, TypeOK
  <2>2. CASE out' = out BY <2>2
  <2>3. ASSUME NEW m \in Message, m.n = out.screen.at + 1, out' = push(out, m)
        PROVE  AccountOK(out')
    BY <2>1, <2>3, PushKeeps, PushAccount
  <2>4. CASE out' = restart(out) BY <2>1, <2>4, RestartAccount
  <2>5. CASE out.queue # <<>> /\ out' = try_recv(out) BY <2>1, <2>5, TakeAccount
  <2> QED BY <2>2, <2>3, <2>4, <2>5, QueueSteps
<1> QED BY <1>1, <1>2, StreamConsistent, PTL DEF Spec

(* The queue keeps its limits, and its account of bytes is the size of what *)
(* is queued, for every capacity and every length of the chunks: push,      *)
(* try_recv and restart (output.rs) never let the account drift.            *)
THEOREM QueueKeepsItsLimits == Spec => []QueueBounded
<1>1. Inv /\ AccountOK(out) => QueueBounded
  <2> SUFFICES ASSUME Inv, AccountOK(out) PROVE QueueBounded OBVIOUS
  <2>1. PICK s : Sums(out.queue, s) /\ s[Len(out.queue)] = out.bytes BY DEF AccountOK
  <2>2. out.queue \in Seq(Message) BY DEF Inv, StreamOK, TypeOK, State
  <2>3. out.bytes = queued(out.queue) BY <2>1, <2>2, QueuedIsSum
  <2> QED BY <2>3 DEF QueueBounded, AccountOK, Inv, DrainOK
<1> QED BY <1>1, AccountAlways, StreamConsistent, PTL

----------------------------------------------------------------------------
(* Terminal sizes.                                                         *)

\* The last member of B in q is in A.
EndsIn(q, A, B) ==
  \E i \in 1 .. Len(q) : q[i] \in A /\ \A j \in i + 1 .. Len(q) : q[j] \notin B

\* No member of B is in q.
Free(q, B) == \A i \in 1 .. Len(q) : q[i] \notin B

SizeMessages == {m \in Message : m.size # None}
SizeFrames == {f \in Frame : f.kind = "size"}

\* The size messages, and frames, that carry the window's present size.
NowMessages == {m \in SizeMessages : m.size = os}
NowFrames == {f \in SizeFrames : f.size = os}

\* The size the server will keep once it has handled all that is under way.
FinalSize ==
  \/ EndsIn(out.queue, NowMessages, SizeMessages)
  \/ /\ Free(out.queue, SizeMessages)
     /\ \/ EndsIn(wire, NowFrames, SizeFrames)
        \/ Free(wire, SizeFrames) /\ known \in {os, None}

\* Of several sizes under way the last one is the window's, unless the poll is
\* going to push the window's size, or a new screen with its size is to come.
SizesFollow ==
  /\ out.screen.size = last
  /\ pc \in {"flush", "drain", "read"} /\ ~out.overflowed /\ last = os => FinalSize

LEMMA EndsInTail ==
  ASSUME NEW S, NEW q \in Seq(S), q # <<>>, NEW A, NEW B, EndsIn(q, A, B)
  PROVE  EndsIn(Tail(q), A, B) \/ (Head(q) \in A /\ Free(Tail(q), B))
<1>1. /\ Len(q) \in Nat /\ Len(q) >= 1 /\ Len(Tail(q)) = Len(q) - 1 /\ Head(q) = q[1]
      /\ \A i \in 1 .. Len(q) - 1 : Tail(q)[i] = q[i + 1]
  BY HeadTailProperties
<1>2. PICK i \in 1 .. Len(q) : q[i] \in A /\ \A j \in i + 1 .. Len(q) : q[j] \notin B
  BY DEF EndsIn
<1>3. ASSUME NEW j \in i .. Len(q) - 1 PROVE Tail(q)[j] \notin B
  <2>1. j \in 1 .. Len(q) - 1 /\ j + 1 \in i + 1 .. Len(q) BY <1>1
  <2> QED BY <1>1, <1>2, <2>1
<1>4. CASE i = 1 BY <1>1, <1>2, <1>3, <1>4 DEF Free
<1>5. CASE i # 1
  <2>1. i - 1 \in 1 .. Len(q) - 1 /\ (i - 1) + 1 = i BY <1>1, <1>5
  <2>2. Tail(q)[i - 1] \in A BY <1>1, <1>2, <2>1
  <2> QED BY <1>1, <1>3, <2>1, <2>2 DEF EndsIn
<1> QED BY <1>4, <1>5

LEMMA FreeTail ==
  ASSUME NEW S, NEW q \in Seq(S), q # <<>>, NEW B, Free(q, B)
  PROVE  Free(Tail(q), B) /\ Head(q) \notin B
<1>1. /\ Len(q) \in Nat /\ Len(q) >= 1 /\ Len(Tail(q)) = Len(q) - 1 /\ Head(q) = q[1]
      /\ \A i \in 1 .. Len(q) - 1 : Tail(q)[i] = q[i + 1]
  BY HeadTailProperties
<1>2. \A i \in 1 .. Len(q) - 1 : i + 1 \in 1 .. Len(q) BY <1>1
<1> QED BY <1>1, <1>2 DEF Free

LEMMA EndsInConcat ==
  ASSUME NEW S, NEW q \in Seq(S), NEW r \in Seq(S), NEW A, NEW B, Free(r, B)
  PROVE  /\ EndsIn(q, A, B) => EndsIn(q \o r, A, B)
         /\ Free(q, B) => Free(q \o r, B)
<1>1. /\ Len(q) \in Nat /\ Len(r) \in Nat /\ Len(q \o r) = Len(q) + Len(r)
      /\ \A i \in 1 .. Len(q) + Len(r) :
           (q \o r)[i] = IF i <= Len(q) THEN q[i] ELSE r[i - Len(q)]
  BY ConcatProperties
<1>2. ASSUME NEW j \in Len(q) + 1 .. Len(q) + Len(r) PROVE (q \o r)[j] \notin B
  <2>1. j \in 1 .. Len(q) + Len(r) /\ ~(j <= Len(q)) /\ j - Len(q) \in 1 .. Len(r) BY <1>1
  <2> QED BY <1>1, <2>1 DEF Free
<1>3. ASSUME NEW j \in 1 .. Len(q) PROVE (q \o r)[j] = q[j]
  <2>1. j \in 1 .. Len(q) + Len(r) /\ j <= Len(q) BY <1>1
  <2> QED BY <1>1, <2>1
<1>4. ASSUME EndsIn(q, A, B) PROVE EndsIn(q \o r, A, B)
  <2>1. PICK i \in 1 .. Len(q) : q[i] \in A /\ \A j \in i + 1 .. Len(q) : q[j] \notin B
    BY <1>4 DEF EndsIn
  <2>2. ASSUME NEW j \in i + 1 .. Len(q) + Len(r) PROVE (q \o r)[j] \notin B
    <3>1. (j \in i + 1 .. Len(q) /\ j \in 1 .. Len(q)) \/ j \in Len(q) + 1 .. Len(q) + Len(r)
      BY <1>1
    <3> QED BY <1>2, <1>3, <2>1, <3>1
  <2>3. i \in 1 .. Len(q \o r) BY <1>1
  <2> QED BY <1>1, <1>3, <2>1, <2>2, <2>3 DEF EndsIn
<1>5. ASSUME Free(q, B) PROVE Free(q \o r, B)
  <2>1. \A j \in 1 .. Len(q) + Len(r) : j \in 1 .. Len(q) \/ j \in Len(q) + 1 .. Len(q) + Len(r)
    BY <1>1
  <2> QED BY <1>1, <1>2, <1>3, <1>5, <2>1 DEF Free
<1> QED BY <1>4, <1>5

LEMMA EndsInLast ==
  ASSUME NEW S, NEW q \in Seq(S), NEW A, NEW B, NEW e \in S, e \in A
  PROVE  EndsIn(Append(q, e), A, B)
<1>1. /\ Len(q) \in Nat /\ Len(Append(q, e)) = Len(q) + 1 /\ Append(q, e)[Len(q) + 1] = e
  BY AppendProperties
<1>2. Len(q) + 1 \in 1 .. Len(q) + 1 /\ (Len(q) + 1) + 1 .. Len(q) + 1 = {} BY <1>1
<1> QED BY <1>1, <1>2 DEF EndsIn

LEMMA FreeAppend ==
  ASSUME NEW S, NEW q \in Seq(S), NEW A, NEW B, NEW e \in S, e \notin B
  PROVE  /\ EndsIn(q, A, B) => EndsIn(Append(q, e), A, B)
         /\ Free(q, B) => Free(Append(q, e), B)
<1>1. Append(q, e) = q \o <<e>> BY AppendIsConcat
<1>2. <<e>> \in Seq(S) /\ Len(<<e>>) = 1 /\ <<e>>[1] = e OBVIOUS
<1>3. Free(<<e>>, B) BY <1>2 DEF Free
<1> QED BY <1>1, <1>2, <1>3, EndsInConcat

LEMMA FreeEmpty == ASSUME NEW B PROVE Free(<<>>, B)
BY DEF Free

LEMMA PushScreenSize ==
  ASSUME NEW o \in State, NEW m \in Message
  PROVE  push(o, m).screen.size = IF m.size = None THEN o.screen.size ELSE m.size
<1> DEFINE seen == [o EXCEPT !.screen = tracked(@, m)]
<1>1. push(o, m).screen = seen.screen BY DEF push, State
<1>2. seen.screen = tracked(o.screen, m) BY DEF State
<1> QED BY <1>1, <1>2 DEF tracked

\* A push that does not overflow appends the message.
LEMMA PushAppends ==
  ASSUME NEW o \in State, NEW m \in Message, ~push(o, m).overflowed
  PROVE  ~o.overflowed /\ push(o, m).queue = Append(o.queue, m)
BY DEF push, State

LEMMA BatchHasNoSize ==
  ASSUME pending \in Seq(Nat \ {0})
  PROVE  /\ send_tty_output(pending) \in Seq(Frame)
         /\ Free(send_tty_output(pending), SizeFrames)
<1> DEFINE f == [kind |-> "output", data |-> pending]
<1>1. f \in Frame /\ f.kind # "size" BY DEF Frame
<1>2. send_tty_output(pending) = IF pending = <<>> THEN <<>> ELSE <<f>>
  BY DEF send_tty_output
<1> HIDE DEF f
<1>3. <<>> \in Seq(Frame) /\ <<f>> \in Seq(Frame) /\ Len(<<f>>) = 1 /\ <<f>>[1] = f BY <1>1
<1>4. Free(<<f>>, SizeFrames) BY <1>1, <1>3 DEF Free, SizeFrames
<1> QED BY <1>2, <1>3, <1>4, FreeEmpty

LEMMA AnswersHaveNoSize ==
  ASSUME asks \in Seq(Nat \ {0}), screen \in Screen, screen.at \in Nat
  PROVE  answers \in Seq(Frame) /\ Free(answers, SizeFrames)
<1>1. CASE screen.rest
  <2> DEFINE n == Len(asks)
             reply == [i \in 1 .. n |-> snapshot_text(asks[i])]
  <2>1. answers = reply BY <1>1 DEF answers
  <2>2. \A i \in 1 .. n : snapshot_text(asks[i]) \in Frame /\ snapshot_text(asks[i]).kind # "size"
    BY DEF snapshot_text, Frame, Screen
  <2>3. n \in Nat OBVIOUS
  <2>4. \A i \in 1 .. n : reply[i] = snapshot_text(asks[i]) OBVIOUS
  <2>5. reply \in [1 .. n -> Frame] BY <2>2
  <2> HIDE DEF n, reply
  <2>6. reply \in Seq(Frame) /\ Len(reply) = n BY <2>3, <2>5
  <2>7. Free(reply, SizeFrames) BY <2>2, <2>4, <2>6 DEF Free, SizeFrames
  <2> QED BY <2>1, <2>6, <2>7
<1>2. CASE ~screen.rest
  <2>1. answers = <<>> /\ <<>> \in Seq(Frame) BY <1>2 DEF answers
  <2> QED BY <2>1, FreeEmpty
<1> QED BY <1>1, <1>2

\* The sizes of the frames that SizeFrame makes.
LEMMA SizeFrameSize ==
  ASSUME NEW n \in Nat, NEW s \in Size \cup {None}
  PROVE  /\ SizeFrame(n, s) \in SizeFrames
         /\ s = os => SizeFrame(n, s) \in NowFrames
BY DEF SizeFrame, SizeFrames, NowFrames, Frame

LEMMA SizesInitially == Init => SizesFollow
<1> SUFFICES ASSUME Init PROVE SizesFollow OBVIOUS
<1> DEFINE sizeMsg == terminal_size_frame(channel, os)
           sized == push(channel, sizeMsg)
           banner == chunk(sized, 1, TRUE)
<1>1. /\ channel \in State /\ QueueOK(channel)
      /\ channel.screen = [at |-> 0, rest |-> TRUE, size |-> None]
  BY DEF channel, State, Screen, QueueOK
<1>2. sizeMsg \in Message /\ sizeMsg.n = channel.screen.at + 1 /\ sizeMsg.size = os
  BY <1>1 DEF terminal_size_frame, Message, Init
<1>3. out = push(sized, banner) BY DEF Init
<1> HIDE DEF sizeMsg
<1>4. sized \in State /\ QueueOK(sized) BY <1>1, <1>2, PushKeeps
<1>5. sized.screen.size = os BY <1>1, <1>2, PushScreenSize
<1> HIDE DEF sized
<1>6. banner \in Message /\ banner.size = None BY <1>4 DEF chunk, Message, QueueOK
<1> HIDE DEF banner
<1>7. out.screen.size = os BY <1>3, <1>4, <1>5, <1>6, PushScreenSize
<1> QED BY <1>7 DEF SizesFollow, Init

\* A step after which the connection is not in use.
LEMMA SizesIdle ==
  ASSUME SizesFollow, out'.screen = out.screen, last' = last, pc' \notin {"flush", "drain", "read"}
  PROVE  SizesFollow'
BY DEF SizesFollow

\* A step that keeps the queue and sends nothing with a size.
LEMMA SizesKept ==
  ASSUME SizesFollow, TypeOK, out' = out, UNCHANGED window,
         pc' \in {"flush", "drain", "read"} => pc \in {"flush", "drain", "read"},
         NEW g \in Seq(Frame), Free(g, SizeFrames), wire' = wire \o g,
         known' \in {known, None}
  PROVE  SizesFollow'
<1>1. FinalSize => FinalSize'
  <2>1. wire \in Seq(Frame) BY DEF TypeOK
  <2>2. /\ EndsIn(wire, NowFrames, SizeFrames) => EndsIn(wire \o g, NowFrames, SizeFrames)
        /\ Free(wire, SizeFrames) => Free(wire \o g, SizeFrames)
    BY <2>1, EndsInConcat
  <2>3. NowFrames' = NowFrames /\ NowMessages' = NowMessages
    BY DEF window, NowFrames, NowMessages
  <2> QED BY <2>2, <2>3 DEF FinalSize, window
<1> QED BY <1>1 DEF SizesFollow, window

LEMMA SizesSteps ==
  ASSUME SlowResizes, Inv, SizesFollow, [Next]_vars
  PROVE  SizesFollow'
<1> USE DEF Inv, StreamOK
<1>1. /\ out \in State /\ QueueOK(out) /\ out.queue \in Seq(Message) /\ wire \in Seq(Frame)
      /\ os \in Size /\ last \in Size /\ pending \in Seq(Nat \ {0}) /\ asks \in Seq(Nat \ {0})
      /\ screen \in Screen /\ screen.at \in Nat
  BY DEF TypeOK, State, SenderOK
<1>2. <<>> \in Seq(Frame) /\ wire = wire \o <<>> BY <1>1, ConcatEmptySeq
<1>3. CASE Produce
  <2>1. PICK len \in ChunkLen, rest \in BOOLEAN : out' = push(out, chunk(out, len, rest))
    BY <1>3 DEF Produce
  <2> DEFINE m == chunk(out, len, rest)
  <2>2. m \in Message /\ m.size = None BY SizesAssumption DEF chunk, Message, QueueOK
  <2>3. out' = push(out, m) BY <2>1
  <2> HIDE DEF m
  <2>4. out'.screen.size = out.screen.size BY <1>1, <2>2, <2>3, PushScreenSize
  <2>5. UNCHANGED <<window, pc, wire, known>> BY <1>3 DEF Produce, transport, server
  <2>6. ~out'.overflowed /\ FinalSize => FinalSize'
    <3> SUFFICES ASSUME ~out'.overflowed, FinalSize PROVE FinalSize' OBVIOUS
    <3>1. out'.queue = Append(out.queue, m) BY <1>1, <2>2, <2>3, PushAppends
    <3>2. m \notin SizeMessages BY <2>2 DEF SizeMessages
    <3>3. /\ EndsIn(out.queue, NowMessages, SizeMessages)
               => EndsIn(out'.queue, NowMessages, SizeMessages)
          /\ Free(out.queue, SizeMessages) => Free(out'.queue, SizeMessages)
      BY <1>1, <2>2, <3>1, <3>2, FreeAppend
    <3>4. NowFrames' = NowFrames /\ NowMessages' = NowMessages
      BY <2>5 DEF window, NowFrames, NowMessages
    <3> QED BY <2>5, <3>3, <3>4 DEF FinalSize, window
  <2>7. ~out'.overflowed => ~out.overflowed BY <1>1, <2>2, <2>3, PushAppends
  <2> QED BY <2>4, <2>5, <2>6, <2>7 DEF SizesFollow, window
<1>4. CASE Poll
  <2> DEFINE m == terminal_size_frame(out, os)
  <2>1. m \in Message /\ m.size = os /\ os # None
    BY <1>1, SizesAssumption DEF terminal_size_frame, Message, QueueOK, State, Screen
  <2>2. out' = push(out, m) /\ last' = os /\ os' = os BY <1>4 DEF Poll
  <2> HIDE DEF m
  <2>3. out'.screen.size = last' BY <1>1, <2>1, <2>2, PushScreenSize
  <2>4. ~out'.overflowed => FinalSize'
    <3> SUFFICES ASSUME ~out'.overflowed PROVE FinalSize' OBVIOUS
    <3>1. out'.queue = Append(out.queue, m) BY <1>1, <2>1, <2>2, PushAppends
    <3>2. m \in NowMessages' BY <2>1, <2>2 DEF NowMessages, SizeMessages
    <3>3. EndsIn(out'.queue, NowMessages', SizeMessages) BY <1>1, <2>1, <3>1, <3>2, EndsInLast
    <3> QED BY <3>3 DEF FinalSize
  <2> QED BY <2>3, <2>4 DEF SizesFollow
<1>5. CASE Resize
  BY <1>5 DEF Resize, SizesFollow
<1>6. CASE StartOutput
  <2>1. wire' = Append(Append(wire, SizeFrame(0, out.screen.size)), [kind |-> "screen", at |-> out.screen.at])
    BY <1>1, <1>6 DEF StartOutput, SizeFrame
  <2> DEFINE s == SizeFrame(0, out.screen.size)
             f == [kind |-> "screen", at |-> out.screen.at]
  <2>2. f \in Frame /\ f.kind # "size" BY <1>1 DEF Frame, QueueOK
  <2>3. out.screen.size = last /\ UNCHANGED window BY <1>6 DEF SizesFollow, StartOutput
  <2>4. s \in Frame /\ (last = os => s \in NowFrames)
    BY <1>1, <2>3, SizeFrameSize DEF SizeFrames
  <2>5. wire' = Append(Append(wire, s), f) BY <2>1
  <2>6. f \notin SizeFrames BY <2>2 DEF SizeFrames
  <2> HIDE DEF s, f
  <2>7. last = os => EndsIn(wire', NowFrames, SizeFrames)
    <3> SUFFICES ASSUME last = os PROVE EndsIn(wire', NowFrames, SizeFrames) OBVIOUS
    <3>1. EndsIn(Append(wire, s), NowFrames, SizeFrames) BY <1>1, <2>4, EndsInLast
    <3>2. Append(wire, s) \in Seq(Frame) BY <1>1, <2>4
    <3> QED BY <2>2, <2>5, <2>6, <3>1, <3>2, FreeAppend
  <2>8. out'.queue = <<>> /\ out'.screen = out.screen
    BY <1>1, <1>6 DEF StartOutput, restart, State
  <2>9. NowFrames' = NowFrames /\ Free(out'.queue, SizeMessages)
    BY <2>3, <2>8, FreeEmpty DEF NowFrames, window
  <2> QED BY <2>3, <2>7, <2>8, <2>9 DEF SizesFollow, FinalSize, window
<1>7. CASE Drain
  <2> DEFINE m == Head(out.queue)
             g == send_tty_output(pending)
  <2>1. out.queue # <<>> /\ pc = "drain" /\ pc' = pc /\ UNCHANGED <<window, known>>
    BY <1>7 DEF Drain, server
  <2>2. /\ m \in Message /\ out'.screen = out.screen /\ out'.overflowed = out.overflowed
        /\ out'.queue = Tail(out.queue)
    <3>1. out'.queue = Tail(out.queue) BY <1>1, <1>7 DEF Drain, try_recv, State
    <3> QED BY <1>1, <1>7, <2>1, <3>1, TakeKeeps DEF Drain
  <2>3. g \in Seq(Frame) /\ Free(g, SizeFrames) BY <1>1, BatchHasNoSize
  <2>4. \/ m.size # None /\ wire' = wire \o g \o <<SizeFrame(m.n, m.size)>>
        \/ m.size = None /\ wire' \in {wire, wire \o g}
    BY <1>7 DEF Drain
  <2> HIDE DEF m, g
  <2>5. SUFFICES ASSUME FinalSize PROVE FinalSize'
    BY <2>1, <2>2 DEF SizesFollow, window
  <2>6. NowFrames' = NowFrames /\ NowMessages' = NowMessages
    BY <2>1 DEF window, NowFrames, NowMessages
  <2>7. /\ wire \o g \in Seq(Frame)
        /\ EndsIn(wire, NowFrames, SizeFrames) => EndsIn(wire \o g, NowFrames, SizeFrames)
        /\ Free(wire, SizeFrames) => Free(wire \o g, SizeFrames)
    BY <1>1, <2>3, EndsInConcat, ConcatProperties
  <2>8. CASE m.size # None
    <3>1. m \in SizeMessages /\ m.n \in Nat /\ m.size \in Size \cup {None}
      BY <2>2, <2>8 DEF SizeMessages, Message
    <3>2. ~Free(out.queue, SizeMessages) BY <1>1, <2>1, <3>1, FreeTail DEF m
    <3>3. EndsIn(out.queue, NowMessages, SizeMessages) BY <2>5, <3>2 DEF FinalSize
    <3>4. CASE EndsIn(Tail(out.queue), NowMessages, SizeMessages)
      BY <2>1, <2>2, <2>6, <3>4 DEF FinalSize, window
    <3>5. CASE m \in NowMessages /\ Free(Tail(out.queue), SizeMessages)
      <4>1. m.size = os BY <3>5 DEF NowMessages
      <4>2. SizeFrame(m.n, m.size) \in NowFrames /\ SizeFrame(m.n, m.size) \in Frame
        BY <3>1, <4>1, SizeFrameSize DEF SizeFrames
      <4>3. wire' = Append(wire \o g, SizeFrame(m.n, m.size))
        BY <2>4, <2>7, <2>8, <4>2, AppendIsConcat
      <4>4. EndsIn(wire', NowFrames, SizeFrames) BY <2>7, <4>2, <4>3, EndsInLast
      <4> QED BY <2>1, <2>2, <2>6, <3>5, <4>4 DEF FinalSize, window
    <3> QED BY <1>1, <2>1, <3>3, <3>4, <3>5, EndsInTail DEF m
  <2>9. CASE m.size = None
    <3>1. m \notin SizeMessages /\ m \notin NowMessages
      BY <2>9 DEF SizeMessages, NowMessages
    <3>2. /\ EndsIn(out.queue, NowMessages, SizeMessages)
               => EndsIn(out'.queue, NowMessages, SizeMessages)
          /\ Free(out.queue, SizeMessages) => Free(out'.queue, SizeMessages)
      BY <1>1, <2>1, <2>2, <3>1, EndsInTail, FreeTail DEF m
    <3>3. wire' = wire \/ wire' = wire \o g BY <2>4, <2>9
    <3> QED BY <2>1, <2>5, <2>6, <2>7, <3>2, <3>3 DEF FinalSize, window
  <2> QED BY <2>8, <2>9
<1>8. CASE EndOfFlush
  <2> DEFINE g == send_tty_output(pending)
  <2>1. g \in Seq(Frame) /\ Free(g, SizeFrames) BY <1>1, BatchHasNoSize
  <2>2. answers \in Seq(Frame) /\ Free(answers, SizeFrames) BY <1>1, AnswersHaveNoSize
  <2>3. wire' = wire \o g \o answers BY <1>8 DEF EndOfFlush
  <2>4. /\ out' = out /\ UNCHANGED window /\ known' = known /\ pc = "drain"
    BY <1>8 DEF EndOfFlush, EndOfDrain, server
  <2> HIDE DEF g
  <2>5. /\ g \o answers \in Seq(Frame) /\ Free(g \o answers, SizeFrames)
        /\ wire' = wire \o (g \o answers)
    <3>1. g \o answers \in Seq(Frame) BY <2>1, <2>2, ConcatProperties
    <3>2. /\ EndsIn(g, NowFrames, SizeFrames) => EndsIn(g \o answers, NowFrames, SizeFrames)
          /\ Free(g, SizeFrames) => Free(g \o answers, SizeFrames)
      BY ONLY <2>1, <2>2, EndsInConcat
    <3>3. (wire \o g) \o answers = wire \o (g \o answers)
      <4>1. \A a, b, c \in Seq(Frame) : (a \o b) \o c = a \o (b \o c) BY ConcatAssociative
      <4> QED BY <1>1, <2>1, <2>2, <4>1
    <3> QED BY <2>1, <2>3, <3>1, <3>2, <3>3
  <2> QED BY <2>4, <2>5, SizesKept
<1>9. CASE EndOfLastFlush
  <2>1. /\ out' = out /\ UNCHANGED window /\ known' = known /\ pc = "drain"
        /\ wire' = wire \o send_tty_output(pending)
    BY <1>9 DEF EndOfLastFlush, EndOfDrain, server
  <2> QED BY <1>1, <2>1, BatchHasNoSize, SizesKept
<1>10. CASE ReadSizeRequest
  <2>1. /\ wire' = Append(wire, SizeFrame(0, os)) /\ out' = out /\ UNCHANGED window
        /\ pc = "read" /\ known' = known
    BY <1>10 DEF ReadSizeRequest, server
  <2>2. SizeFrame(0, os) \in NowFrames /\ SizeFrame(0, os) \in Frame
    BY <1>1, SizeFrameSize DEF SizeFrames
  <2>3. EndsIn(wire', NowFrames, SizeFrames) BY <1>1, <2>1, <2>2, EndsInLast
  <2>4. NowFrames' = NowFrames /\ NowMessages' = NowMessages
    BY <2>1 DEF window, NowFrames, NowMessages
  <2>5. FinalSize => FinalSize' BY <2>1, <2>3, <2>4 DEF FinalSize
  <2> QED BY <2>1, <2>5 DEF SizesFollow, window
<1>11. CASE Relay
  <2>1. /\ wire # <<>> /\ wire' = Tail(wire) /\ UNCHANGED <<window, out, pc>>
        /\ \/ Head(wire).kind # "size" /\ known' = known
           \/ Head(wire).kind = "size" /\ known' = Head(wire).size
    BY <1>11
    DEF Relay, DeliverOutput, DeliverScreen, DeliverSize, DeliverSnapshot, DeliverEnd,
        Deliver, transport
  <2>2. Head(wire) \in Frame BY <1>1, <2>1
  <2>3. NowFrames' = NowFrames /\ NowMessages' = NowMessages
    BY <2>1 DEF window, NowFrames, NowMessages
  <2>4. \/ EndsIn(wire, NowFrames, SizeFrames)
        \/ Free(wire, SizeFrames) /\ known \in {os, None}
        => \/ EndsIn(wire', NowFrames, SizeFrames)
           \/ Free(wire', SizeFrames) /\ known' \in {os, None}
    <3>1. CASE EndsIn(wire, NowFrames, SizeFrames)
      <4>1. Head(wire) \in NowFrames => Head(wire).kind = "size" /\ Head(wire).size = os
        BY DEF NowFrames, SizeFrames
      <4> QED BY <1>1, <2>1, <3>1, <4>1, EndsInTail
    <3>2. CASE Free(wire, SizeFrames) /\ known \in {os, None}
      <4>1. Free(Tail(wire), SizeFrames) /\ Head(wire) \notin SizeFrames
        BY <1>1, <2>1, <3>2, FreeTail
      <4>2. Head(wire).kind # "size" BY <2>2, <4>1 DEF SizeFrames
      <4> QED BY <2>1, <3>2, <4>1, <4>2
    <3> QED BY <3>1, <3>2
  <2>5. FinalSize => FinalSize' BY <2>1, <2>3, <2>4 DEF FinalSize, window
  <2> QED BY <2>1, <2>5 DEF SizesFollow, window
<1>12. CASE Connect \/ CannotStart \/ EndSession \/ Finish \/ Fail \/ Over \/ GiveUp \/ Overflow
  <2>1. out' = out /\ last' = last /\ pc' \notin {"flush", "drain", "read"}
    BY <1>12
    DEF Connect, CannotStart, EndSession, Finish, Fail, Over, GiveUp, Overflow, window
  <2> QED BY <2>1, SizesIdle
<1>13. CASE Exit \/ Flush \/ ReadNothing \/ ReadSnapshotRequest \/ Viewers \/ Evict \/ UNCHANGED vars
  <2>1. /\ out' = out /\ UNCHANGED window /\ wire' = wire /\ known' \in {known, None}
        /\ pc' \in {"flush", "drain", "read"} => pc \in {"flush", "drain", "read"}
    BY <1>13
    DEF Exit, Flush, ReadNothing, ReadSnapshotRequest, Viewers, Join, Leave, Evict, vars,
        transport, server
  <2> QED BY <1>2, <2>1, FreeEmpty, SizesKept
<1> QED BY <1>3, <1>4, <1>5, <1>6, <1>7, <1>8, <1>9, <1>10, <1>11, <1>12, <1>13
        DEF Next, Host, Turns, Reads

----------------------------------------------------------------------------
(* The size the server has not got is on its way.                          *)

\* No frame without a size is under way; and as long as the server of a connection in
\* use keeps no size, it has asked for one or a size is under way.
NoSizeFrames == {f \in SizeFrames : f.size = None}

SizeAsked ==
  /\ Free(wire, NoSizeFrames)
  /\ Live /\ known = None => ~(Free(down, {SizeRequest}) /\ Free(wire, SizeFrames))

\* Of a longer sequence every part is free.
LEMMA FreeOfParts ==
  ASSUME NEW S, NEW q \in Seq(S), NEW r \in Seq(S), NEW B, Free(q \o r, B)
  PROVE  Free(q, B) /\ Free(r, B)
<1>1. /\ Len(q) \in Nat /\ Len(r) \in Nat /\ Len(q \o r) = Len(q) + Len(r)
      /\ \A i \in 1 .. Len(q) + Len(r) :
           (q \o r)[i] = IF i <= Len(q) THEN q[i] ELSE r[i - Len(q)]
  BY ConcatProperties
<1>2. ASSUME NEW i \in 1 .. Len(q) PROVE q[i] \notin B
  <2>1. i \in 1 .. Len(q) + Len(r) /\ i <= Len(q) BY <1>1
  <2>2. (q \o r)[i] = q[i] BY <1>1, <2>1
  <2> QED BY <1>1, <2>1, <2>2 DEF Free
<1>3. ASSUME NEW i \in 1 .. Len(r) PROVE r[i] \notin B
  <2>1. /\ i + Len(q) \in 1 .. Len(q) + Len(r) /\ ~(i + Len(q) <= Len(q))
        /\ (i + Len(q)) - Len(q) = i
    BY <1>1
  <2>2. (q \o r)[i + Len(q)] = r[i] BY <1>1, <2>1
  <2> QED BY <1>1, <2>1, <2>2 DEF Free
<1> QED BY <1>2, <1>3 DEF Free

LEMMA FreeWithHead ==
  ASSUME NEW S, NEW q \in Seq(S), q # <<>>, NEW B, Free(Tail(q), B), Head(q) \notin B
  PROVE  Free(q, B)
<1>1. /\ Len(q) \in Nat /\ Len(q) >= 1 /\ Len(Tail(q)) = Len(q) - 1 /\ Head(q) = q[1]
      /\ \A i \in 1 .. Len(q) - 1 : Tail(q)[i] = q[i + 1]
  BY HeadTailProperties
<1>2. ASSUME NEW i \in 1 .. Len(q) PROVE q[i] \notin B
  <2>1. CASE i = 1 BY <1>1, <2>1
  <2>2. CASE i # 1
    <3>1. i - 1 \in 1 .. Len(q) - 1 /\ (i - 1) + 1 = i BY <1>1, <2>2
    <3>2. Tail(q)[i - 1] = q[i] BY <1>1, <3>1
    <3> QED BY <1>1, <3>1, <3>2 DEF Free
  <2> QED BY <2>1, <2>2
<1> QED BY <1>2 DEF Free

LEMMA NotFreeAppend ==
  ASSUME NEW S, NEW q \in Seq(S), NEW e \in S, NEW B, e \in B
  PROVE  ~Free(Append(q, e), B)
<1>1. /\ Len(q) \in Nat /\ Len(Append(q, e)) = Len(q) + 1 /\ Append(q, e)[Len(q) + 1] = e
  BY AppendProperties
<1>2. Len(q) + 1 \in 1 .. Len(q) + 1 BY <1>1
<1> QED BY <1>1, <1>2 DEF Free

\* Of a sequence of one element.
LEMMA FreeSingle ==
  ASSUME NEW e, NEW B
  PROVE  Free(<<e>>, B) <=> e \notin B
<1>1. Len(<<e>>) = 1 /\ <<e>>[1] = e /\ 1 .. 1 = {1} OBVIOUS
<1> QED BY <1>1 DEF Free

\* A step that sends frames, none of which lacks its size.
LEMMA AskedKept ==
  ASSUME SizeAsked, TypeOK, Live' => Live, UNCHANGED <<down, known>>,
         NEW g \in Seq(Frame), Free(g, NoSizeFrames), wire' = wire \o g
  PROVE  SizeAsked'
<1>1. wire \in Seq(Frame) BY DEF TypeOK
<1>2. Free(wire \o g, NoSizeFrames) BY <1>1, EndsInConcat DEF SizeAsked
<1>3. Free(wire \o g, SizeFrames) => Free(wire, SizeFrames) BY <1>1, FreeOfParts
<1> QED BY <1>2, <1>3 DEF SizeAsked

LEMMA AskedSteps ==
  ASSUME Inv, SizesFollow, SizeAsked, [Next]_vars
  PROVE  SizeAsked'
<1> USE DEF Inv, StreamOK
<1>1. /\ out \in State /\ QueueOK(out) /\ out.queue \in Seq(Message) /\ wire \in Seq(Frame)
      /\ os \in Size /\ last \in Size /\ pending \in Seq(Nat \ {0}) /\ asks \in Seq(Nat \ {0})
      /\ screen \in Screen /\ screen.at \in Nat /\ down \in Seq(Nat)
      /\ TypeOK /\ None \notin Size
  BY SizesAssumption DEF TypeOK, State, SenderOK
<1>2. <<>> \in Seq(Frame) /\ wire = wire \o <<>> BY <1>1, ConcatEmptySeq
<1>3. \A g : Free(g, SizeFrames) => Free(g, NoSizeFrames) BY DEF Free, NoSizeFrames
<1>4. ASSUME NEW n \in Nat, NEW s \in Size
      PROVE  /\ SizeFrame(n, s) \in Frame /\ SizeFrame(n, s) \in SizeFrames
             /\ SizeFrame(n, s) \notin NoSizeFrames
  BY <1>1 DEF SizeFrame, SizeFrames, NoSizeFrames, Frame
<1>5. CASE Host \/ CannotStart \/ Flush \/ Overflow \/ ReadNothing \/ Finish \/ Fail \/ GiveUp
             \/ Over \/ UNCHANGED vars
  <2>1. wire' = wire /\ UNCHANGED <<down, known>> /\ (Live' => Live)
    BY <1>5
    DEF Host, Produce, Resize, Poll, Exit, CannotStart, Flush, Overflow, EndOfDrain,
        ReadNothing, Finish, Fail, GiveUp, Over, vars, transport, server, Live
  <2>2. Free(<<>>, NoSizeFrames) BY FreeEmpty
  <2> QED BY <1>1, <1>2, <2>1, <2>2, AskedKept
<1>6. CASE Connect
  <2>1. wire' = <<SizeFrame(0, os)>> BY <1>6 DEF Connect
  <2>2. Free(wire', NoSizeFrames) /\ ~Free(wire', SizeFrames) BY <1>1, <1>4, <2>1, FreeSingle
  <2> QED BY <2>2 DEF SizeAsked
<1>7. CASE StartOutput
  <2> DEFINE s == SizeFrame(0, out.screen.size)
             f == [kind |-> "screen", at |-> out.screen.at]
  <2>1. s \in Frame /\ s \notin NoSizeFrames BY <1>1, <1>4 DEF SizesFollow
  <2>2. f \in Frame /\ f \notin NoSizeFrames
    BY <1>1 DEF Frame, QueueOK, NoSizeFrames, SizeFrames
  <2>3. wire' = wire \o <<s, f>> /\ UNCHANGED <<down, known>> /\ pc = "start"
    BY <1>7 DEF StartOutput, server
  <2> HIDE DEF s, f
  <2>4. <<s, f>> \in Seq(Frame) /\ Len(<<s, f>>) = 2 /\ <<s, f>>[1] = s /\ <<s, f>>[2] = f
    BY <2>1, <2>2
  <2>5. Free(<<s, f>>, NoSizeFrames)
    <3>1. \A i \in 1 .. 2 : i = 1 \/ i = 2 OBVIOUS
    <3> QED BY <2>1, <2>2, <2>4, <3>1 DEF Free
  <2>6. Live' => Live BY <2>3 DEF Live
  <2> QED BY <1>1, <2>3, <2>4, <2>5, <2>6, AskedKept
<1>8. CASE Drain
  <2> DEFINE m == Head(out.queue)
             g == send_tty_output(pending)
  <2>1. m \in Message BY <1>1, <1>8, TakeKeeps DEF Drain
  <2>2. g \in Seq(Frame) /\ Free(g, NoSizeFrames) BY <1>1, <1>3, BatchHasNoSize
  <2>3. /\ \/ m.size # None /\ wire' = wire \o g \o <<SizeFrame(m.n, m.size)>>
           \/ wire' = wire \o <<>> \/ wire' = wire \o g
        /\ UNCHANGED <<down, known, pc>>
    BY <1>2, <1>8 DEF Drain, server
  <2> HIDE DEF m, g
  <2>4. Live' => Live BY <2>3 DEF Live
  <2>5. CASE m.size # None /\ wire' = wire \o g \o <<SizeFrame(m.n, m.size)>>
    <3> DEFINE z == <<SizeFrame(m.n, m.size)>>
    <3>1. SizeFrame(m.n, m.size) \in Frame /\ SizeFrame(m.n, m.size) \notin NoSizeFrames
      BY <1>4, <2>1, <2>5 DEF Message
    <3>2. z \in Seq(Frame) /\ Free(z, NoSizeFrames) BY <3>1, FreeSingle
    <3>3. wire' = (wire \o g) \o z BY <2>5
    <3> HIDE DEF z
    <3>4. g \o z \in Seq(Frame) /\ Free(g \o z, NoSizeFrames)
      BY <2>2, <3>2, EndsInConcat, ConcatProperties
    <3>5. wire' = wire \o (g \o z)
      <4>1. \A a, b, c \in Seq(Frame) : (a \o b) \o c = a \o (b \o c) BY ConcatAssociative
      <4> QED BY <1>1, <2>2, <3>2, <3>3, <4>1
    <3> QED BY <1>1, <2>3, <2>4, <3>4, <3>5, AskedKept
  <2>6. CASE wire' = wire \o <<>> \/ wire' = wire \o g
    <3>1. Free(<<>>, NoSizeFrames) BY FreeEmpty
    <3> QED BY <1>1, <1>2, <2>2, <2>3, <2>4, <2>6, <3>1, AskedKept
  <2> QED BY <2>3, <2>5, <2>6
<1>9. CASE EndOfFlush
  <2> DEFINE g == send_tty_output(pending)
  <2>1. g \in Seq(Frame) /\ Free(g, NoSizeFrames) BY <1>1, <1>3, BatchHasNoSize
  <2>2. answers \in Seq(Frame) /\ Free(answers, NoSizeFrames) BY <1>1, <1>3, AnswersHaveNoSize
  <2>3. wire' = (wire \o g) \o answers /\ UNCHANGED <<down, known>> /\ pc = "drain"
    BY <1>9 DEF EndOfFlush, EndOfDrain, server
  <2> HIDE DEF g
  <2>4. g \o answers \in Seq(Frame) /\ Free(g \o answers, NoSizeFrames)
    BY <2>1, <2>2, EndsInConcat, ConcatProperties
  <2>5. wire' = wire \o (g \o answers)
    <3>1. \A a, b, c \in Seq(Frame) : (a \o b) \o c = a \o (b \o c) BY ConcatAssociative
    <3> QED BY <1>1, <2>1, <2>2, <2>3, <3>1
  <2>6. Live' => Live BY <2>3 DEF Live
  <2> QED BY <1>1, <2>3, <2>4, <2>5, <2>6, AskedKept
<1>10. CASE EndOfLastFlush
  <2>1. wire' = wire \o send_tty_output(pending) /\ UNCHANGED <<down, known>> /\ pc = "drain"
    BY <1>10 DEF EndOfLastFlush, EndOfDrain, server
  <2>2. Live' => Live BY <2>1 DEF Live
  <2> QED BY <1>1, <1>3, <2>1, <2>2, BatchHasNoSize, AskedKept
<1>11. CASE EndSession
  <2>1. wire' = Append(wire, EndMarker) /\ ~Live'
    BY <1>11 DEF EndSession, EndMarker, Live
  <2>2. EndMarker \in Frame /\ EndMarker \notin NoSizeFrames
    BY DEF EndMarker, Frame, NoSizeFrames, SizeFrames
  <2>3. Free(Append(wire, EndMarker), NoSizeFrames) BY <1>1, <2>2, FreeAppend DEF SizeAsked
  <2> QED BY <2>1, <2>3 DEF SizeAsked
<1>12. CASE ReadSizeRequest
  <2> DEFINE s == SizeFrame(0, os)
  <2>1. s \in Frame /\ s \in SizeFrames /\ s \notin NoSizeFrames BY <1>1, <1>4
  <2>2. wire' = Append(wire, s) BY <1>12 DEF ReadSizeRequest
  <2> HIDE DEF s
  <2>3. Free(wire', NoSizeFrames) BY <1>1, <2>1, <2>2, FreeAppend DEF SizeAsked
  <2>4. ~Free(wire', SizeFrames) BY <1>1, <2>1, <2>2, NotFreeAppend
  <2> QED BY <2>3, <2>4 DEF SizeAsked
<1>13. CASE ReadSnapshotRequest
  <2>1. /\ down # <<>> /\ Head(down) # SizeRequest /\ down' = Tail(down) /\ pc = "read"
        /\ UNCHANGED <<wire, known>>
    BY <1>13 DEF ReadSnapshotRequest, server
  <2>2. Free(Tail(down), {SizeRequest}) => Free(down, {SizeRequest})
    BY <1>1, <2>1, FreeWithHead
  <2>3. SizeFrames' = SizeFrames /\ NoSizeFrames' = NoSizeFrames BY DEF SizeFrames, NoSizeFrames
  <2> QED BY <2>1, <2>2, <2>3 DEF SizeAsked, Live
<1>14. CASE Relay
  <2>1. /\ wire # <<>> /\ wire' = Tail(wire) /\ UNCHANGED <<down, pc>>
        /\ \/ Head(wire).kind # "size" /\ known' = known
           \/ Head(wire).kind = "size" /\ known' = Head(wire).size
    BY <1>14
    DEF Relay, DeliverOutput, DeliverScreen, DeliverSize, DeliverSnapshot, DeliverEnd,
        Deliver, transport
  <2>2. Head(wire) \in Frame BY <1>1, <2>1
  <2>3. Free(Tail(wire), NoSizeFrames) /\ Head(wire) \notin NoSizeFrames
    BY <1>1, <2>1, FreeTail DEF SizeAsked
  <2>4. CASE Head(wire).kind # "size" /\ known' = known
    <3>1. Head(wire) \notin SizeFrames BY <2>4 DEF SizeFrames
    <3>2. Free(Tail(wire), SizeFrames) => Free(wire, SizeFrames)
      BY <1>1, <2>1, <3>1, FreeWithHead
    <3> QED BY <2>1, <2>3, <2>4, <3>2 DEF SizeAsked, Live
  <2>5. CASE Head(wire).kind = "size" /\ known' = Head(wire).size
    <3>1. known' # None BY <2>2, <2>3, <2>5 DEF NoSizeFrames, SizeFrames
    <3> QED BY <2>1, <2>3, <3>1 DEF SizeAsked
  <2> QED BY <2>1, <2>4, <2>5
<1>15. ASSUME NEW v \in Viewer, Join(v) PROVE SizeAsked'
  <2> DEFINE size == IF known = None THEN <<SizeRequest>> ELSE <<>>
             g == size \o <<joins + 1>>
  <2>1. size \in Seq(Nat) /\ <<joins + 1>> \in Seq(Nat) BY <1>1 DEF SizeRequest, TypeOK
  <2>2. /\ down' = down \/ down' = (down \o size) \o <<joins + 1>>
        /\ UNCHANGED <<wire, known, pc>>
    BY <1>15 DEF Join, transport
  <2> HIDE DEF size
  <2>3. (down \o size) \o <<joins + 1>> = down \o g
    <3>1. \A a, b, c \in Seq(Nat) : (a \o b) \o c = a \o (b \o c) BY ConcatAssociative
    <3> QED BY <1>1, <2>1, <3>1
  <2>4. g \in Seq(Nat) BY <2>1, ConcatProperties
  <2> HIDE DEF g
  <2>5. Free(down', {SizeRequest}) => Free(down, {SizeRequest})
    BY <1>1, <2>2, <2>3, <2>4, FreeOfParts
  <2> QED BY <2>2, <2>5 DEF SizeAsked, Live
<1>16. ASSUME NEW v \in Viewer, Leave(v) PROVE SizeAsked'
  <2>1. UNCHANGED <<wire, down, known, pc>> BY <1>16 DEF Leave, transport
  <2> QED BY <2>1 DEF SizeAsked, Live
<1>17. CASE Evict
  <2>1. /\ UNCHANGED <<wire, pc>>
        /\ down' = IF pc \in {"down", "done"} \/ ended THEN down ELSE Append(down, SizeRequest)
    BY <1>17 DEF Evict, transport
  <2>2. Live => ~ended /\ pc \notin {"down", "done"}
    <3>1. PICK p \in Position, q \in Position, w \in Seq(Frame) : PathOK(w, p, q) BY DEF WireOK
    <3> QED BY <3>1, LivePath DEF Live
  <2>3. ~Free(Append(down, SizeRequest), {SizeRequest})
    <3>1. SizeRequest \in Nat BY DEF SizeRequest
    <3> QED BY <1>1, <3>1, NotFreeAppend
  <2> QED BY <2>1, <2>2, <2>3 DEF SizeAsked, Live
<1> QED BY <1>5, <1>6, <1>7, <1>8, <1>9, <1>10, <1>11, <1>12, <1>13, <1>14, <1>15, <1>16, <1>17
        DEF Next, Turns, Reads, Viewers

(* When everything has been delivered, the size the server keeps for the    *)
(* viewers to come is the window's, if the window keeps each size until     *)
(* resize_loop (terminal.rs) has seen it: the sizes of start_output, of the *)
(* replies and of the queue may overtake each other, but the last one under *)
(* way is always the present one, and a server that keeps none has asked.   *)
THEOREM KeptSizeIsHosts == ASSUME SlowResizes PROVE Spec => []CachedSizeIsHosts
<1>1. Inv /\ SizesFollow /\ [Next]_vars => SizesFollow' BY SizesSteps
<1>2. Inv /\ SizesFollow /\ SizeAsked /\ [Next]_vars => SizeAsked' BY AskedSteps
<1>3. Init => SizeAsked
  <2> SUFFICES ASSUME Init PROVE SizeAsked OBVIOUS
  <2>1. wire = <<>> /\ ~Live BY DEF Init, Live
  <2> QED BY <2>1, FreeEmpty DEF SizeAsked
<1>4. SizesFollow /\ SizeAsked => CachedSizeIsHosts
  <2> SUFFICES ASSUME SizesFollow, SizeAsked, Delivered PROVE known = os
    BY DEF CachedSizeIsHosts
  <2>1. out.queue = <<>> /\ wire = <<>> /\ down = <<>> /\ Live BY DEF Delivered, Live
  <2>2. FinalSize BY DEF SizesFollow, Delivered
  <2>3. Len(<<>>) = 0 /\ 1 .. 0 = {} OBVIOUS
  <2>4. known \in {os, None} BY <2>1, <2>2, <2>3 DEF FinalSize, EndsIn
  <2>5. known # None BY <2>1, FreeEmpty DEF SizeAsked
  <2> QED BY <2>4, <2>5
<1> QED BY <1>1, <1>2, <1>3, <1>4, SizesInitially, StreamConsistent, PTL DEF Spec
=============================================================================
