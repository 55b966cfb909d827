------------------------- MODULE AgentProcessProofs -------------------------
(***************************************************************************)
(* Proofs about AgentProcess, for all instances: any terminals, consoles,  *)
(* programs and calls that fail.  What the agent must give back on a       *)
(* terminal is at every moment either still there or saved, but for what a *)
(* failed write has spoilt.                                                *)
(***************************************************************************)
EXTENDS AgentProcess, Paths, TLAPS

----------------------------------------------------------------------------
(* Drawing and its end (HostTerminal::render and stop).                    *)

\* Mode m of terminal t, which was as in b at first, can be brought back by stop: it is
\* untouched, or saved, or known to be what the last frame has set.
Restorable(c, t, b, m) ==
  IF m \in c.changed
  THEN IF t.saves THEN t.saved[m] = b.modes[m]
       ELSE m = "wrap" \/ t.modes[m] = c.previous[m]
  ELSE t.modes[m] = b.modes[m] /\ (m # "wrap" => c.previous[m] = Default[m])

\* What stop makes of it.
Kept(c, t, b, m) ==
  IF m \in c.changed /\ ~t.saves THEN Default[m] ELSE b.modes[m]

LEMMA WantedType ==
  ASSUME NEW p \in Program, NEW v \in View
  PROVE  wanted(p, v) \in [Drawn -> BOOLEAN]
<1>1. /\ \A m \in Drawn : p[m] \in BOOLEAN
      /\ captures(p, v) \in BOOLEAN
      /\ v.scrolled \in BOOLEAN
  BY DEF Program, View, Drawn, Mode, captures, owns_scroll
<1> QED BY <1>1 DEF wanted

LEMMA RenderType ==
  ASSUME NEW c \in Compositor, NEW t \in Terminal, NEW p \in Program, NEW v \in View
  PROVE  /\ render(c, t, p, v).compositor \in Compositor
         /\ render(c, t, p, v).tty \in Terminal
         /\ render(c, t, p, v).tty.saves = t.saves
         /\ render(c, t, p, v).compositor.started = c.started
         /\ render(c, t, p, v).compositor.finished = c.finished
<1> DEFINE want == wanted(p, v)
           modes == changes(c, want)
           saved == remember(t, c.changed, modes)
<1>1. want \in [Drawn -> BOOLEAN] BY WantedType
<1>2. modes \in SUBSET Mode BY DEF changes, InputMode, Mode
<1>3. saved \in Terminal /\ saved.saves = t.saves
  BY DEF remember, Terminal
<1>4. CASE c.finished BY <1>4 DEF render
<1>5. CASE ~c.finished
  <2> DEFINE drawn == [m \in Mode |-> IF m = "wrap" THEN FALSE
                                      ELSE IF m \in modes THEN want[m] ELSE saved.modes[m]]
  <2>1. drawn \in [Mode -> BOOLEAN] BY <1>1, <1>3 DEF Drawn, Terminal
  <2> DEFINE d == [c EXCEPT !.changed = @ \cup modes, !.previous = want]
             u == [saved EXCEPT !.modes = drawn]
  <2>2. render(c, t, p, v) = [compositor |-> d, tty |-> u] BY <1>5 DEF render
  <2> HIDE DEF want, modes, saved, drawn
  <2>3. u \in Terminal /\ u.saves = t.saves
    BY <1>3, <2>1 DEF Terminal
  <2>4. d \in Compositor /\ d.started = c.started /\ d.finished = c.finished
    BY <1>1, <1>2 DEF Compositor
  <2> HIDE DEF d, u
  <2> QED BY <2>2, <2>3, <2>4
<1> QED BY <1>4, <1>5

LEMMA RenderKeeps ==
  ASSUME NEW c \in Compositor, NEW t \in Terminal, NEW b \in Terminal,
         NEW p \in Program, NEW v \in View,
         NEW m \in Mode, Restorable(c, t, b, m), ~c.finished
  PROVE  Restorable(render(c, t, p, v).compositor, render(c, t, p, v).tty, b, m)
<1> DEFINE want == wanted(p, v)
           modes == changes(c, want)
           saved == remember(t, c.changed, modes)
           drawn == [k \in Mode |-> IF k = "wrap" THEN FALSE
                                    ELSE IF k \in modes THEN want[k] ELSE saved.modes[k]]
           r == render(c, t, p, v)
<1>1. want \in [Drawn -> BOOLEAN] BY WantedType
<1>2. /\ modes \in SUBSET Mode
      /\ m \notin modes => m # "wrap" /\ want[m] = c.previous[m]
      /\ "wrap" \in modes
  BY DEF changes, InputMode, Mode
<1>3. /\ saved \in Terminal /\ saved.saves = t.saves /\ saved.modes = t.modes
      /\ saved.saved[m] = IF t.saves /\ m \in modes \ c.changed
                          THEN t.modes[m] ELSE t.saved[m]
  BY DEF remember, Terminal
<1>4. r = [ compositor |-> [c EXCEPT !.changed = @ \cup modes, !.previous = want],
            tty |-> [saved EXCEPT !.modes = drawn] ]
  BY DEF render
<1>5. drawn[m] = IF m = "wrap" THEN FALSE
                 ELSE IF m \in modes THEN want[m] ELSE t.modes[m]
  BY <1>3
<1> HIDE DEF want, modes, saved, drawn, r
<1>6. /\ r.compositor.changed = c.changed \cup modes /\ r.compositor.previous = want
      /\ r.tty.saves = t.saves /\ r.tty.saved = saved.saved /\ r.tty.modes = drawn
  BY <1>3, <1>4 DEF Compositor, Terminal
<1>7. Restorable(r.compositor, r.tty, b, m)
  BY <1>2, <1>3, <1>5, <1>6 DEF Restorable
<1> QED BY <1>7 DEF r

LEMMA RenderFailsType ==
  ASSUME NEW c \in Compositor, NEW p \in Program, NEW v \in View
  PROVE  /\ render_fails(c, p, v) \in Compositor
         /\ render_fails(c, p, v).started = c.started
         /\ render_fails(c, p, v).finished = c.finished
<1>1. changes(c, wanted(p, v)) \in SUBSET Mode BY DEF changes, InputMode, Mode
<1>2. [c EXCEPT !.changed = @ \cup changes(c, wanted(p, v))] \in Compositor
  BY <1>1 DEF Compositor
<1> QED BY <1>2 DEF render_fails, Compositor

\* Of a frame whose write fails nothing or all has arrived.
LEMMA RenderFailsKeeps ==
  ASSUME NEW c \in Compositor, NEW t \in Terminal, NEW b \in Terminal,
         NEW p \in Program, NEW v \in View,
         NEW u \in {t, render(c, t, p, v).tty},
         NEW m \in Mode \ spoilt(c, t, p, v), Restorable(c, t, b, m), ~c.finished
  PROVE  Restorable(render_fails(c, p, v), u, b, m)
<1> DEFINE want == wanted(p, v)
           modes == changes(c, want)
           saved == remember(t, c.changed, modes)
           drawn == [k \in Mode |-> IF k = "wrap" THEN FALSE
                                    ELSE IF k \in modes THEN want[k] ELSE saved.modes[k]]
           d == render_fails(c, p, v)
<1>1. modes \in SUBSET Mode /\ "wrap" \in modes BY DEF changes, InputMode, Mode
<1>2. d.changed = c.changed \cup modes /\ d.previous = c.previous
  BY DEF render_fails, Compositor
<1>3. m \notin IF t.saves THEN modes \ c.changed ELSE modes \ {"wrap"}
  BY DEF spoilt
<1>4. /\ saved \in Terminal /\ saved.saves = t.saves /\ saved.modes = t.modes
      /\ saved.saved[m] = IF t.saves /\ m \in modes \ c.changed
                          THEN t.modes[m] ELSE t.saved[m]
  BY DEF remember, Terminal
<1>5. /\ m # "wrap" /\ m \notin modes => drawn[m] = t.modes[m]
      /\ drawn \in [Mode -> BOOLEAN]
  <2>1. want \in [Drawn -> BOOLEAN] BY WantedType
  <2> QED BY <1>1, <1>4, <2>1 DEF Drawn, Terminal
<1>6. render(c, t, p, v).tty = [saved EXCEPT !.modes = drawn]
  BY DEF render
<1> HIDE DEF want, modes, saved, drawn, d
<1>7. /\ u.saves = t.saves
      /\ u.saved[m] = IF u # t /\ t.saves /\ m \in modes \ c.changed
                      THEN t.modes[m] ELSE t.saved[m]
      /\ m # "wrap" /\ m \notin modes => u.modes[m] = t.modes[m]
  BY <1>4, <1>5, <1>6 DEF Terminal
<1>8. Restorable(d, u, b, m)
  BY <1>1, <1>2, <1>3, <1>7 DEF Restorable
<1> QED BY <1>8 DEF d

LEMMA StopType ==
  ASSUME NEW c \in Compositor, NEW t \in Terminal
  PROVE  /\ stop(c, t).compositor \in Compositor
         /\ stop(c, t).tty \in Terminal
<1> DEFINE released ==
             [m \in Mode |->
                CASE m = "cursor" -> t.modes[m] \/ ~c.previous[m]
                  [] m = "wrap"   -> t.modes[m] \/ m \in c.changed
                  [] OTHER        -> t.modes[m] /\ ~c.previous[m]]
           left == [t EXCEPT !.modes = released, !.alternate = FALSE]
<1>1. released \in [Mode -> BOOLEAN] BY Zenon DEF Terminal
<1>2. left \in Terminal BY <1>1 DEF Terminal
<1>3. restore(left, c.changed) \in Terminal BY <1>2 DEF restore, Terminal
<1>4. [c EXCEPT !.finished = TRUE] \in Compositor BY DEF Compositor
<1> QED BY <1>3, <1>4 DEF stop

LEMMA StopKeeps ==
  ASSUME NEW c \in Compositor, NEW t \in Terminal, NEW b \in Terminal,
         c.started, ~c.finished
  PROVE  LET s == stop(c, t)
         IN  /\ s.compositor.started /\ s.compositor.finished
             /\ s.compositor.changed = c.changed
             /\ s.tty.saves = t.saves /\ ~s.tty.alternate
             /\ \A m \in Mode : Restorable(c, t, b, m) => s.tty.modes[m] = Kept(c, t, b, m)
<1> DEFINE released ==
             [m \in Mode |->
                CASE m = "cursor" -> t.modes[m] \/ ~c.previous[m]
                  [] m = "wrap"   -> t.modes[m] \/ m \in c.changed
                  [] OTHER        -> t.modes[m] /\ ~c.previous[m]]
           left == [t EXCEPT !.modes = released, !.alternate = FALSE]
           back == restore(left, c.changed)
           d == [c EXCEPT !.finished = TRUE]
<1>1. released \in [Mode -> BOOLEAN] BY Zenon DEF Terminal
<1>2. /\ left.saves = t.saves /\ ~left.alternate /\ left.modes = released
      /\ left.saved = t.saved
  BY <1>1 DEF Terminal
<1>3. /\ back.saves = t.saves /\ ~back.alternate
      /\ \A m \in Mode : back.modes[m] = IF t.saves /\ m \in c.changed
                                         THEN t.saved[m] ELSE released[m]
  BY <1>1, <1>2 DEF restore, Terminal
<1>4. stop(c, t) = [compositor |-> d, tty |-> back]
  BY DEF stop
<1>5. ASSUME NEW m \in Mode, Restorable(c, t, b, m)
      PROVE  back.modes[m] = Kept(c, t, b, m)
  <2>1. CASE t.saves /\ m \in c.changed
    BY <1>3, <1>5, <2>1 DEF Restorable, Kept
  <2>2. CASE ~t.saves /\ m \in c.changed
    <3>1. m = "wrap" \/ t.modes[m] = c.previous[m] BY <1>5, <2>2 DEF Restorable
    <3>2. m # "wrap" => c.previous[m] \in BOOLEAN BY DEF Compositor, Drawn
    <3>3. released[m] = Default[m] BY <2>2, <3>1, <3>2 DEF Default, Terminal
    <3> QED BY <1>3, <2>2, <3>3 DEF Kept
  <2>3. CASE m \notin c.changed
    <3>1. t.modes[m] = b.modes[m] /\ (m # "wrap" => c.previous[m] = Default[m])
      BY <1>5, <2>3 DEF Restorable
    <3>2. released[m] = t.modes[m] BY <2>3, <3>1 DEF Default, Terminal
    <3> QED BY <1>3, <2>3, <3>1, <3>2 DEF Kept
  <2> QED BY <2>1, <2>2, <2>3
<1>6. d.started = c.started /\ d.finished /\ d.changed = c.changed
  BY DEF Compositor
<1> HIDE DEF back, d
<1>7. stop(c, t).compositor = d /\ stop(c, t).tty = back BY <1>4
<1>8. \A m \in Mode : Restorable(c, t, b, m) => back.modes[m] = Kept(c, t, b, m)
  BY <1>5
<1>9. d.started BY <1>6
<1> QED BY <1>3, <1>6, <1>7, <1>8, <1>9

----------------------------------------------------------------------------
(* The invariant.                                                          *)

Early == {"args", "nested", "resolve", "spawn", "raw", "start"}
Inside == {"clone", "writer", "recv", "stop", "unwind"}
Leaves == {"leave", "leave_failed"}
Left == {"wait", "join"}
Over == {"exited", "failed"}

\* Where a thread can be.
Place ==
  Early \cup Inside \cup Leaves \cup Left \cup Over
    \cup {"none", "read", "draw", "done", "reply", "recv", "sleep", "gone", "send", "write",
          "connect", "run", "lost", "over", "tell"}

\* TypeOK without the URL of the host's connection.
Typed ==
  /\ bound \in DOMAIN Bounds
  /\ pc \in [Threads -> Place]
  /\ before \in [tty : Terminal, console : Console] /\ ~before.tty.alternate
  /\ console \in Console /\ (undo = None \/ undo \in Undo)
  /\ tty \in Terminal /\ comp \in Compositor /\ torn \in SUBSET Mode
  /\ program \in Program /\ view \in View /\ holds \in BOOLEAN
  /\ shell \in Shell
  /\ input \in Seq(PtyInput) /\ Len(input) <= InputCapacity
  /\ statuses \in Seq(BOOLEAN) /\ Len(statuses) <= StatusCapacity
  /\ resizes \in 0 .. may.resizes /\ told \in 0 .. may.statuses

\* The threads that draw run only while the screen is the agent's, or after.
Drawing == {"output", "stdin", "status", "resize"}

ThreadsOK ==
  /\ pc.main \in Early \cup Inside \cup Leaves \cup Left \cup Over
  /\ ~comp.started => \A t \in Drawing : pc[t] = "none"
  /\ pc.main \in Early => ~comp.started
  /\ pc.main \in Inside => comp.started /\ ~comp.finished
  /\ pc.main \in Leaves \cup Left => comp.finished
  /\ pc.main \in Over => comp.finished \/ ~comp.started
  /\ comp.finished => comp.started

\* While the screen is the agent's, stop can bring every mode back that no failed write
\* has spoilt; before and after, the screen is the host's.
ScreenOK ==
  /\ tty.saves = before.tty.saves
  /\ ~comp.started => comp = new /\ tty = before.tty
  /\ comp.started /\ ~comp.finished =>
       \A m \in Mode \ torn : Restorable(comp, tty, before.tty, m)
  /\ comp.finished =>
       /\ ~tty.alternate
       /\ \A m \in Mode \ torn : tty.modes[m] = Kept(comp, tty, before.tty, m)

\* What has been done to the console is what RawTerminal remembers to undo.
ConsoleOK ==
  /\ pc.main \in Early \ {"start"} => undo = None /\ console = before.console
  /\ pc.main \in {"start"} \cup Inside \cup Leaves =>
       /\ undo \in Undo /\ undo.console = before.console
       /\ undo.active \/ console.plain = before.console.plain
       /\ undo.pages \/ console.oldPages = before.console.oldPages
  /\ pc.main \in Left \cup Over => console = before.console

IInv == Typed /\ ThreadsOK /\ ScreenOK /\ ConsoleOK

----------------------------------------------------------------------------

LEMMA Capacities ==
  /\ InputCapacity \in Nat \ {0} /\ StatusCapacity \in Nat \ {0} /\ PtyCapacity \in Nat \ {0}
BY ProcessAssumption

LEMMA InstanceTypes ==
  ASSUME Typed
  PROVE  /\ may.ttys \subseteq Terminal /\ may.consoles \subseteq Console
         /\ may.programs \subseteq Program
         /\ may.systems \subseteq [windows : BOOLEAN, pages : BOOLEAN, active : BOOLEAN]
         /\ may.resizes \in Nat /\ may.statuses \in Nat
BY BoundsAssumption DEF may, Typed

LEMMA DrawsType ==
  ASSUME NEW c \in Compositor, NEW t \in Terminal, NEW p \in Program, NEW v \in View,
         torn \in SUBSET Mode, Draws(c, t, p, v) \/ DrawFails(c, t, p, v)
  PROVE  /\ comp' \in Compositor /\ tty' \in Terminal /\ torn' \in SUBSET Mode
         /\ comp'.started = c.started /\ comp'.finished = c.finished
         /\ tty'.saves = t.saves
<1>1. spoilt(c, t, p, v) \in SUBSET Mode
  BY DEF spoilt, changes, Mode, InputMode
<1>2. CASE Draws(c, t, p, v) BY <1>2, RenderType DEF Draws
<1>3. CASE DrawFails(c, t, p, v)
  <2>1. /\ comp' = render_fails(c, p, v)
        /\ tty' \in {t, render(c, t, p, v).tty}
        /\ torn' = torn \cup spoilt(c, t, p, v)
    BY <1>3 DEF DrawFails
  <2> QED BY <1>1, <2>1, RenderType, RenderFailsType
<1> QED BY <1>2, <1>3

\* A frame, drawn or not, keeps what is known of the screen.
LEMMA DrawsKeep ==
  ASSUME Typed,
         NEW c \in Compositor, NEW t \in Terminal, NEW p \in Program, NEW v \in View,
         Draws(c, t, p, v) \/ DrawFails(c, t, p, v),
         ~c.finished,
         \A m \in Mode \ torn : Restorable(c, t, before.tty, m)
  PROVE  \A m \in Mode \ torn' : Restorable(comp', tty', before.tty, m)
<1>1. before.tty \in Terminal BY DEF Typed
<1>2. CASE Draws(c, t, p, v) BY <1>1, <1>2, RenderKeeps DEF Draws
<1>3. CASE DrawFails(c, t, p, v)
  <2>1. /\ comp' = render_fails(c, p, v)
        /\ tty' \in {t, render(c, t, p, v).tty}
        /\ torn' = torn \cup spoilt(c, t, p, v)
    BY <1>3 DEF DrawFails
  <2> QED BY <1>1, <2>1, RenderFailsKeeps
<1> QED BY <1>2, <1>3

\* After the end nothing is drawn.
LEMMA DrawsNothing ==
  ASSUME NEW c, NEW t, NEW p, NEW v, c.finished,
         Draws(c, t, p, v) \/ DrawFails(c, t, p, v)
  PROVE  comp' = c /\ tty' = t /\ torn' = torn
BY DEF Draws, DrawFails, render, render_fails, spoilt

----------------------------------------------------------------------------
(* Types.                                                                  *)

LEMMA EnqueueType ==
  ASSUME Typed, NEW v \in PtyInput, enqueue(v)
  PROVE  input' \in Seq(PtyInput) /\ Len(input') <= InputCapacity
<1>1. Append(input, v) \in Seq(PtyInput) /\ Len(Append(input, v)) = Len(input) + 1
  BY DEF Typed
<1>2. Len(input) \in Nat BY DEF Typed
<1> QED BY <1>1, <1>2, Capacities DEF enqueue, Typed

LEMMA TakeType ==
  ASSUME Typed, input # <<>>, input' = Tail(input)
  PROVE  input' \in Seq(PtyInput) /\ Len(input') <= InputCapacity
<1>1. Tail(input) \in Seq(PtyInput) /\ Len(Tail(input)) = Len(input) - 1 /\ Len(input) \in Nat
  BY DEF Typed
<1> QED BY <1>1, Capacities DEF Typed

LEMMA StartTypes ==
  ASSUME Typed
  PROVE  started(comp) \in Compositor /\ entered(tty) \in Terminal /\ Idle \in Program
BY DEF Typed, started, entered, Compositor, Terminal, Idle, Program, Drawn, Mode

LEMMA ConsoleTypes ==
  ASSUME Typed, NEW windows \in BOOLEAN, NEW pages \in BOOLEAN, NEW active \in BOOLEAN
  PROVE  /\ enter(console, windows, pages, active).console \in Console
         /\ enter(console, windows, pages, active).undo \in Undo
         /\ undo \in Undo => leave(console, undo) \in Console
BY DEF Typed, enter, leave, Console, Undo

LEMMA Places ==
  /\ {"args", "nested", "resolve", "spawn", "raw", "start", "clone", "writer", "recv",
      "stop", "unwind", "leave", "leave_failed", "wait", "join", "exited", "failed", "none",
      "read", "draw", "done", "reply", "recv", "sleep", "gone", "send", "write", "connect",
      "run", "lost", "over", "tell"} \subseteq Place
BY DEF Place, Early, Inside, Leaves, Left, Over

LEMMA InitTyped == Init => Typed
<1> SUFFICES ASSUME Init PROVE Typed OBVIOUS
<1>1. bound \in DOMAIN Bounds BY DEF Init
<1>2. /\ may.ttys \subseteq Terminal /\ \A t \in may.ttys : ~t.alternate
      /\ may.consoles \subseteq Console
      /\ may.kinds \subseteq {"independent", "sequential"}
      /\ may.resizes \in Nat /\ may.statuses \in Nat
  BY <1>1, BoundsAssumption DEF may
<1>3. before \in [tty : Terminal, console : Console] /\ ~before.tty.alternate
  BY <1>2 DEF Init
<1>4. new \in Compositor /\ Idle \in Program
  <2>1. Idle \in Program BY Zenon DEF Idle, Program
  <2>2. [m \in Drawn |-> Default[m]] \in [Drawn -> BOOLEAN]
    <3>1. \A m \in Mode : Default[m] \in BOOLEAN BY DEF Default
    <3>2. Drawn \subseteq Mode BY DEF Drawn
    <3> QED BY <3>1, <3>2
  <2>3. {} \in SUBSET Mode OBVIOUS
  <2> QED BY <2>1, <2>2, <2>3, Zenon DEF new, Compositor
<1>5. shell \in Shell BY <1>2, Capacities DEF Init, Shell
<1>6. pc \in [Threads -> Place] BY Places DEF Init, Threads
<1>7. <<>> \in Seq(PtyInput) /\ <<>> \in Seq(BOOLEAN) /\ Len(<<>>) = 0 OBVIOUS
<1>8. console \in Console /\ tty \in Terminal BY <1>3 DEF Init
<1>9. /\ undo = None /\ torn = {} /\ view \in View /\ holds = FALSE /\ input = <<>>
      /\ statuses = <<>> /\ resizes = 0 /\ told = 0 /\ comp = new /\ program = Idle
  BY DEF Init, View
<1>10. resizes \in 0 .. may.resizes /\ told \in 0 .. may.statuses BY <1>2, <1>9
<1>11. /\ input \in Seq(PtyInput) /\ Len(input) <= InputCapacity
       /\ statuses \in Seq(BOOLEAN) /\ Len(statuses) <= StatusCapacity
  BY <1>7, <1>9, Capacities
<1> QED BY <1>1, <1>3, <1>4, <1>5, <1>6, <1>8, <1>9, <1>10, <1>11 DEF Typed

LEMMA GoesType ==
  ASSUME Typed, NEW thread \in Threads, NEW from, NEW to \in Place, Goes(thread, from, to)
  PROVE  pc' \in [Threads -> Place]
BY DEF Typed, Goes

LEMMA BeginTyped == ASSUME Typed, Begin PROVE Typed'
<1> USE DEF fixed, start_up, counts, drawing, screen, channels, may
<1>a. Threads = {"main", "output", "stdin", "status", "resize", "input", "transport"}
  BY DEF Threads
<1>1. CASE ParseArgs
  <2>1. pc' \in [Threads -> Place]
    <3>1. PICK words \in Commands[bound] :
            pc' = [pc EXCEPT !.main =
                     CASE parse_args(words, DefaultServer).kind = "version" -> "exited"
                       [] parse_args(words, DefaultServer).kind = "error"   -> "failed"
                       [] parse_args(words, DefaultServer).kind = "run"     -> "nested"]
      BY <1>1 DEF ParseArgs
    <3>2. parse_args(words, DefaultServer).kind \in {"version", "error", "run"}
      BY <3>1, CommandsAssumption DEF Typed
    <3> QED BY <1>a, <3>1, <3>2, Places DEF Typed
  <2> QED BY <1>1, <2>1 DEF ParseArgs, Typed
<1>2. CASE CheckNested
  <2>1. pc' \in [Threads -> Place] BY <1>2, <1>a, Places, GoesType DEF CheckNested
  <2> QED BY <1>2, <2>1 DEF CheckNested, Typed
<1>3. CASE Resolve
  <2>1. pc' \in [Threads -> Place] BY <1>3, <1>a, Places DEF Resolve, Typed
  <2> QED BY <1>3, <2>1 DEF Resolve, Typed
<1>4. CASE Spawn
  <2>1. shell' \in Shell BY <1>4 DEF Spawn, Shell, Typed
  <2>2. pc' \in [Threads -> Place] BY <1>4, <1>a, Places, GoesType DEF Spawn
  <2> QED BY <1>4, <2>1, <2>2 DEF Spawn, Typed
<1>5. CASE EnterRaw
  <2>1. shell' \in Shell BY <1>5 DEF EnterRaw, HangsUp, Shell, Typed
  <2>2. console' \in Console /\ (undo' = None \/ undo' \in Undo)
    <3>1. CASE UNCHANGED <<console, undo>> BY <3>1 DEF Typed
    <3>2. CASE \E os \in may.systems :
                 LET raw == enter(console, os.windows, os.pages, os.active)
                 IN  console' = raw.console /\ undo' = raw.undo
      <4>1. PICK os \in may.systems :
                 LET raw == enter(console, os.windows, os.pages, os.active)
                 IN  console' = raw.console /\ undo' = raw.undo
        BY <3>2
      <4>2. os.windows \in BOOLEAN /\ os.pages \in BOOLEAN /\ os.active \in BOOLEAN
        BY InstanceTypes
      <4> QED BY <4>1, <4>2, ConsoleTypes
    <3> QED BY <1>5, <3>1, <3>2 DEF EnterRaw
  <2>3. pc' \in [Threads -> Place] BY <1>5, <1>a, Places, GoesType DEF EnterRaw
  <2> QED BY <1>5, <2>1, <2>2, <2>3 DEF EnterRaw, Typed
<1>6. CASE Start
  <2>1. comp' \in Compositor /\ tty' \in Terminal /\ torn' \in SUBSET Mode
    <3>1. CASE Draws(started(comp), entered(tty), Idle, view)
                 \/ DrawFails(started(comp), entered(tty), Idle, view)
      BY <3>1, StartTypes, DrawsType DEF Typed
    <3>2. CASE comp' = started(comp) /\ tty' \in {tty, entered(tty)} /\ torn' = torn
      BY <3>2, StartTypes DEF Typed
    <3> QED BY <1>6, <3>1, <3>2 DEF Start
  <2>2. pc' \in [Threads -> Place] BY <1>6, <1>a, Places DEF Start, Typed
  <2> QED BY <1>6, <2>1, <2>2 DEF Start, Typed
<1>7. CASE CloneReader
  <2>1. pc' \in [Threads -> Place] 
    <3>1. CASE pc' = [pc EXCEPT !.main = "unwind"] BY <3>1, <1>a, Places DEF Typed
    <3>2. CASE pc' = [pc EXCEPT !.main = "writer", !.output = "read", !.stdin = "read",
                                !.status = "recv", !.resize = "sleep"]
      <4> DEFINE p1 == [pc EXCEPT !.main = "writer"]
                 p2 == [p1 EXCEPT !.output = "read"]
                 p3 == [p2 EXCEPT !.stdin = "read"]
                 p4 == [p3 EXCEPT !.status = "recv"]
                 p5 == [p4 EXCEPT !.resize = "sleep"]
      <4>1. pc' = p5 BY <3>2
      <4>2. p1 \in [Threads -> Place] BY <1>a, Places DEF Typed
      <4> HIDE DEF p1
      <4>3. p2 \in [Threads -> Place] BY <4>2, Places
      <4> HIDE DEF p2
      <4>4. p3 \in [Threads -> Place] BY <4>3, Places
      <4> HIDE DEF p3
      <4>5. p4 \in [Threads -> Place] BY <4>4, Places
      <4> HIDE DEF p4
      <4>6. p5 \in [Threads -> Place] BY <4>5, Places
      <4> QED BY <4>1, <4>6
    <3> QED BY <1>7, <3>1, <3>2 DEF CloneReader
  <2> QED BY <1>7, <2>1 DEF CloneReader, Typed
<1>8. CASE CloneWriter
  <2>1. pc' \in [Threads -> Place] BY <1>8, <1>a, Places DEF CloneWriter, Typed
  <2> QED BY <1>8, <2>1 DEF CloneWriter, Typed
<1> QED BY <1>1, <1>2, <1>3, <1>4, <1>5, <1>6, <1>7, <1>8 DEF Begin

\* Every thread is one of the seven.
LEMMA Seven ==
  Threads = {"main", "output", "stdin", "status", "resize", "input", "transport"}
BY DEF Threads

LEMMA EndTyped == ASSUME Typed, ConsoleOK, End PROVE Typed'
<1> USE DEF fixed, start_up, counts, drawing, screen, channels, may
<1>1. CASE Shutdown
  <2>1. pc' \in [Threads -> Place] BY <1>1, Seven, Places, GoesType DEF Shutdown
  <2> QED BY <1>1, <2>1 DEF Shutdown, Typed
<1>2. CASE Stop
  <2>1. pc' \in [Threads -> Place] BY <1>2, Seven, Places, GoesType DEF Stop
  <2>2. comp' \in Compositor /\ tty' \in Terminal BY <1>2, StopType DEF Stop, Typed
  <2> QED BY <1>2, <2>1, <2>2 DEF Stop, Typed
<1>3. CASE LeaveRaw
  <2>0. undo \in Undo BY <1>3 DEF LeaveRaw, Goes, ConsoleOK, Leaves, Inside
  <2>1. pc' \in [Threads -> Place] BY <1>3, Seven, Places, GoesType DEF LeaveRaw
  <2>2. console' \in Console BY <1>3, <2>0, ConsoleTypes DEF LeaveRaw
  <2>3. shell' \in Shell BY <1>3 DEF LeaveRaw, HangsUp, Shell, Typed
  <2> QED BY <1>3, <2>1, <2>2, <2>3 DEF LeaveRaw, Typed
<1>4. CASE WaitForShell
  <2>1. pc' \in [Threads -> Place] BY <1>4, Seven, Places, GoesType DEF WaitForShell
  <2> QED BY <1>4, <2>1 DEF WaitForShell, Typed
<1>5. CASE Exit
  <2>1. pc' \in [Threads -> Place] BY <1>5, Seven, Places, GoesType DEF Exit
  <2> QED BY <1>5, <2>1 DEF Exit, Typed
<1> QED BY <1>1, <1>2, <1>3, <1>4, <1>5 DEF End

\* What is shown of a program's output.
LEMMA DrawnOutput ==
  ASSUME Typed, DrawOutput
  PROVE  /\ program' \in Program /\ view' \in View
         /\ \/ UNCHANGED screen
            \/ Draws(comp, tty, program', view') \/ DrawFails(comp, tty, program', view')
<1>1. CASE comp.finished /\ UNCHANGED screen
  BY <1>1 DEF screen, Typed
<1>2. CASE ~comp.finished
  <2>1. PICK p \in may.programs, scrolled \in {FALSE, view.scrolled} :
          program' = p /\ view' = [view EXCEPT !.scrolled = scrolled]
    BY <1>2 DEF DrawOutput
  <2>2. view \in View /\ scrolled \in BOOLEAN BY DEF Typed, View
  <2>3. program' \in Program /\ view' \in View BY <2>1, <2>2, InstanceTypes DEF View
  <2> QED BY <1>2, <2>3 DEF DrawOutput
<1> QED BY <1>1, <1>2 DEF DrawOutput

LEMMA OutputTyped == ASSUME Typed, Output PROVE Typed'
<1> USE DEF fixed, start_up, counts, drawing, screen, channels, may
<1>1. CASE ReadOutput
  <2>1. pc' \in [Threads -> Place] BY <1>1, Seven, Places, GoesType DEF ReadOutput
  <2>2. shell' \in Shell BY <1>1, Capacities DEF ReadOutput, Shell, Typed
  <2> QED BY <1>1, <2>1, <2>2 DEF ReadOutput, Typed
<1>2. CASE DrawOutput
  <2>1. pc' \in [Threads -> Place] BY <1>2, Seven, Places, GoesType DEF DrawOutput
  <2>2. program' \in Program /\ view' \in View BY <1>2, DrawnOutput
  <2>3. comp' \in Compositor /\ tty' \in Terminal /\ torn' \in SUBSET Mode
    <3>1. CASE UNCHANGED screen BY <3>1 DEF Typed
    <3>2. CASE Draws(comp, tty, program', view') \/ DrawFails(comp, tty, program', view')
      BY <2>2, <3>2, DrawsType DEF Typed
    <3> QED BY <1>2, <3>1, <3>2, DrawnOutput
  <2> QED BY <1>2, <2>1, <2>2, <2>3 DEF DrawOutput, Typed
<1>3. CASE SendReplies
  <2>1. pc' \in [Threads -> Place] BY <1>3, Seven, Places, GoesType DEF SendReplies
  <2>2. input' \in Seq(PtyInput) /\ Len(input') <= InputCapacity
    BY <1>3, EnqueueType DEF SendReplies, PtyInput
  <2> QED BY <1>3, <2>1, <2>2 DEF SendReplies, Typed
<1> QED BY <1>1, <1>2, <1>3 DEF Output

LEMMA StdinTyped == ASSUME Typed, Stdin PROVE Typed'
<1>1. input' \in Seq(PtyInput) /\ Len(input') <= InputCapacity
  <2>1. CASE enqueue("bytes") BY <2>1, EnqueueType DEF PtyInput
  <2>2. CASE input' = input BY <2>2 DEF Typed
  <2> QED BY <2>1, <2>2 DEF Stdin
<1>2. pc' \in [Threads -> Place] BY Seven, Places, GoesType DEF Stdin
<1>3. view' \in View BY DEF Stdin, Typed, View
<1>4. comp' \in Compositor /\ tty' \in Terminal /\ torn' \in SUBSET Mode
  <2>1. CASE UNCHANGED drawing BY <2>1 DEF drawing, Typed
  <2>2. CASE Draws(comp, tty, program, view') \/ DrawFails(comp, tty, program, view')
    BY <1>3, <2>2, DrawsType DEF Typed
  <2> QED BY <2>1, <2>2 DEF Stdin
<1> QED
  BY <1>1, <1>2, <1>3, <1>4 DEF Stdin, Typed, fixed, start_up, counts, may

LEMMA RedrawTyped == ASSUME Typed, Redraw PROVE Typed'
<1>1. pc' \in [Threads -> Place] BY Seven, Places, GoesType DEF Redraw
<1>2. view' \in View BY DEF Redraw, Typed, View
<1>3. Draws(comp, tty, program, view') \/ DrawFails(comp, tty, program, view')
  BY DEF Redraw
<1>4. comp' \in Compositor /\ tty' \in Terminal /\ torn' \in SUBSET Mode
  BY <1>2, <1>3, DrawsType DEF Typed
<1> QED
  BY <1>1, <1>2, <1>4 DEF Redraw, Typed, fixed, start_up, counts, drawing, screen,
                        channels, may

LEMMA ShowStatusTyped == ASSUME Typed, ShowStatus PROVE Typed'
<1>0. /\ statuses \in Seq(BOOLEAN) /\ statuses # <<>> /\ Len(statuses) <= StatusCapacity
      /\ statuses' = Tail(statuses)
  BY DEF ShowStatus, Typed
<1>1. statuses' \in Seq(BOOLEAN) /\ Len(statuses') <= StatusCapacity
  <2>1. /\ Tail(statuses) \in Seq(BOOLEAN) /\ Len(Tail(statuses)) = Len(statuses) - 1
        /\ Len(statuses) \in Nat
    BY <1>0
  <2> QED BY <1>0, <2>1, Capacities
<1>2. view' \in View
  <2>1. Head(statuses) \in BOOLEAN BY <1>0
  <2>2. PICK scrolled \in {view.scrolled, view.scrolled /\ ~Head(statuses)} :
          view' = [attends |-> Head(statuses), scrolled |-> scrolled]
    BY DEF ShowStatus
  <2>3. scrolled \in BOOLEAN
    <3>1. view.scrolled \in BOOLEAN BY DEF Typed, View
    <3> QED BY <2>2, <3>1, Zenon
  <2> QED BY <2>1, <2>2, <2>3, Zenon DEF View
<1>3. Draws(comp, tty, program, view') \/ DrawFails(comp, tty, program, view')
  BY DEF ShowStatus
<1>4. comp' \in Compositor /\ tty' \in Terminal /\ torn' \in SUBSET Mode
  BY <1>2, <1>3, DrawsType DEF Typed
<1> QED
  BY <1>1, <1>2, <1>4 DEF ShowStatus, Typed, fixed, start_up, counts, drawing, screen,
                        channels, may

LEMMA ResizeTyped == ASSUME Typed, Resize PROVE Typed'
<1> USE DEF fixed, start_up, counts, drawing, screen, channels, may
<1>1. CASE NoticeResize
  <2>1. pc' \in [Threads -> Place] BY <1>1, Seven, Places, GoesType DEF NoticeResize
  <2>2. holds' \in BOOLEAN BY <1>1 DEF NoticeResize, Typed
  <2>3. resizes' \in 0 .. may.resizes BY <1>1, InstanceTypes DEF NoticeResize, Typed
  <2>4. comp' \in Compositor /\ tty' \in Terminal /\ torn' \in SUBSET Mode
    <3>1. CASE UNCHANGED drawing BY <3>1 DEF Typed
    <3>2. CASE Draws(comp, tty, program, view) \/ DrawFails(comp, tty, program, view)
      BY <3>2, DrawsType DEF Typed
    <3> QED BY <1>1, <3>1, <3>2 DEF NoticeResize
  <2> QED BY <1>1, <2>1, <2>2, <2>3, <2>4 DEF NoticeResize, Typed
<1>2. CASE SendResize
  <2>1. pc' \in [Threads -> Place] BY <1>2, Seven, Places, GoesType DEF SendResize
  <2>2. input' \in Seq(PtyInput) /\ Len(input') <= InputCapacity
    BY <1>2, EnqueueType DEF SendResize, PtyInput
  <2> QED BY <1>2, <2>1, <2>2 DEF SendResize, Typed
<1> QED BY <1>1, <1>2 DEF Resize

LEMMA InputTyped == ASSUME Typed, Input PROVE Typed'
<1> USE DEF fixed, start_up, counts, drawing, screen, channels, may
<1>1. CASE TakeInput
  <2>1. pc' \in [Threads -> Place] BY <1>1, Seven, Places, GoesType DEF TakeInput
  <2>2. input' \in Seq(PtyInput) /\ Len(input') <= InputCapacity
    BY <1>1, TakeType DEF TakeInput
  <2> QED BY <1>1, <2>1, <2>2 DEF TakeInput, Typed
<1>2. CASE WriteInput
  <2>1. pc' \in [Threads -> Place] BY <1>2, Seven, Places, GoesType DEF WriteInput
  <2>2. input' \in Seq(PtyInput) /\ Len(input') <= InputCapacity
    <3>1. <<>> \in Seq(PtyInput) /\ Len(<<>>) = 0 /\ 0 <= InputCapacity BY Capacities
    <3>2. CASE input' = input BY <3>2 DEF Typed
    <3>3. CASE input' = <<>> BY <3>1, <3>3
    <3> QED BY <1>2, <3>2, <3>3 DEF WriteInput
  <2>3. shell' \in Shell BY <1>2, Capacities DEF WriteInput, Shell, Typed
  <2> QED BY <1>2, <2>1, <2>2, <2>3 DEF WriteInput, Typed
<1> QED BY <1>1, <1>2 DEF Input

LEMMA TransportTyped == ASSUME Typed, Transport PROVE Typed'
<1> USE DEF fixed, start_up, counts, drawing, screen, channels, may
<1>1. CASE Connects
  <2>1. pc' \in [Threads -> Place] BY <1>1, Seven, Places, GoesType DEF Connects
  <2> QED BY <1>1, <2>1 DEF Connects, Typed
<1>2. CASE RemoteInput
  <2>1. input' \in Seq(PtyInput) /\ Len(input') <= InputCapacity
    BY <1>2, EnqueueType DEF RemoteInput, PtyInput
  <2> QED BY <1>2, <2>1 DEF RemoteInput, Typed
<1>3. CASE Receives
  <2>1. pc' \in [Threads -> Place] BY <1>3, Seven, Places, GoesType DEF Receives
  <2> QED BY <1>3, <2>1 DEF Receives, Typed
<1>4. CASE TellStatus
  <2>1. pc' \in [Threads -> Place] BY <1>4, Seven, Places, GoesType DEF TellStatus
  <2>2. PICK c \in BOOLEAN : statuses' = Append(statuses, c) BY <1>4 DEF TellStatus
  <2>3. statuses' \in Seq(BOOLEAN) /\ Len(statuses') = Len(statuses) + 1
        /\ Len(statuses) \in Nat
    BY <2>2 DEF Typed
  <2>4. Len(statuses') <= StatusCapacity
    BY <1>4, <2>3, Capacities DEF TellStatus
  <2>5. told' \in 0 .. may.statuses BY <1>4, InstanceTypes DEF TellStatus, Typed
  <2> QED BY <1>4, <2>1, <2>3, <2>4, <2>5 DEF TellStatus, Typed
<1>5. CASE SeesShutdown
  <2>1. pc' \in [Threads -> Place] BY <1>5, Seven, Places, GoesType DEF SeesShutdown
  <2> QED BY <1>5, <2>1 DEF SeesShutdown, Typed
<1> QED BY <1>1, <1>2, <1>3, <1>4, <1>5 DEF Transport

LEMMA ShellStepsTyped == ASSUME Typed, ShellSteps PROVE Typed'
<1>1. shell' \in Shell
  <2>0. shell \in Shell /\ shell.in \in 0 .. PtyCapacity /\ shell.out \in 0 .. PtyCapacity
        /\ PtyCapacity \in Nat
    BY Capacities DEF Typed, Shell
  <2>1. CASE ShellWrites
    <3>1. CASE shell' = [shell EXCEPT !.at = "writes"] BY <2>0, <3>1 DEF Shell
    <3>2. CASE shell.out < PtyCapacity /\ shell' = [shell EXCEPT !.at = "ready", !.out = @ + 1]
      <4>1. shell.out + 1 \in 0 .. PtyCapacity BY <2>0, <3>2
      <4> QED BY <2>0, <3>2, <4>1 DEF Shell
    <3> QED BY <2>1, <3>1, <3>2 DEF ShellWrites
  <2>2. CASE ShellReads
    <3>1. shell.in - 1 \in 0 .. PtyCapacity BY <2>0, <2>2 DEF ShellReads
    <3>2. shell' = [shell EXCEPT !.in = shell.in - 1] BY <2>2 DEF ShellReads
    <3> QED BY <2>0, <3>1, <3>2 DEF Shell
  <2>3. CASE ShellEnds BY <2>0, <2>3 DEF ShellEnds, Shell
  <2> QED BY <2>1, <2>2, <2>3 DEF ShellSteps
<1> QED
  BY <1>1 DEF ShellSteps, ShellWrites, ShellReads, ShellEnds, Typed, fixed, start_up, counts,
              drawing, screen, channels, may

LEMMA NextTyped == ASSUME Typed, ConsoleOK, [Next]_vars PROVE Typed'
<1>1. CASE UNCHANGED vars
  BY <1>1 DEF vars, Typed, fixed, start_up, counts, drawing, screen, channels, may
<1> QED
  BY <1>1, BeginTyped, EndTyped, OutputTyped, StdinTyped, RedrawTyped, ShowStatusTyped,
     ResizeTyped, InputTyped, TransportTyped, ShellStepsTyped DEF Next

----------------------------------------------------------------------------
(* The screen and the console.                                             *)

LEMMA GoesFacts ==
  ASSUME Typed, NEW thread \in Threads, NEW from, NEW to, Goes(thread, from, to)
  PROVE  /\ pc[thread] = from /\ pc'[thread] = to
         /\ \A t \in Threads \ {thread} : pc'[t] = pc[t]
BY DEF Typed, Goes

\* What the other threads leave alone.
Others ==
  /\ pc'.main = pc.main
  /\ \A t \in Drawing : pc[t] = "none" => pc'[t] = "none"
  /\ UNCHANGED <<before, console, undo>>

LEMMA OthersKeepConsole == ASSUME ConsoleOK, Others PROVE ConsoleOK'
BY DEF ConsoleOK, Others

\* A thread that draws nothing.
LEMMA NothingDrawn ==
  ASSUME ThreadsOK, ScreenOK, ConsoleOK, Others, UNCHANGED drawing
  PROVE  ThreadsOK' /\ ScreenOK' /\ ConsoleOK'
<1>1. ThreadsOK' BY DEF ThreadsOK, Others, drawing
<1>2. ScreenOK' BY DEF ScreenOK, Others, drawing
<1> QED BY <1>1, <1>2, OthersKeepConsole

\* A thread that draws, or tries to.
LEMMA FrameDrawn ==
  ASSUME IInv, Others, NEW t \in Drawing, pc[t] # "none",
         NEW p \in Program, NEW v \in View,
         Draws(comp, tty, p, v) \/ DrawFails(comp, tty, p, v)
  PROVE  ThreadsOK' /\ ScreenOK' /\ ConsoleOK'
<1>1. comp.started BY DEF IInv, ThreadsOK
<1>2. comp'.started = comp.started /\ comp'.finished = comp.finished /\ tty'.saves = tty.saves
  BY DrawsType DEF IInv, Typed
<1>3. ThreadsOK' BY <1>2 DEF IInv, ThreadsOK, Others
<1>4. ScreenOK'
  <2>1. CASE comp.finished
    <3>1. comp' = comp /\ tty' = tty /\ torn' = torn BY <2>1, DrawsNothing
    <3> QED BY <3>1 DEF IInv, ScreenOK, Others
  <2>2. CASE ~comp.finished
    <3>1. \A m \in Mode \ torn' : Restorable(comp', tty', before.tty, m)
      BY <1>1, <2>2, DrawsKeep DEF IInv, ScreenOK, Typed
    <3> QED BY <1>1, <1>2, <2>2, <3>1 DEF IInv, ScreenOK, Others
  <2> QED BY <2>1, <2>2
<1> QED BY <1>3, <1>4, OthersKeepConsole DEF IInv

LEMMA OutputKeeps ==
  ASSUME IInv, Output PROVE ThreadsOK' /\ ScreenOK' /\ ConsoleOK'
<1> USE DEF fixed, start_up, counts, drawing, screen, channels
<1>0. Typed BY DEF IInv
<1>1. CASE ReadOutput
  <2>1. Others BY <1>0, <1>1, GoesFacts, Seven DEF ReadOutput, Others, Drawing
  <2> QED BY <1>1, <2>1, NothingDrawn DEF ReadOutput, IInv
<1>2. CASE DrawOutput
  <2>1. Others BY <1>0, <1>2, GoesFacts, Seven DEF DrawOutput, Others, Drawing
  <2>2. CASE UNCHANGED screen BY <2>1, <2>2, NothingDrawn DEF IInv
  <2>3. CASE Draws(comp, tty, program', view') \/ DrawFails(comp, tty, program', view')
    <3>1. program' \in Program /\ view' \in View BY <1>0, <1>2, DrawnOutput
    <3>2. pc.output # "none" BY <1>2 DEF DrawOutput, Goes
    <3> QED BY <2>1, <2>3, <3>1, <3>2, FrameDrawn DEF Drawing
  <2> QED BY <1>0, <1>2, <2>2, <2>3, DrawnOutput
<1>3. CASE SendReplies
  <2>1. Others BY <1>0, <1>3, GoesFacts, Seven DEF SendReplies, Others, Drawing
  <2> QED BY <1>3, <2>1, NothingDrawn DEF SendReplies, IInv
<1> QED BY <1>1, <1>2, <1>3 DEF Output

LEMMA StdinKeeps ==
  ASSUME IInv, Stdin PROVE ThreadsOK' /\ ScreenOK' /\ ConsoleOK'
<1>0. Typed BY DEF IInv
<1>1. Others
  BY <1>0, GoesFacts, Seven DEF Stdin, Others, Drawing, fixed
<1>2. CASE UNCHANGED drawing BY <1>1, <1>2, NothingDrawn DEF IInv
<1>3. CASE Draws(comp, tty, program, view') \/ DrawFails(comp, tty, program, view')
  <2>1. view' \in View /\ program \in Program BY <1>0, StdinTyped DEF Typed
  <2>2. pc.stdin # "none" BY DEF Stdin, Goes
  <2> QED BY <1>1, <1>3, <2>1, <2>2, FrameDrawn DEF Drawing
<1> QED BY <1>2, <1>3 DEF Stdin

LEMMA RedrawKeeps ==
  ASSUME IInv, Redraw PROVE ThreadsOK' /\ ScreenOK' /\ ConsoleOK'
<1>0. Typed BY DEF IInv
<1>1. Others
  BY <1>0, GoesFacts, Seven DEF Redraw, Others, Drawing, fixed
<1>2. view' \in View /\ program \in Program BY <1>0, RedrawTyped DEF Typed
<1>3. Draws(comp, tty, program, view') \/ DrawFails(comp, tty, program, view')
  BY DEF Redraw
<1>4. pc.stdin # "none" BY DEF Redraw, Goes
<1> QED BY <1>1, <1>2, <1>3, <1>4, FrameDrawn DEF Drawing

LEMMA ShowStatusKeeps ==
  ASSUME IInv, ShowStatus PROVE ThreadsOK' /\ ScreenOK' /\ ConsoleOK'
<1>0. Typed BY DEF IInv
<1>1. Others
  BY DEF ShowStatus, Others, fixed
<1>2. view' \in View /\ program \in Program BY <1>0, ShowStatusTyped DEF Typed
<1>3. Draws(comp, tty, program, view') \/ DrawFails(comp, tty, program, view')
  BY DEF ShowStatus
<1>4. pc.status # "none" BY DEF ShowStatus
<1> QED BY <1>1, <1>2, <1>3, <1>4, FrameDrawn DEF Drawing

LEMMA ResizeKeeps ==
  ASSUME IInv, Resize PROVE ThreadsOK' /\ ScreenOK' /\ ConsoleOK'
<1> USE DEF fixed, start_up, counts, screen, channels
<1>0. Typed BY DEF IInv
<1>1. CASE NoticeResize
  <2>1. Others BY <1>0, <1>1, GoesFacts, Seven DEF NoticeResize, Others, Drawing
  <2>2. pc.resize = "sleep" BY <1>1 DEF NoticeResize, Goes
  <2>3. CASE UNCHANGED drawing BY <2>1, <2>3, NothingDrawn DEF IInv
  <2>4. CASE Draws(comp, tty, program, view) \/ DrawFails(comp, tty, program, view)
    <3>1. program \in Program /\ view \in View BY <1>0 DEF Typed
    <3>2. pc.resize # "none" BY <2>2
    <3> QED BY <2>1, <2>4, <3>1, <3>2, FrameDrawn DEF Drawing
  <2> QED BY <1>1, <2>3, <2>4 DEF NoticeResize
<1>2. CASE SendResize
  <2>1. Others BY <1>0, <1>2, GoesFacts, Seven DEF SendResize, Others, Drawing
  <2> QED BY <1>2, <2>1, NothingDrawn DEF SendResize, IInv
<1> QED BY <1>1, <1>2 DEF Resize

LEMMA InputKeeps ==
  ASSUME IInv, Input PROVE ThreadsOK' /\ ScreenOK' /\ ConsoleOK'
<1> USE DEF fixed, start_up, counts, screen, channels
<1>0. Typed BY DEF IInv
<1>1. CASE TakeInput
  <2>1. Others BY <1>0, <1>1, GoesFacts, Seven DEF TakeInput, Others, Drawing
  <2> QED BY <1>1, <2>1, NothingDrawn DEF TakeInput, IInv
<1>2. CASE WriteInput
  <2>1. Others BY <1>0, <1>2, GoesFacts, Seven DEF WriteInput, Others, Drawing
  <2> QED BY <1>2, <2>1, NothingDrawn DEF WriteInput, IInv
<1> QED BY <1>1, <1>2 DEF Input

LEMMA TransportKeeps ==
  ASSUME IInv, Transport PROVE ThreadsOK' /\ ScreenOK' /\ ConsoleOK'
<1> USE DEF fixed, start_up, counts, screen, channels
<1>0. Typed BY DEF IInv
<1>1. Others
  <2>1. CASE Connects BY <1>0, <2>1, GoesFacts, Seven DEF Connects, Others, Drawing
  <2>2. CASE RemoteInput BY <2>2 DEF RemoteInput, Others
  <2>3. CASE Receives BY <1>0, <2>3, GoesFacts, Seven DEF Receives, Others, Drawing
  <2>4. CASE TellStatus BY <1>0, <2>4, GoesFacts, Seven DEF TellStatus, Others, Drawing
  <2>5. CASE SeesShutdown BY <1>0, <2>5, GoesFacts, Seven DEF SeesShutdown, Others, Drawing
  <2> QED BY <2>1, <2>2, <2>3, <2>4, <2>5 DEF Transport
<1>2. UNCHANGED drawing
  BY DEF Transport, Connects, RemoteInput, Receives, TellStatus, SeesShutdown
<1> QED BY <1>1, <1>2, NothingDrawn DEF IInv

LEMMA RestKeeps ==
  ASSUME IInv, ShellSteps \/ UNCHANGED vars
  PROVE  ThreadsOK' /\ ScreenOK' /\ ConsoleOK'
<1>1. Others /\ UNCHANGED drawing
  BY DEF ShellSteps, ShellWrites, ShellReads, ShellEnds, vars, fixed, screen, Others
<1> QED BY <1>1, NothingDrawn DEF IInv

\* Before the screen is taken the main thread is alone.
LEMMA AloneKeeps ==
  ASSUME IInv, ~comp.started, UNCHANGED <<drawing, before>>,
         pc'.main \in Early \cup Over,
         \A t \in Drawing : pc'[t] = "none"
  PROVE  ThreadsOK' /\ ScreenOK'
<1>1. ThreadsOK' BY DEF IInv, ThreadsOK, drawing, Early, Over, Inside, Leaves, Left
<1>2. ScreenOK' BY DEF IInv, ScreenOK, drawing
<1> QED BY <1>1, <1>2

LEMMA BeginKeeps ==
  ASSUME IInv, Begin PROVE ThreadsOK' /\ ScreenOK' /\ ConsoleOK'
<1> USE DEF fixed, start_up, counts, screen, channels
<1>0. Typed /\ ThreadsOK /\ ScreenOK /\ ConsoleOK BY DEF IInv
<1>a. Drawing \subseteq Threads \ {"main"} BY Seven DEF Drawing
<1>1. CASE ParseArgs
  <2>1. PICK words \in Commands[bound] :
          pc' = [pc EXCEPT !.main =
                   CASE parse_args(words, DefaultServer).kind = "version" -> "exited"
                     [] parse_args(words, DefaultServer).kind = "error"   -> "failed"
                     [] parse_args(words, DefaultServer).kind = "run"     -> "nested"]
    BY <1>1 DEF ParseArgs
  <2>2. parse_args(words, DefaultServer).kind \in {"version", "error", "run"}
    BY <1>0, <2>1, CommandsAssumption DEF Typed
  <2>3. pc'.main \in {"exited", "failed", "nested"} /\ \A t \in Drawing : pc'[t] = pc[t]
    BY <1>0, <1>a, <2>1, <2>2, Seven DEF Typed
  <2>4. pc.main = "args" /\ UNCHANGED <<drawing, before, console, undo>>
    BY <1>1 DEF ParseArgs
  <2>5. ThreadsOK' /\ ScreenOK'
    BY <1>0, <2>3, <2>4, AloneKeeps DEF ThreadsOK, Early, Over
  <2>6. ConsoleOK'
    BY <1>0, <2>3, <2>4 DEF ConsoleOK, Early, Over, Inside, Leaves, Left
  <2> QED BY <2>5, <2>6
<1>2. CASE CheckNested
  <2>1. pc'.main \in {"exited", "resolve"} /\ \A t \in Drawing : pc'[t] = pc[t]
    BY <1>0, <1>a, <1>2, GoesFacts, Seven DEF CheckNested
  <2>2. pc.main = "nested" /\ UNCHANGED <<drawing, before, console, undo>>
    BY <1>2 DEF CheckNested, Goes
  <2>3. ThreadsOK' /\ ScreenOK'
    BY <1>0, <2>1, <2>2, AloneKeeps DEF ThreadsOK, Early, Over
  <2>4. ConsoleOK'
    BY <1>0, <2>1, <2>2 DEF ConsoleOK, Early, Over, Inside, Leaves, Left
  <2> QED BY <2>3, <2>4
<1>3. CASE Resolve
  <2>1. pc'.main \in {"failed", "spawn"} /\ \A t \in Drawing : pc'[t] = pc[t]
    BY <1>0, <1>a, <1>3, Seven DEF Resolve, Typed
  <2>2. pc.main = "resolve" /\ UNCHANGED <<drawing, before, console, undo>>
    BY <1>3 DEF Resolve
  <2>3. ThreadsOK' /\ ScreenOK'
    BY <1>0, <2>1, <2>2, AloneKeeps DEF ThreadsOK, Early, Over
  <2>4. ConsoleOK'
    BY <1>0, <2>1, <2>2 DEF ConsoleOK, Early, Over, Inside, Leaves, Left
  <2> QED BY <2>3, <2>4
<1>4. CASE Spawn
  <2>1. pc'.main \in {"failed", "raw"} /\ \A t \in Drawing : pc'[t] = pc[t]
    BY <1>0, <1>a, <1>4, GoesFacts, Seven DEF Spawn
  <2>2. pc.main = "spawn" /\ UNCHANGED <<drawing, before, console, undo>>
    BY <1>4 DEF Spawn, Goes
  <2>3. ThreadsOK' /\ ScreenOK'
    BY <1>0, <2>1, <2>2, AloneKeeps DEF ThreadsOK, Early, Over
  <2>4. ConsoleOK'
    BY <1>0, <2>1, <2>2 DEF ConsoleOK, Early, Over, Inside, Leaves, Left
  <2> QED BY <2>3, <2>4
<1>5. CASE EnterRaw
  <2>1. pc.main = "raw" /\ UNCHANGED <<drawing, before>>
    BY <1>5 DEF EnterRaw, Goes
  <2>2. pc'.main \in {"failed", "start"} /\ \A t \in Drawing : pc'[t] = pc[t]
    <3>1. Goes("main", "raw", "failed") \/ Goes("main", "raw", "start") BY <1>5 DEF EnterRaw
    <3> QED BY <1>0, <1>a, <3>1, GoesFacts, Seven
  <2>3. ThreadsOK' /\ ScreenOK'
    BY <1>0, <2>1, <2>2, AloneKeeps DEF ThreadsOK, Early, Over
  <2>4. CASE pc'.main = "failed" /\ UNCHANGED <<console, undo>>
    BY <1>0, <2>1, <2>3, <2>4 DEF ConsoleOK, Early, Over, Inside, Leaves, Left
  <2>5. CASE pc'.main = "start"
             /\ \E os \in may.systems :
                  LET raw == enter(console, os.windows, os.pages, os.active)
                  IN  console' = raw.console /\ undo' = raw.undo
    <3>1. PICK os \in may.systems :
                 /\ console' = enter(console, os.windows, os.pages, os.active).console
                 /\ undo' = enter(console, os.windows, os.pages, os.active).undo
      BY <2>5
    <3>2. os.windows \in BOOLEAN /\ os.pages \in BOOLEAN /\ os.active \in BOOLEAN
      BY <1>0, InstanceTypes
    <3>3. undo' \in Undo BY <1>0, <3>1, <3>2, ConsoleTypes
    <3>4. console = before.console BY <1>0, <2>1 DEF ConsoleOK, Early
    <3>5. /\ undo'.console = before.console
          /\ undo'.active \/ console'.plain = before.console.plain
          /\ undo'.pages \/ console'.oldPages = before.console.oldPages
      BY <3>1, <3>2, <3>4 DEF enter
    <3>6. pc'.main = "start" /\ before' = before BY <2>1, <2>5
    <3> QED BY <2>3, <3>3, <3>5, <3>6 DEF ConsoleOK, Early, Over, Inside, Leaves, Left
  <2>6. \/ pc'.main = "failed" /\ UNCHANGED <<console, undo>>
        \/ pc'.main = "start"
             /\ \E os \in may.systems :
                  LET raw == enter(console, os.windows, os.pages, os.active)
                  IN  console' = raw.console /\ undo' = raw.undo
    <3>1. CASE Goes("main", "raw", "failed") /\ UNCHANGED <<console, undo>>
      BY <1>0, <3>1, GoesFacts, Seven
    <3>2. CASE Goes("main", "raw", "start")
               /\ \E os \in may.systems :
                  LET raw == enter(console, os.windows, os.pages, os.active)
                  IN  console' = raw.console /\ undo' = raw.undo
      BY <1>0, <3>2, GoesFacts, Seven
    <3> QED BY <1>5, <3>1, <3>2 DEF EnterRaw
  <2> QED BY <2>3, <2>4, <2>5, <2>6
<1>6. CASE Start
  <2>1. pc.main = "start" /\ UNCHANGED <<before, console, undo>> BY <1>6 DEF Start
  <2>2. ~comp.started /\ comp = new /\ tty = before.tty
    BY <1>0, <2>1 DEF ThreadsOK, ScreenOK, Early
  <2>3. /\ started(comp).started /\ ~started(comp).finished
        /\ entered(tty).saves = tty.saves
        /\ \A t \in {tty, entered(tty)}, m \in Mode :
             Restorable(started(comp), t, before.tty, m)
    <3>1. tty \in Terminal BY <1>0 DEF Typed
    <3>2. /\ started(comp).started /\ ~started(comp).finished /\ started(comp).changed = {}
          /\ started(comp).previous = [m \in Drawn |-> Default[m]]
      BY <2>2 DEF started, new
    <3>3. /\ entered(tty).saves = tty.saves /\ entered(tty).modes = tty.modes
      BY <3>1 DEF entered, Terminal
    <3> QED BY <2>2, <3>2, <3>3 DEF Restorable, Drawn
  <2>4. started(comp) \in Compositor /\ entered(tty) \in Terminal /\ Idle \in Program
        /\ view \in View /\ torn \in SUBSET Mode
    BY <1>0, StartTypes DEF Typed
  <2>5. comp'.started /\ ~comp'.finished /\ ScreenOK'
    <3>1. CASE Draws(started(comp), entered(tty), Idle, view)
                 \/ DrawFails(started(comp), entered(tty), Idle, view)
      <4>1. comp'.started /\ ~comp'.finished /\ tty'.saves = tty.saves
        BY <2>3, <2>4, <3>1, DrawsType
      <4>2. \A m \in Mode \ torn' : Restorable(comp', tty', before.tty, m)
        BY <1>0, <2>3, <2>4, <3>1, DrawsKeep
      <4> QED BY <1>0, <2>1, <4>1, <4>2 DEF ScreenOK
    <3>2. CASE comp' = started(comp) /\ tty' \in {tty, entered(tty)} /\ torn' = torn
      BY <1>0, <2>1, <2>3, <3>2 DEF ScreenOK
    <3> QED BY <1>6, <3>1, <3>2 DEF Start
  <2>7. pc'.main \in {"clone", "unwind"} BY <1>0, <1>6, Seven DEF Start, Typed
  <2>8. ThreadsOK' BY <2>5, <2>7 DEF ThreadsOK, Early, Over, Inside, Leaves, Left
  <2>9. ConsoleOK'
    BY <1>0, <2>1, <2>7 DEF ConsoleOK, Early, Over, Inside, Leaves, Left
  <2> QED BY <2>5, <2>8, <2>9
<1>7. CASE CloneReader \/ CloneWriter
  <2>1. pc.main \in {"clone", "writer"} /\ UNCHANGED <<drawing, before, console, undo>>
    BY <1>7 DEF CloneReader, CloneWriter
  <2>2. pc'.main \in {"unwind", "writer", "recv"}
    BY <1>0, <1>7, Seven DEF CloneReader, CloneWriter, Typed
  <2>3. ThreadsOK'
    BY <1>0, <2>1, <2>2 DEF ThreadsOK, Early, Over, Inside, Leaves, Left, drawing
  <2>4. ScreenOK' BY <1>0, <2>1 DEF ScreenOK, drawing
  <2>5. ConsoleOK'
    BY <1>0, <2>1, <2>2 DEF ConsoleOK, Early, Over, Inside, Leaves, Left
  <2> QED BY <2>3, <2>4, <2>5
<1> QED BY <1>1, <1>2, <1>3, <1>4, <1>5, <1>6, <1>7 DEF Begin

LEMMA EndKeeps ==
  ASSUME IInv, End PROVE ThreadsOK' /\ ScreenOK' /\ ConsoleOK'
<1> USE DEF fixed, start_up, counts, screen, channels
<1>0. Typed /\ ThreadsOK /\ ScreenOK /\ ConsoleOK BY DEF IInv
<1>a. Drawing \subseteq Threads \ {"main"} BY Seven DEF Drawing
<1>1. CASE Shutdown \/ WaitForShell \/ Exit
  <2>1. /\ <<pc.main, pc'.main>> \in {<<"recv", "stop">>, <<"wait", "join">>, <<"join", "exited">>}
        /\ \A t \in Drawing : pc'[t] = pc[t]
    BY <1>0, <1>a, <1>1, GoesFacts, Seven DEF Shutdown, WaitForShell, Exit
  <2>2. UNCHANGED <<drawing, before, console, undo>>
    BY <1>1 DEF Shutdown, WaitForShell, Exit
  <2>3. ThreadsOK'
    BY <1>0, <2>1, <2>2 DEF ThreadsOK, Early, Over, Inside, Leaves, Left, drawing
  <2>4. ScreenOK' BY <1>0, <2>2 DEF ScreenOK, drawing
  <2>5. ConsoleOK'
    BY <1>0, <2>1, <2>2 DEF ConsoleOK, Early, Over, Inside, Leaves, Left
  <2> QED BY <2>3, <2>4, <2>5
<1>2. CASE Stop
  <2>1. /\ pc.main \in {"stop", "unwind"} /\ pc'.main \in {"leave", "leave_failed"}
        /\ \A t \in Drawing : pc'[t] = pc[t]
    BY <1>0, <1>a, <1>2, GoesFacts, Seven DEF Stop
  <2>2. /\ comp' = stop(comp, tty).compositor /\ tty' = stop(comp, tty).tty
        /\ UNCHANGED <<torn, before, console, undo>>
    BY <1>2 DEF Stop
  <2>3. comp.started /\ ~comp.finished BY <1>0, <2>1 DEF ThreadsOK, Inside
  <2>4. /\ comp'.started /\ comp'.finished /\ comp'.changed = comp.changed
        /\ tty'.saves = tty.saves /\ ~tty'.alternate
        /\ \A m \in Mode : Restorable(comp, tty, before.tty, m) =>
                             tty'.modes[m] = Kept(comp, tty, before.tty, m)
    <3>1. comp \in Compositor /\ tty \in Terminal /\ before.tty \in Terminal
      BY <1>0 DEF Typed
    <3> QED BY <2>2, <2>3, <3>1, StopKeeps
  <2>5. ThreadsOK'
    BY <1>0, <2>1, <2>4 DEF ThreadsOK, Early, Over, Inside, Leaves, Left
  <2>6. ScreenOK' BY <1>0, <2>2, <2>3, <2>4 DEF ScreenOK, Kept
  <2>7. ConsoleOK'
    BY <1>0, <2>1, <2>2 DEF ConsoleOK, Early, Over, Inside, Leaves, Left
  <2> QED BY <2>5, <2>6, <2>7
<1>3. CASE LeaveRaw
  <2>1. /\ pc.main \in {"leave", "leave_failed"} /\ pc'.main \in {"wait", "failed"}
        /\ \A t \in Drawing : pc'[t] = pc[t]
    BY <1>0, <1>a, <1>3, GoesFacts, Seven DEF LeaveRaw
  <2>2. UNCHANGED <<drawing, before>> /\ console' = leave(console, undo)
    BY <1>3 DEF LeaveRaw
  <2>3. ThreadsOK'
    BY <1>0, <2>1, <2>2 DEF ThreadsOK, Early, Over, Inside, Leaves, Left, drawing
  <2>4. ScreenOK' BY <1>0, <2>2 DEF ScreenOK, drawing
  <2>5. /\ undo \in Undo /\ undo.console = before.console
        /\ undo.active \/ console.plain = before.console.plain
        /\ undo.pages \/ console.oldPages = before.console.oldPages
    BY <1>0, <2>1 DEF ConsoleOK, Leaves
  <2>6. leave(console, undo) = before.console
    <3>1. before.console \in Console BY <1>0 DEF Typed
    <3>2. before.console = [ cooked |-> before.console.cooked, plain |-> before.console.plain,
                             oldPages |-> before.console.oldPages ]
      BY <3>1 DEF Console
    <3> QED BY <2>5, <3>2 DEF leave
  <2>7. ConsoleOK'
    BY <2>1, <2>2, <2>6 DEF ConsoleOK, Early, Over, Inside, Leaves, Left
  <2> QED BY <2>3, <2>4, <2>7
<1> QED BY <1>1, <1>2, <1>3 DEF End

LEMMA InitKeeps == Init => IInv
<1> SUFFICES ASSUME Init PROVE IInv OBVIOUS
<1>1. Typed BY InitTyped
<1>2. pc.main = "args" /\ \A t \in Drawing : pc[t] = "none"
  BY Seven DEF Init, Drawing
<1>3. ~comp.started /\ ~comp.finished BY DEF Init, new
<1>4. ThreadsOK BY <1>2, <1>3 DEF ThreadsOK, Early, Over, Inside, Leaves, Left
<1>5. ScreenOK BY <1>3 DEF Init, ScreenOK
<1>6. ConsoleOK BY <1>2 DEF Init, ConsoleOK, Early, Over, Inside, Leaves, Left
<1> QED BY <1>1, <1>4, <1>5, <1>6 DEF IInv

LEMMA NextKeeps == IInv /\ [Next]_vars => IInv'
<1> SUFFICES ASSUME IInv, [Next]_vars PROVE IInv' OBVIOUS
<1>1. Typed' BY NextTyped DEF IInv
<1>2. ThreadsOK' /\ ScreenOK' /\ ConsoleOK'
  BY BeginKeeps, EndKeeps, OutputKeeps, StdinKeeps, RedrawKeeps, ShowStatusKeeps,
     ResizeKeeps, InputKeeps, TransportKeeps, RestKeeps DEF Next
<1> QED BY <1>1, <1>2 DEF IInv

LEMMA Inductive == Spec => []IInv
BY InitKeeps, NextKeeps, PTL DEF Spec

\* Whatever the instance, and whichever calls fail: on every way out the host's screen,
\* modes and console are as the agent found them (run and the drops of its guards in
\* main.rs, HostTerminal::stop, RawTerminal::drop).
THEOREM ScreenRestored == Spec => []HostRestored
<1>1. IInv => HostRestored
  <2> SUFFICES ASSUME IInv PROVE HostRestored OBVIOUS
  <2>1. ASSUME pc.main \in Leaves \cup Left \cup Over
        PROVE  /\ ~tty.alternate
               /\ \A m \in Mode \ torn :
                    tty.modes[m] = IF m \in comp.changed /\ ~tty.saves
                                   THEN Default[m] ELSE before.tty.modes[m]
    <3>1. CASE comp.finished BY <3>1 DEF IInv, ScreenOK, Kept
    <3>2. CASE ~comp.finished
      <4>1. comp = new /\ tty = before.tty
        BY <2>1, <3>2 DEF IInv, ThreadsOK, ScreenOK, Leaves, Left, Over
      <4> QED BY <4>1 DEF IInv, Typed, new
    <3> QED BY <3>1, <3>2
  <2>2. pc.main \in Left \cup Over => console = before.console BY DEF IInv, ConsoleOK
  <2> QED BY <2>1, <2>2 DEF HostRestored, Leaves, Left, Over
<1> QED BY <1>1, Inductive, PTL

----------------------------------------------------------------------------
(* The session the URLs lead to (cli.rs, connection.rs).                   *)


\* A command line's server and session.
Sound(c) ==
  /\ parse_url(c.server) # None =>
       /\ c.server \in Url
       /\ c.server.scheme \in {"ws", "wss"} =>
            \E session \in SessionId : c.server.path = HostPath(session).path
  /\ c.session = None \/ c.session \in SessionId

ConnectOK ==
  /\ pc.main \in {"nested", "resolve"} => Sound(config)
  /\ pc.main \in {"args", "nested", "resolve"} => connect = None
  /\ connect # None =>
       /\ Sound(config) /\ connect = resolve_connection(config, reply)
       /\ Creates(config) => reply \in Replies

LEMMA ParsedSession ==
  ASSUME NEW words, NEW server, parse_args(words, server).kind = "run"
  PROVE  LET session == parse_args(words, server).config.session
         IN  session = None \/ session \in SessionId
BY DEF parse_args, validate_session_id

LEMMA SchemeChange ==
  ASSUME NEW r \in Url, NEW s \in Scheme, NEW u, u = [r EXCEPT !.scheme = s]
  PROVE  /\ u \in Url /\ u.scheme = s /\ u.user = r.user /\ u.host = r.host
         /\ u.port = r.port /\ u.path = r.path /\ u.query = r.query
BY DEF Url

LEMMA SameUrl ==
  ASSUME NEW r \in Url, NEW u \in Url, u.scheme = r.scheme, u.user = r.user,
         u.host = r.host, u.port = r.port, u.path = r.path, u.query = r.query
  PROVE  u = r
BY DEF Url

LEMMA SameParse ==
  ASSUME NEW r \in Url, NEW u \in Url, u.scheme \in Scheme,
         u.host = r.host, u.port = r.port, parse_url(r) = r
  PROVE  parse_url(u) = u
BY ConnectionAssumption DEF parse_url, parse_authority, Url

LEMMA PathFacts ==
  ASSUME NEW session \in SessionId
  PROVE  /\ ViewerPath(session).scheme = "none" /\ HostPath(session).scheme = "none"
         /\ ViewerPath(session).query = FALSE /\ HostPath(session).query = FALSE
         /\ ViewerPath(session).path = <<"s", session>>
         /\ HostPath(session).path = <<"api", "session", session, "host">>
         /\ <<"s", session>> \in Seq(Segment)
         /\ <<"api", "session", session, "host">> \in Seq(Segment)
         /\ <<>> \in Seq(Segment)
<1>1. session \in Segment /\ "s" \in Segment /\ "api" \in Segment /\ "session" \in Segment
      /\ "host" \in Segment
  BY ConnectionAssumption
<1>2. ViewerPath(session).scheme = "none" /\ ViewerPath(session).query = FALSE
      /\ ViewerPath(session).path = <<"s", session>>
  BY DEF ViewerPath, Reference, Empty
<1>3. HostPath(session).scheme = "none" /\ HostPath(session).query = FALSE
      /\ HostPath(session).path = <<"api", "session", session, "host">>
  BY DEF HostPath, Reference, Empty
<1>4. <<"s", session>> \in Seq(Segment) BY <1>1
<1>5. <<"api", "session", session, "host">> \in Seq(Segment) BY <1>1
<1>6. <<>> \in Seq(Segment) OBVIOUS
<1> QED BY <1>2, <1>3, <1>4, <1>5, <1>6

\* A session of a server: what its viewers and its host connect to, and that the
\* viewers' URL leads back to both.
LEMMA SessionOfServer ==
  ASSUME NEW base \in Url, parse_url(base) = base, base.scheme \in {"http", "https"},
         NEW session \in SessionId
  PROVE  LET viewer  == join_url(base, ViewerPath(session))
             host    == websocket_url(base, HostPath(session))
         IN  /\ viewer \in Url /\ parse_url(viewer) = viewer
             /\ viewer.scheme = base.scheme /\ viewer.user = base.user
             /\ viewer.host = base.host /\ viewer.port = base.port
             /\ viewer.path = <<"s", session>> /\ ~viewer.query
             /\ host \in Url /\ host.user = base.user
             /\ host.host = base.host /\ host.port = base.port
             /\ host.path = HostPath(session).path /\ ~host.query
             /\ host.scheme = IF base.scheme = "https" THEN "wss" ELSE "ws"
<1> DEFINE viewer == join_url(base, ViewerPath(session))
           joined == join_url(base, HostPath(session))
           host   == websocket_url(base, HostPath(session))
           scheme == IF base.scheme = "https" THEN "wss" ELSE "ws"
<1>1. viewer = [base EXCEPT !.path = ViewerPath(session).path,
                            !.query = ViewerPath(session).query]
  BY PathFacts DEF join_url
<1>2. joined = [base EXCEPT !.path = HostPath(session).path,
                            !.query = HostPath(session).query]
  BY PathFacts DEF join_url
<1>3. host = [joined EXCEPT !.scheme = IF joined.scheme = "https" THEN "wss" ELSE "ws"]
  BY DEF websocket_url
<1> HIDE DEF viewer, joined, host
<1>4. /\ viewer \in Url /\ viewer.scheme = base.scheme /\ viewer.user = base.user
      /\ viewer.host = base.host /\ viewer.port = base.port
      /\ viewer.path = <<"s", session>> /\ ~viewer.query
  <2>1. ViewerPath(session).path \in Seq(Segment) /\ ~ViewerPath(session).query
        /\ ViewerPath(session).path = <<"s", session>> /\ ViewerPath(session).query \in BOOLEAN
    BY PathFacts
  <2> QED BY <1>1, <2>1 DEF Url
<1>5. /\ joined \in Url /\ joined.scheme = base.scheme /\ joined.user = base.user
      /\ joined.host = base.host /\ joined.port = base.port
      /\ joined.path = HostPath(session).path /\ ~joined.query
  <2>1. HostPath(session).path \in Seq(Segment) /\ ~HostPath(session).query
        /\ HostPath(session).query \in BOOLEAN
    BY PathFacts
  <2> QED BY <1>2, <2>1 DEF Url
<1>6. scheme \in Scheme BY DEF Scheme
<1>7. host = [joined EXCEPT !.scheme = scheme] BY <1>3, <1>5
<1> HIDE DEF scheme
<1>8. /\ host \in Url /\ host.scheme = scheme /\ host.user = joined.user
      /\ host.host = joined.host /\ host.port = joined.port
      /\ host.path = joined.path /\ host.query = joined.query
  BY <1>5, <1>6, <1>7, SchemeChange
<1>9. parse_url(viewer) = viewer BY <1>4, SameParse DEF Scheme
<1> USE DEF scheme
<1> QED BY <1>4, <1>5, <1>8, <1>9 DEF viewer, host

\* The printed command leads back to the server and the session.
LEMMA CommandOfViewer ==
  ASSUME NEW viewer \in Url, parse_url(viewer) = viewer, NEW session \in SessionId,
         viewer.path = <<"s", session>>, ~viewer.query
  PROVE  LET command == reconnect_command(viewer)
         IN  /\ command # None /\ command.session = session
             /\ command.server \in Url /\ command.server.scheme = viewer.scheme
             /\ command.server.user = viewer.user /\ command.server.host = viewer.host
             /\ command.server.port = viewer.port
             /\ parse_url(command.server) = command.server
<1> DEFINE server == with_path(viewer, <<>>)
<1>1. viewer # None BY ConnectionAssumption
<1>2. viewer.path # <<>> /\ viewer.path[Len(viewer.path)] = session OBVIOUS
<1>3. reconnect_command(viewer) = [server |-> server, session |-> session]
  <2>1. /\ parse_url(viewer) = viewer /\ validate_session_id(session)
        /\ ~(viewer.path = <<>> \/ viewer.query)
    BY <1>2 DEF validate_session_id
  <2> QED BY <1>1, <1>2, <2>1 DEF reconnect_command
<1>4. server = [viewer EXCEPT !.path = <<>>, !.query = FALSE] BY DEF with_path
<1> HIDE DEF server
<1>5. /\ server \in Url /\ server.scheme = viewer.scheme /\ server.user = viewer.user
      /\ server.host = viewer.host /\ server.port = viewer.port
  <2>1. <<>> \in Seq(Segment) OBVIOUS
  <2> QED BY <1>4, <2>1 DEF Url
<1>6. parse_url(server) = server
  <2>1. server.scheme \in Scheme BY <1>5 DEF Url
  <2> QED BY <1>5, <2>1, SameParse
<1>7. [server |-> server, session |-> session] # None BY <1>5, ConnectionAssumption
<1> QED BY <1>3, <1>5, <1>6, <1>7

\* The command run again: the same viewers' URL, and the host's.
LEMMA SameAgain ==
  ASSUME NEW viewer \in Url, parse_url(viewer) = viewer, NEW session \in SessionId,
         viewer.path = <<"s", session>>, ~viewer.query, viewer.scheme \in {"http", "https"}
  PROVE  LET command == reconnect_command(viewer)
             again   == resolve_connection(command, None)
         IN  /\ command # None /\ again.viewer = viewer
             /\ again.host \in Url /\ again.host.user = viewer.user
             /\ again.host.host = viewer.host /\ again.host.port = viewer.port
             /\ again.host.path = HostPath(session).path /\ ~again.host.query
             /\ again.host.scheme = IF viewer.scheme = "https" THEN "wss" ELSE "ws"
<1> DEFINE command == reconnect_command(viewer)
           server == command.server
<1>1. /\ command # None /\ command.session = session
      /\ server \in Url /\ server.scheme = viewer.scheme
      /\ server.user = viewer.user /\ server.host = viewer.host
      /\ server.port = viewer.port /\ parse_url(server) = server
  BY CommandOfViewer
<1> HIDE DEF command
<1>2. server # None /\ session # None BY <1>1, ConnectionAssumption
<1>3. resolve_connection(command, None) =
        [ viewer |-> join_url(server, ViewerPath(session)),
          host   |-> websocket_url(server, HostPath(session)) ]
  BY <1>1, <1>2 DEF resolve_connection
<1> HIDE DEF server
<1>4. /\ join_url(server, ViewerPath(session)) = viewer
  <2> DEFINE v == join_url(server, ViewerPath(session))
  <2>1. /\ v \in Url /\ v.scheme = server.scheme /\ v.user = server.user
        /\ v.host = server.host /\ v.port = server.port
        /\ v.path = <<"s", session>> /\ ~v.query
    BY <1>1, SessionOfServer
  <2>2. v.query = viewer.query BY <2>1 DEF Url
  <2> HIDE DEF v
  <2>3. v = viewer BY <1>1, <2>1, <2>2, SameUrl
  <2> QED BY <2>3 DEF v
<1>5. LET host == websocket_url(server, HostPath(session))
      IN  /\ host \in Url /\ host.user = viewer.user
          /\ host.host = viewer.host /\ host.port = viewer.port
          /\ host.path = HostPath(session).path /\ ~host.query
          /\ host.scheme = IF viewer.scheme = "https" THEN "wss" ELSE "ws"
  BY <1>1, SessionOfServer
<1> QED BY <1>1, <1>3, <1>4, <1>5 DEF command

\* What resolve_connection makes of a sound configuration leads to one session.
LEMMA OneSession ==
  ASSUME NEW c, NEW r, Sound(c), Creates(c) => r.session \in SessionId,
         NEW info, info = resolve_connection(c, r), info # None
  PROVE  /\ info.host \in Url /\ info.host.scheme \in {"ws", "wss"}
         /\ LET command == reconnect_command(info.viewer)
                again   == resolve_connection(command, None)
            IN  /\ command # None
                /\ again.viewer = info.viewer
                /\ again.host = [info.host EXCEPT !.query = FALSE]
<1> DEFINE base == c.server
           again == resolve_connection(reconnect_command(info.viewer), None)
<1>1. parse_url(base) # None BY DEF resolve_connection
<1>2. parse_url(base) = base BY <1>1 DEF parse_url
<1>3. base \in Url BY <1>1 DEF Sound
<1>4. PICK session \in SessionId :
        /\ info.viewer \in Url /\ parse_url(info.viewer) = info.viewer
        /\ info.viewer.scheme \in {"http", "https"}
        /\ info.viewer.path = <<"s", session>> /\ ~info.viewer.query
        /\ info.host \in Url
        /\ info.host.user = info.viewer.user /\ info.host.host = info.viewer.host
        /\ info.host.port = info.viewer.port /\ info.host.path = HostPath(session).path
        /\ info.host.scheme = IF info.viewer.scheme = "https" THEN "wss" ELSE "ws"
  <2>1. CASE base.scheme \in {"ws", "wss"}
    <3>1. PICK session \in SessionId : base.path = HostPath(session).path
      BY <1>1, <2>1 DEF Sound
    <3>2. base.path = <<"api", "session", session, "host">> BY <3>1, PathFacts
    <3> DEFINE turned == [base EXCEPT !.scheme = IF base.scheme = "wss" THEN "https" ELSE "http"]
               viewer == with_path(turned, <<"s", base.path[3]>>)
    <3>3. Len(base.path) >= 3 /\ base.path[3] = session BY <3>2
    <3>4. info = [viewer |-> viewer_url_from_websocket(base), host |-> base]
      BY <1>1, <1>2, <2>1 DEF resolve_connection
    <3>5. info.viewer = viewer /\ info.host = base
      BY <3>3, <3>4 DEF viewer_url_from_websocket
    <3>6. /\ turned \in Url /\ turned.scheme = IF base.scheme = "wss" THEN "https" ELSE "http"
          /\ turned.user = base.user /\ turned.host = base.host /\ turned.port = base.port
      BY <1>3 DEF Url, Scheme
    <3>7. viewer = [turned EXCEPT !.path = <<"s", base.path[3]>>, !.query = FALSE]
      BY DEF with_path
    <3> HIDE DEF turned, viewer
    <3>8. <<"s", base.path[3]>> \in Seq(Segment) /\ <<"s", base.path[3]>> = <<"s", session>>
      BY <3>3, PathFacts
    <3>9. /\ viewer \in Url /\ viewer.scheme = turned.scheme /\ viewer.user = turned.user
          /\ viewer.host = turned.host /\ viewer.port = turned.port
          /\ viewer.path = <<"s", session>> /\ ~viewer.query
      BY <3>6, <3>7, <3>8 DEF Url
    <3>10. parse_url(viewer) = viewer
      <4>1. viewer.host = base.host /\ viewer.port = base.port /\ viewer.scheme \in Scheme
        BY <3>6, <3>9 DEF Scheme
      <4> QED BY <1>2, <1>3, <3>9, <4>1, SameParse
    <3> QED BY <1>3, <2>1, <3>1, <3>5, <3>6, <3>9, <3>10
  <2>2. CASE base.scheme \in {"http", "https"}
    <3>1. PICK session \in SessionId :
            info = [ viewer |-> join_url(base, ViewerPath(session)),
                     host   |-> websocket_url(base, HostPath(session)) ]
      <4>1. CASE c.session = None
        <5>1. r.session \in SessionId BY <1>1, <1>2, <2>2, <4>1 DEF Creates
        <5>2. info = create_session(base, r)
          BY <1>1, <1>2, <2>2, <4>1 DEF resolve_connection
        <5> QED BY <5>1, <5>2 DEF create_session
      <4>2. CASE c.session # None
        <5>1. c.session \in SessionId BY <4>2 DEF Sound
        <5> QED BY <1>1, <1>2, <2>2, <4>2, <5>1 DEF resolve_connection
      <4> QED BY <4>1, <4>2
    <3>2. /\ info.viewer = join_url(base, ViewerPath(session))
          /\ info.host = websocket_url(base, HostPath(session))
      BY <3>1
    <3> QED BY <1>2, <1>3, <2>2, <3>2, SessionOfServer
  <2>3. base.scheme \in Scheme BY <1>3 DEF Url
  <2> QED BY <2>1, <2>2, <2>3 DEF Scheme
<1>5. /\ reconnect_command(info.viewer) # None /\ again.viewer = info.viewer
      /\ again.host \in Url /\ again.host.user = info.viewer.user
      /\ again.host.host = info.viewer.host /\ again.host.port = info.viewer.port
      /\ again.host.path = HostPath(session).path /\ ~again.host.query
      /\ again.host.scheme = IF info.viewer.scheme = "https" THEN "wss" ELSE "ws"
  BY <1>4, SameAgain
<1> DEFINE plain == [info.host EXCEPT !.query = FALSE]
<1>6. /\ plain \in Url /\ plain.scheme = info.host.scheme /\ plain.user = info.host.user
      /\ plain.host = info.host.host /\ plain.port = info.host.port
      /\ plain.path = info.host.path /\ plain.query = FALSE
  BY <1>4 DEF Url
<1> HIDE DEF again, plain
<1>7. again.host.query = plain.query BY <1>5, <1>6 DEF Url
<1>8. again.host = plain
  <2>1. /\ again.host.scheme = plain.scheme /\ again.host.user = plain.user
        /\ again.host.host = plain.host /\ again.host.port = plain.port
        /\ again.host.path = plain.path
    BY <1>4, <1>5, <1>6
  <2> QED BY <1>5, <1>6, <1>7, <2>1, SameUrl
<1>9. info.host.scheme \in {"ws", "wss"} BY <1>4
<1> QED BY <1>4, <1>5, <1>8, <1>9 DEF again, plain

LEMMA InitConnect == Init => ConnectOK
<1> SUFFICES ASSUME Init PROVE ConnectOK OBVIOUS
<1>1. pc.main = "args" BY Seven DEF Init
<1> QED BY <1>1 DEF Init, ConnectOK

\* main never comes back to where the session is resolved.
LEMMA NextConnect == ASSUME IInv, ConnectOK, [Next]_vars PROVE ConnectOK'
<1> USE DEF fixed, start_up, counts, screen, channels
<1>0. Typed BY DEF IInv
<1>1. CASE ParseArgs
  <2>1. PICK words \in Commands[bound] :
          LET command == parse_args(words, DefaultServer)
          IN  /\ config' = command.config
              /\ pc' = [pc EXCEPT !.main = CASE command.kind = "version" -> "exited"
                                             [] command.kind = "error"   -> "failed"
                                             [] command.kind = "run"     -> "nested"]
    BY <1>1 DEF ParseArgs
  <2>2. parse_args(words, DefaultServer).kind \in {"version", "error", "run"}
    BY <1>0, <2>1, CommandsAssumption DEF Typed
  <2>3. pc'.main = "nested" => parse_args(words, DefaultServer).kind = "run"
    BY <1>0, <2>1, <2>2, Seven DEF Typed
  <2>4. pc'.main \in {"nested", "exited", "failed"} BY <1>0, <2>1, <2>2, Seven DEF Typed
  <2>5. ASSUME pc'.main = "nested" PROVE Sound(config')
    <3>1. config'.session = None \/ config'.session \in SessionId
      BY <2>1, <2>3, <2>5, ParsedSession
    <3>2. parse_url(config'.server) # None =>
            /\ config'.server \in Url
            /\ config'.server.scheme \in {"ws", "wss"} =>
                 \E session \in SessionId : config'.server.path = HostPath(session).path
      BY <1>0, <2>1, <2>3, <2>5, CommandsAssumption DEF Typed
    <3> QED BY <3>1, <3>2 DEF Sound
  <2>6. connect' = None BY <1>1 DEF ParseArgs, ConnectOK
  <2> QED BY <2>4, <2>5, <2>6 DEF ConnectOK
<1>2. CASE CheckNested
  <2>1. pc.main = "nested" /\ pc'.main \in {"exited", "resolve"}
    BY <1>0, <1>2, GoesFacts, Seven DEF CheckNested
  <2> QED BY <1>2, <2>1 DEF CheckNested, ConnectOK
<1>3. CASE Resolve
  <2>1. pc.main = "resolve" /\ pc'.main \in {"failed", "spawn"} /\ config' = config
    BY <1>0, <1>3, Seven DEF Resolve, Typed
  <2>2. connect' = resolve_connection(config, reply') /\ (Creates(config) => reply' \in Replies)
    BY <1>3 DEF Resolve
  <2>3. Sound(config) BY <2>1 DEF ConnectOK
  <2> QED BY <2>1, <2>2, <2>3 DEF ConnectOK
<1>4. ASSUME UNCHANGED <<config, reply, connect>>,
             pc'.main \in {"args", "nested", "resolve"} => pc'.main = pc.main
      PROVE  ConnectOK'
  BY <1>4 DEF ConnectOK
<1>5. CASE Begin /\ ~(ParseArgs \/ CheckNested \/ Resolve)
  <2>1. UNCHANGED <<config, reply, connect>>
    BY <1>5 DEF Begin, Spawn, EnterRaw, Start, CloneReader, CloneWriter
  <2>2. pc'.main \in {"failed", "raw", "start", "clone", "unwind", "writer", "recv"}
    <3>1. CASE Spawn BY <1>0, <3>1, GoesFacts, Seven DEF Spawn
    <3>2. CASE EnterRaw
      <4>1. Goes("main", "raw", "failed") \/ Goes("main", "raw", "start")
        BY <3>2 DEF EnterRaw
      <4> QED BY <1>0, <4>1, GoesFacts, Seven
    <3>3. CASE Start BY <1>0, <3>3, Seven DEF Start, Typed
    <3>4. CASE CloneReader BY <1>0, <3>4, Seven DEF CloneReader, Typed
    <3>5. CASE CloneWriter BY <1>0, <3>5, Seven DEF CloneWriter, Typed
    <3> QED BY <1>5, <3>1, <3>2, <3>3, <3>4, <3>5 DEF Begin
  <2> QED BY <1>4, <2>1, <2>2
<1>6. CASE End
  <2>1. UNCHANGED <<config, reply, connect>>
    BY <1>6 DEF End, Shutdown, Stop, LeaveRaw, WaitForShell, Exit
  <2>2. pc'.main \in {"stop", "leave", "leave_failed", "wait", "failed", "join", "exited"}
    <3>1. \E from, to : Goes("main", from, to)
            /\ to \in {"stop", "leave", "leave_failed", "wait", "failed", "join", "exited"}
      BY <1>6 DEF End, Shutdown, Stop, LeaveRaw, WaitForShell, Exit
    <3> QED BY <1>0, <3>1, GoesFacts, Seven
  <2> QED BY <1>4, <2>1, <2>2
<1>7. CASE Output \/ Stdin \/ Redraw \/ ShowStatus \/ Resize \/ Input \/ Transport
           \/ ShellSteps \/ UNCHANGED vars
  <2>1. UNCHANGED <<config, reply, connect>>
    BY <1>7 DEF Output, ReadOutput, DrawOutput, SendReplies, Stdin, Redraw, ShowStatus, Resize,
      NoticeResize, SendResize, Input, TakeInput, WriteInput, Transport, Connects, RemoteInput,
      Receives, TellStatus, SeesShutdown, ShellSteps, ShellWrites, ShellReads, ShellEnds, vars
  <2>2. pc'.main = pc.main
    <3>1. \/ pc' = pc
          \/ \E thread \in Threads \ {"main"} : \E from, to : Goes(thread, from, to)
      BY <1>7, Seven DEF Output, ReadOutput, DrawOutput, SendReplies, Stdin, Redraw, ShowStatus,
        Resize, NoticeResize, SendResize, Input, TakeInput, WriteInput, Transport, Connects,
        RemoteInput, Receives, TellStatus, SeesShutdown, ShellSteps, ShellWrites, ShellReads,
        ShellEnds, vars
    <3> QED BY <1>0, <3>1, GoesFacts, Seven
  <2> QED BY <1>4, <2>1, <2>2
<1> QED BY <1>1, <1>2, <1>3, <1>5, <1>6, <1>7 DEF Next, Begin

LEMMA Connected == Spec => []ConnectOK
<1>1. IInv /\ ConnectOK /\ [Next]_vars => ConnectOK' BY NextConnect
<1> QED BY <1>1, InitConnect, Inductive, PTL DEF Spec

\* For every command line: the viewers' link, the host's connection and the command
\* printed at the end lead to one session (resolve_connection, viewer_url_from_websocket
\* and reconnect_command).
THEOREM OneSessionForAll == Spec => []SameSession
<1>1. ConnectOK => SameSession
  <2> SUFFICES ASSUME ConnectOK, connect # None
               PROVE  LET command == reconnect_command(connect.viewer)
                          again   == resolve_connection(command, None)
                      IN  /\ command # None
                          /\ again.viewer = connect.viewer
                          /\ again.host = [connect.host EXCEPT !.query = FALSE]
    BY DEF SameSession
  <2>1. Sound(config) /\ connect = resolve_connection(config, reply)
        /\ (Creates(config) => reply.session \in SessionId)
    BY RepliesAssumption DEF ConnectOK, Response
  <2> QED BY <2>1, OneSession
<1> QED BY <1>1, Connected, PTL

\* The types of the agent's state, the bounds of its queues among them, and that its host
\* connects to a WebSocket.
THEOREM TypeCorrect == Spec => []TypeOK
<1>1. IInv /\ ConnectOK => TypeOK
  <2> SUFFICES ASSUME IInv, ConnectOK PROVE TypeOK OBVIOUS
  <2>1. connect = None \/ connect.host.scheme \in {"ws", "wss"}
    <3> SUFFICES ASSUME connect # None PROVE connect.host.scheme \in {"ws", "wss"}
      OBVIOUS
    <3>1. Sound(config) /\ connect = resolve_connection(config, reply)
          /\ (Creates(config) => reply.session \in SessionId)
      BY RepliesAssumption DEF ConnectOK, Response
    <3> QED BY <3>1, OneSession
  <2>2. input \in UNION {[1 .. n -> PtyInput] : n \in 0 .. InputCapacity}
    <3>1. input \in [1 .. Len(input) -> PtyInput] /\ Len(input) \in Nat
      BY DEF IInv, Typed
    <3>2. Len(input) \in 0 .. InputCapacity BY <3>1, Capacities DEF IInv, Typed
    <3> QED BY <3>1, <3>2
  <2>3. DOMAIN pc = Threads BY DEF IInv, Typed
  <2> QED BY <2>1, <2>2, <2>3 DEF IInv, Typed, TypeOK
<1> QED BY <1>1, Connected, Inductive, PTL

----------------------------------------------------------------------------
(* The HTTP response (read_http_response, decode_chunked_body): from its   *)
(* end, what the turns at the size line of a chunk lead to is the rest of  *)
(* the message, or an error, or a panic for a size near the largest usize. *)

\* What a size line can say, and what a body consists of.
Said == {Bad} \cup (0 .. MaxUsize)
Symbol == {Size(n) : n \in Said} \cup {Byte(k, j) : k \in Nat, j \in Nat} \cup {CR, LF}

LEMMA SymbolFacts ==
  /\ CR \in Symbol /\ LF \in Symbol /\ CR # LF
  /\ \A n \in Said : Size(n) \in Symbol /\ Size(n).t = "size" /\ Size(n).n = n /\ Size(n) # CR
  /\ \A k, j \in Nat : Byte(k, j) \in Symbol
  /\ \A x \in Symbol : x.t = "size" => x.n \in Said
<1>1. CR.t = "cr" /\ LF.t = "lf" /\ \A n : Size(n).t = "size" /\ Size(n).n = n
  BY DEF CR, LF, Size
<1>2. \A k, j : Byte(k, j).t = "byte" BY DEF Byte
<1> QED BY <1>1, <1>2 DEF Symbol

LEMMA ChunksType ==
  ASSUME NEW r \in Response
  PROVE  /\ Len(r.chunks) \in Nat /\ DOMAIN r.chunks = 1 .. Len(r.chunks)
         /\ \A k \in 1 .. Len(r.chunks) :
              r.chunks[k].length \in Nat \ {0} /\ r.chunks[k].says \in Said
<1> DEFINE Chunk == [length : Nat \ {0}, says : {Bad} \cup (0 .. MaxUsize)]
<1>1. r.chunks \in Seq(Chunk) BY DEF Response
<1>2. \A c \in Chunk : c.length \in Nat \ {0} /\ c.says \in Said BY DEF Said
<1> HIDE DEF Chunk
<1>3. \A k \in 1 .. Len(r.chunks) : r.chunks[k] \in Chunk BY <1>1, ElementOfSeq
<1> QED BY <1>1, <1>2, <1>3

LEMMA Joined ==
  ASSUME NEW X, NEW a \in Seq(X), NEW b \in Seq(X)
  PROVE  /\ a \o b \in Seq(X) /\ Len(a \o b) = Len(a) + Len(b)
         /\ \A i \in 1 .. Len(a) : (a \o b)[i] = a[i]
         /\ \A i \in 1 .. Len(b) : (a \o b)[Len(a) + i] = b[i]
<1> DEFINE s == a \o b
           n == Len(a)
           m == Len(b)
<1>1. /\ s \in Seq(X) /\ Len(s) = n + m
      /\ \A i \in 1 .. n + m : s[i] = IF i <= n THEN a[i] ELSE b[i - n]
  BY ConcatProperties
<1>2. n \in Nat /\ m \in Nat OBVIOUS
<1> HIDE DEF s, n, m
<1>3. \A i \in 1 .. n : i \in 1 .. n + m /\ i <= n BY <1>2
<1>4. \A i \in 1 .. m : n + i \in 1 .. n + m /\ ~(n + i <= n) /\ (n + i) - n = i BY <1>2
<1>5. /\ \A i \in 1 .. n : s[i] = a[i]
      /\ \A i \in 1 .. m : s[n + i] = b[i]
  BY <1>1, <1>3, <1>4
<1> QED BY <1>1, <1>5 DEF s, n, m

LEMMA ChunkFacts ==
  ASSUME NEW r \in Response, NEW k \in 1 .. Len(r.chunks)
  PROVE  LET c == r.chunks[k]
             s == chunk(r, k)
         IN  /\ c.length \in Nat \ {0} /\ c.says \in Said
             /\ s \in Seq(Symbol)
             /\ r.chunked =>
                  /\ Len(s) = c.length + 3 /\ s[1] = Size(c.says)
                  /\ \A j \in 1 .. c.length : s[j + 1] = Byte(k, j)
                  /\ s[c.length + 2] = CR /\ s[c.length + 3] = LF
             /\ ~r.chunked =>
                  Len(s) = c.length /\ \A j \in 1 .. c.length : s[j] = Byte(k, j)
<1> DEFINE l == r.chunks[k].length
           m == r.chunks[k].says
           data == [j \in 1 .. l |-> Byte(k, j)]
<1>1. l \in Nat \ {0} /\ m \in Said /\ k \in Nat BY ChunksType
<1>2. data \in Seq(Symbol) /\ Len(data) = l /\ \A j \in 1 .. l : data[j] = Byte(k, j)
  <2>1. \A j \in 1 .. l : Byte(k, j) \in Symbol BY <1>1, SymbolFacts
  <2>2. data \in [1 .. l -> Symbol] BY <2>1
  <2> QED BY <1>1, <2>2
<1>3. chunk(r, k) = IF r.chunked THEN <<Size(m)>> \o data \o <<CR, LF>> ELSE data
  BY DEF chunk
<1> DEFINE a == <<Size(m)>>
           z == <<CR, LF>>
<1>4. /\ a \in Seq(Symbol) /\ Len(a) = 1 /\ a[1] = Size(m)
      /\ z \in Seq(Symbol) /\ Len(z) = 2 /\ z[1] = CR /\ z[2] = LF
  <2>1. Size(m) \in Symbol /\ CR \in Symbol /\ LF \in Symbol BY <1>1, SymbolFacts
  <2> QED BY <2>1
<1> HIDE DEF l, m, data, a, z
<1> DEFINE d == a \o data
<1>5. /\ d \in Seq(Symbol) /\ Len(d) = l + 1 /\ d[1] = Size(m)
      /\ \A j \in 1 .. l : d[j + 1] = Byte(k, j)
  <2>1. /\ d \in Seq(Symbol) /\ Len(d) = Len(a) + Len(data)
        /\ \A i \in 1 .. Len(a) : d[i] = a[i]
        /\ \A j \in 1 .. Len(data) : d[Len(a) + j] = data[j]
    <3>1. a \in Seq(Symbol) /\ data \in Seq(Symbol) BY <1>2, <1>4
    <3> QED BY <3>1, Joined
  <2> HIDE DEF d
  <2>2. /\ d \in Seq(Symbol) /\ Len(d) = 1 + l
        /\ \A i \in 1 .. 1 : d[i] = a[i]
        /\ \A j \in 1 .. l : d[1 + j] = data[j]
    BY <1>2, <1>4, <2>1
  <2>3. 1 \in 1 .. 1 /\ 1 + l = l + 1 /\ \A j \in 1 .. l : 1 + j = j + 1 BY <1>1
  <2> QED BY <1>2, <1>4, <2>2, <2>3
<1> HIDE DEF d
<1> DEFINE s == d \o z
<1>6. /\ s \in Seq(Symbol) /\ Len(s) = (l + 1) + 2
      /\ \A i \in 1 .. l + 1 : s[i] = d[i]
      /\ \A i \in 1 .. 2 : s[(l + 1) + i] = z[i]
  <2>1. /\ s \in Seq(Symbol) /\ Len(s) = Len(d) + Len(z)
        /\ \A i \in 1 .. Len(d) : s[i] = d[i]
        /\ \A i \in 1 .. Len(z) : s[Len(d) + i] = z[i]
    <3>1. d \in Seq(Symbol) /\ z \in Seq(Symbol) BY <1>4, <1>5
    <3> QED BY <3>1, Joined
  <2> HIDE DEF s
  <2> QED BY <1>4, <1>5, <2>1
<1> HIDE DEF s
<1>7. s[1] = Size(m) /\ \A j \in 1 .. l : s[j + 1] = Byte(k, j)
  <2>1. 1 \in 1 .. l + 1 BY <1>1
  <2>2. \A j \in 1 .. l : j + 1 \in 1 .. l + 1 BY <1>1
  <2> QED BY <1>5, <1>6, <2>1, <2>2
<1>8. s[l + 2] = CR /\ s[l + 3] = LF /\ Len(s) = l + 3
  <2>1. 1 \in 1 .. 2 /\ 2 \in 1 .. 2 /\ (l + 1) + 1 = l + 2 /\ (l + 1) + 2 = l + 3
    BY <1>1
  <2> QED BY <1>4, <1>6, <2>1
<1>9. chunk(r, k) = IF r.chunked THEN s ELSE data BY <1>3 DEF s, d, a, z
<1>10. /\ l \in Nat \ {0} /\ m \in Said
       /\ chunk(r, k) \in Seq(Symbol)
       /\ r.chunked =>
            /\ Len(chunk(r, k)) = l + 3 /\ chunk(r, k)[1] = Size(m)
            /\ \A j \in 1 .. l : chunk(r, k)[j + 1] = Byte(k, j)
            /\ chunk(r, k)[l + 2] = CR /\ chunk(r, k)[l + 3] = LF
       /\ ~r.chunked =>
            Len(chunk(r, k)) = l /\ \A j \in 1 .. l : chunk(r, k)[j] = Byte(k, j)
  BY <1>1, <1>2, <1>6, <1>7, <1>8, <1>9
<1> QED BY <1>10 DEF l, m

\* What stands behind the last chunk.
Closing(r) == IF r.chunked THEN <<Size(0), CR, LF>> ELSE <<>>

LEMMA ClosingFacts ==
  ASSUME NEW r \in Response
  PROVE  /\ Closing(r) \in Seq(Symbol)
         /\ r.chunked => Len(Closing(r)) = 3 /\ Closing(r)[1] = Size(0)
         /\ ~r.chunked => Closing(r) = <<>>
<1>1. 0 \in Said BY ConnectionAssumption DEF Said
<1>2. Size(0) \in Symbol /\ CR \in Symbol /\ LF \in Symbol BY <1>1, SymbolFacts
<1> QED BY <1>2 DEF Closing

\* The recursion of frames, whose values are sequences.
LEMMA FramesFacts ==
  ASSUME NEW r \in Response
  PROVE  LET n == Len(r.chunks)
             f == frames(r)
         IN  /\ \A k \in 1 .. n + 1 : f[k] \in Seq(Symbol)
             /\ \A k \in 1 .. n : f[k] = chunk(r, k) \o f[k + 1]
             /\ f[n + 1] = Closing(r)
<1> DEFINE n == Len(r.chunks)
           f == frames(r)
           U(h, k) == IF k <= n THEN chunk(r, k) \o h[k + 1] ELSE Closing(r)
           G == {m \in 0 .. n : \E h : \A k \in (n + 1) - m .. n + 1 : h[k] = U(h, k)}
<1>1. n \in Nat BY ChunksType
<1>2. f = CHOOSE h : h = [k \in 1 .. n + 1 |-> U(h, k)] BY DEF frames, Closing
<1> HIDE DEF n, f
<1>3. 0 \in G
  <2> DEFINE h == [k \in 1 .. n + 1 |-> Closing(r)]
  <2>1. \A k \in (n + 1) - 0 .. n + 1 : k = n + 1 /\ ~(k <= n) /\ k \in 1 .. n + 1 BY <1>1
  <2>2. \A k \in 1 .. n + 1 : h[k] = Closing(r) OBVIOUS
  <2> HIDE DEF h
  <2>3. \A k \in (n + 1) - 0 .. n + 1 : h[k] = U(h, k) BY <2>1, <2>2
  <2> QED BY <1>1, <2>3
<1>4. ASSUME NEW m \in 1 .. n, m - 1 \in G PROVE m \in G
  <2> DEFINE i == (n + 1) - m
  <2>1. PICK h : \A k \in (n + 1) - (m - 1) .. n + 1 : h[k] = U(h, k) BY <1>4
  <2> DEFINE g == [k \in 1 .. n + 1 |-> IF k = i THEN chunk(r, i) \o h[i + 1] ELSE h[k]]
  <2>2. i \in 1 .. n /\ i + 1 = (n + 1) - (m - 1) /\ m \in 0 .. n BY <1>1
  <2>3. \A k \in 1 .. n + 1 : g[k] = IF k = i THEN chunk(r, i) \o h[i + 1] ELSE h[k] OBVIOUS
  <2> HIDE DEF g, i
  <2>4. ASSUME NEW k \in i .. n + 1 PROVE g[k] = U(g, k)
    <3>1. i <= n /\ k \in 1 .. n + 1 /\ (k <= n => k + 1 \in 1 .. n + 1 /\ k + 1 # i) BY <1>1, <2>2
    <3>2. k <= n => g[k + 1] = h[k + 1] BY <2>3, <3>1
    <3>3. CASE k = i
      <4>1. g[k] = chunk(r, k) \o h[k + 1] BY <2>3, <3>1, <3>3
      <4> QED BY <3>1, <3>2, <3>3, <4>1
    <3>4. CASE k # i
      <4>1. k \in i + 1 .. n + 1 BY <1>1, <2>2, <3>4
      <4>2. g[k] = U(h, k) BY <2>1, <2>2, <2>3, <3>1, <3>4, <4>1
      <4> QED BY <3>1, <3>2, <4>2
    <3> QED BY <3>3, <3>4
  <2>5. \A k \in (n + 1) - m .. n + 1 : g[k] = U(g, k) BY <2>4 DEF i
  <2> QED BY <2>2, <2>5
<1>5. n \in G
  <2> HIDE DEF G
  <2>1. \A m \in 0 .. n : m \in G BY <1>1, <1>3, <1>4, UpTo
  <2> QED BY <1>1, <2>1
<1>6. \E h : h = [k \in 1 .. n + 1 |-> U(h, k)]
  <2>1. PICK h : \A k \in (n + 1) - n .. n + 1 : h[k] = U(h, k) BY <1>5
  <2> DEFINE g == [k \in 1 .. n + 1 |-> h[k]]
  <2>2. \A k \in 1 .. n + 1 : g[k] = U(h, k) BY <1>1, <2>1
  <2>3. \A k \in 1 .. n + 1 : g[k] = h[k] OBVIOUS
  <2>4. g = [k \in 1 .. n + 1 |-> g[k]] OBVIOUS
  <2> HIDE DEF g
  <2>5. \A k \in 1 .. n + 1 : g[k] = U(g, k)
    <3> TAKE k \in 1 .. n + 1
    <3>1. k <= n => k + 1 \in 1 .. n + 1 BY <1>1
    <3> QED BY <2>2, <2>3, <3>1
  <2>6. g = [k \in 1 .. n + 1 |-> U(g, k)] BY <2>4, <2>5
  <2> QED BY <2>6
<1>7. f = [k \in 1 .. n + 1 |-> U(f, k)] BY <1>2, <1>6
<1>8. \A k \in 1 .. n + 1 : f[k] = U(f, k)
  <2> DEFINE e == [k \in 1 .. n + 1 |-> U(f, k)]
  <2>1. \A k \in 1 .. n + 1 : e[k] = U(f, k) OBVIOUS
  <2>2. f = e BY <1>7
  <2> HIDE DEF e
  <2> QED BY <2>1, <2>2
<1>9. \A k \in 1 .. n : f[k] = chunk(r, k) \o f[k + 1]
  <2>1. \A k \in 1 .. n : k \in 1 .. n + 1 /\ k <= n BY <1>1
  <2> QED BY <1>8, <2>1
<1>10. f[n + 1] = Closing(r)
  <2>1. n + 1 \in 1 .. n + 1 /\ ~(n + 1 <= n) BY <1>1
  <2> QED BY <1>8, <2>1
<1> DEFINE H == {m \in 0 .. n : f[(n + 1) - m] \in Seq(Symbol)}
<1>11. 0 \in H
  <2>1. 0 \in 0 .. n /\ (n + 1) - 0 = n + 1 BY <1>1
  <2> QED BY <1>10, <2>1, ClosingFacts
<1>12. ASSUME NEW m \in 1 .. n, m - 1 \in H PROVE m \in H
  <2> DEFINE i == (n + 1) - m
  <2>1. i \in 1 .. n /\ (n + 1) - (m - 1) = i + 1 /\ m \in 0 .. n BY <1>1
  <2>2. f[i + 1] \in Seq(Symbol) BY <1>12, <2>1
  <2>3. chunk(r, i) \in Seq(Symbol) BY <2>1, ChunkFacts DEF n
  <2> HIDE DEF i
  <2>4. f[i] \in Seq(Symbol) BY <1>9, <2>1, <2>2, <2>3, ConcatProperties
  <2> QED BY <2>1, <2>4 DEF i
<1>13. \A m \in 0 .. n : m \in H
  <2> HIDE DEF H
  <2> QED BY <1>1, <1>11, <1>12, UpTo
<1>14. \A k \in 1 .. n + 1 : f[k] \in Seq(Symbol)
  <2> TAKE k \in 1 .. n + 1
  <2>1. (n + 1) - k \in 0 .. n /\ (n + 1) - ((n + 1) - k) = k BY <1>1
  <2> QED BY <1>13, <2>1
<1> QED BY <1>9, <1>10, <1>14 DEF n, f

\* What is sent ends with the symbols from chunk k on.
LEMMA FramedEnds ==
  ASSUME NEW r \in Response, NEW k \in 1 .. Len(r.chunks) + 1
  PROVE  LET all  == framed(r)
             rest == frames(r)[k]
         IN  /\ all \in Seq(Symbol) /\ rest \in Seq(Symbol) /\ Len(rest) <= Len(all)
             /\ \A i \in 1 .. Len(rest) : all[(Len(all) - Len(rest)) + i] = rest[i]
<1> DEFINE n == Len(r.chunks)
           f == frames(r)
           all == f[1]
           S(i) == /\ Len(f[i]) <= Len(all)
                   /\ \A j \in 1 .. Len(f[i]) : all[(Len(all) - Len(f[i])) + j] = f[i][j]
           G == {m \in 0 .. n : S(m + 1)}
<1>1. n \in Nat BY ChunksType
<1>2. \A i \in 1 .. n + 1 : f[i] \in Seq(Symbol) BY FramesFacts
<1>3. \A i \in 1 .. n : f[i] = chunk(r, i) \o f[i + 1] /\ chunk(r, i) \in Seq(Symbol)
  BY FramesFacts, ChunkFacts
<1> HIDE DEF n, f
<1>4. all \in Seq(Symbol) /\ Len(all) \in Nat
  <2>1. 1 \in 1 .. n + 1 BY <1>1
  <2> QED BY <1>2, <2>1
<1>5. 0 \in G
  <2>1. 0 \in 0 .. n /\ 0 + 1 = 1 /\ Len(all) - Len(all) = 0 BY <1>1, <1>4
  <2>2. \A j \in 1 .. Len(all) : 0 + j = j BY <1>4
  <2>3. S(1) BY <1>4, <2>1, <2>2
  <2> QED BY <2>1, <2>3
<1>6. ASSUME NEW m \in 1 .. n, m - 1 \in G PROVE m \in G
  <2> DEFINE a == chunk(r, m)
             b == f[m + 1]
  <2>1. (m - 1) + 1 = m /\ m \in 1 .. n /\ m \in 1 .. n + 1 /\ m + 1 \in 1 .. n + 1 /\ m \in 0 .. n
    BY <1>1
  <2>2. S(m) BY <1>6, <2>1
  <2>3. f[m] = a \o b /\ a \in Seq(Symbol) /\ b \in Seq(Symbol) BY <1>2, <1>3, <2>1
  <2> HIDE DEF a, b, all
  <2>4. Len(f[m]) = Len(a) + Len(b) /\ \A j \in 1 .. Len(b) : f[m][Len(a) + j] = b[j]
    BY <2>3, Joined
  <2>5. Len(a) \in Nat /\ Len(b) \in Nat BY <2>3
  <2>6. Len(b) <= Len(all) BY <1>4, <2>2, <2>4, <2>5
  <2>7. ASSUME NEW j \in 1 .. Len(b) PROVE all[(Len(all) - Len(b)) + j] = b[j]
    <3>1. /\ Len(a) + j \in 1 .. Len(f[m])
          /\ (Len(all) - Len(f[m])) + (Len(a) + j) = (Len(all) - Len(b)) + j
      BY <1>4, <2>4, <2>5
    <3> QED BY <2>2, <2>4, <3>1
  <2>8. S(m + 1) BY <2>6, <2>7 DEF b
  <2> QED BY <2>1, <2>8
<1>7. \A m \in 0 .. n : m \in G
  <2> HIDE DEF G
  <2> QED BY <1>1, <1>5, <1>6, UpTo
<1>8. k - 1 \in 0 .. n /\ (k - 1) + 1 = k /\ k \in 1 .. n + 1 BY <1>1 DEF n
<1>9. S(k) BY <1>7, <1>8
<1> QED BY <1>2, <1>4, <1>8, <1>9 DEF framed, f

\* The chunks that are left, when the message is sent in chunks.
LEMMA ChunkedFacts ==
  ASSUME NEW r \in Response, r.chunked
  PROVE  LET n == Len(r.chunks)
             f == frames(r)
         IN  /\ \A k \in 1 .. n :
                  LET l == r.chunks[k].length
                  IN  /\ Len(f[k]) = (l + 3) + Len(f[k + 1])
                      /\ f[k][1] = Size(r.chunks[k].says)
                      /\ \A j \in 1 .. l : f[k][j + 1] = Byte(k, j)
                      /\ f[k][l + 2] = CR /\ f[k][l + 3] = LF
             /\ \A k \in 1 .. n + 1 : Len(f[k]) \in Nat /\ Len(f[k]) >= 3
             /\ Len(f[n + 1]) = 3 /\ f[n + 1][1] = Size(0)
<1> DEFINE n == Len(r.chunks)
           f == frames(r)
           len(k) == r.chunks[k].length
<1>1. n \in Nat BY ChunksType
<1>2. \A k \in 1 .. n + 1 : f[k] \in Seq(Symbol) BY FramesFacts
<1>3. Len(f[n + 1]) = 3 /\ f[n + 1][1] = Size(0) BY FramesFacts, ClosingFacts
<1>4. ASSUME NEW k \in 1 .. n
      PROVE  /\ len(k) \in Nat
             /\ Len(f[k]) = (len(k) + 3) + Len(f[k + 1])
             /\ f[k][1] = Size(r.chunks[k].says)
             /\ \A j \in 1 .. len(k) : f[k][j + 1] = Byte(k, j)
             /\ f[k][len(k) + 2] = CR /\ f[k][len(k) + 3] = LF
  <2> DEFINE a == chunk(r, k)
             b == f[k + 1]
             l == len(k)
  <2>1. f[k] = a \o b BY FramesFacts
  <2>2. /\ l \in Nat \ {0} /\ a \in Seq(Symbol) /\ Len(a) = l + 3
        /\ a[1] = Size(r.chunks[k].says)
        /\ \A j \in 1 .. l : a[j + 1] = Byte(k, j)
        /\ a[l + 2] = CR /\ a[l + 3] = LF
    BY ChunkFacts
  <2>3. b \in Seq(Symbol)
    <3>1. k + 1 \in 1 .. n + 1 BY <1>1
    <3> QED BY <1>2, <3>1
  <2> HIDE DEF a, b, l, n, f
  <2>4. Len(f[k]) = Len(a) + Len(b) /\ \A i \in 1 .. Len(a) : f[k][i] = a[i]
    <3>1. a \in Seq(Symbol) /\ b \in Seq(Symbol) BY <2>2, <2>3
    <3>2. Len(a \o b) = Len(a) + Len(b) /\ \A i \in 1 .. Len(a) : (a \o b)[i] = a[i]
      BY <3>1, Joined
    <3> QED BY <2>1, <3>2
  <2>5. /\ 1 \in 1 .. l + 3 /\ l + 2 \in 1 .. l + 3 /\ l + 3 \in 1 .. l + 3
        /\ \A j \in 1 .. l : j + 1 \in 1 .. l + 3
    BY <2>2
  <2>6. /\ l \in Nat /\ Len(f[k]) = (l + 3) + Len(b)
        /\ f[k][1] = Size(r.chunks[k].says)
        /\ \A j \in 1 .. l : f[k][j + 1] = Byte(k, j)
        /\ f[k][l + 2] = CR /\ f[k][l + 3] = LF
    BY <2>2, <2>4, <2>5
  <2> QED BY <2>6 DEF b, l
<1>5. ASSUME NEW k \in 1 .. n + 1 PROVE Len(f[k]) \in Nat /\ Len(f[k]) >= 3
  <2>1. f[k] \in Seq(Symbol) BY <1>2
  <2>2. Len(f[k]) \in Nat BY <2>1
  <2>3. CASE k = n + 1
    <3>1. f[k] = f[n + 1] BY <2>3
    <3>2. Len(f[n + 1]) = 3 BY <1>3
    <3> HIDE DEF n, f
    <3>3. Len(f[k]) = 3 BY <3>1, <3>2
    <3> QED BY <3>3
  <2>4. CASE k # n + 1
    <3>1. k \in 1 .. n /\ k + 1 \in 1 .. n + 1
      <4> HIDE DEF n
      <4> QED BY <1>1, <2>4
    <3>2. f[k + 1] \in Seq(Symbol) BY <1>2, <3>1
    <3>3. Len(f[k + 1]) \in Nat BY <3>2
    <3> HIDE DEF n, f
    <3>4. len(k) \in Nat /\ Len(f[k]) = (len(k) + 3) + Len(f[k + 1]) BY <1>4, <3>1
    <3> HIDE DEF len
    <3> QED BY <3>3, <3>4
  <2> QED BY <2>2, <2>3, <2>4
<1> QED BY <1>3, <1>4, <1>5

\* The message itself.
Plain(r) == [r EXCEPT !.chunked = FALSE]

LEMMA PlainFacts ==
  ASSUME NEW r \in Response
  PROVE  LET n == Len(r.chunks)
             g == frames(Plain(r))
         IN  /\ Plain(r) \in Response
             /\ g[n + 1] = <<>>
             /\ \A k \in 1 .. n + 1 : g[k] \in Seq(Symbol)
             /\ \A k \in 1 .. n :
                  LET data == [j \in 1 .. r.chunks[k].length |-> Byte(k, j)]
                  IN  /\ g[k] = data \o g[k + 1]
                      /\ Len(g[k]) = r.chunks[k].length + Len(g[k + 1])
             /\ ~r.chunked => framed(r) = framed(Plain(r))
<1> DEFINE n == Len(r.chunks)
           p == Plain(r)
           g == frames(p)
<1>1. p \in Response BY DEF Plain, Response
<1>2. p.chunks = r.chunks /\ p.chunked = FALSE BY DEF Plain, Response
<1>3. ~r.chunked => p = r
  <2>1. r.chunked \in BOOLEAN BY DEF Response
  <2> QED BY <2>1 DEF Plain, Response
<1> HIDE DEF p
<1>4. /\ g[n + 1] = Closing(p)
      /\ \A k \in 1 .. n + 1 : g[k] \in Seq(Symbol)
      /\ \A k \in 1 .. n : g[k] = chunk(p, k) \o g[k + 1]
  BY <1>1, <1>2, FramesFacts
<1>5. Closing(p) = <<>> BY <1>1, <1>2, ClosingFacts
<1>6. ASSUME NEW k \in 1 .. n
      PROVE  LET data == [j \in 1 .. r.chunks[k].length |-> Byte(k, j)]
             IN  /\ g[k] = data \o g[k + 1]
                 /\ Len(g[k]) = r.chunks[k].length + Len(g[k + 1])
  <2>1. k \in 1 .. Len(p.chunks) BY <1>2
  <2>2. chunk(p, k) \in Seq(Symbol) /\ Len(chunk(p, k)) = r.chunks[k].length
    BY <1>1, <1>2, <2>1, ChunkFacts
  <2>3. chunk(p, k) = [j \in 1 .. r.chunks[k].length |-> Byte(k, j)] BY <1>2 DEF chunk
  <2>4. g[k + 1] \in Seq(Symbol)
    <3>1. Len(r.chunks) \in Nat BY ChunksType
    <3>2. k + 1 \in 1 .. n + 1 BY <3>1
    <3> QED BY <1>4, <3>2
  <2>5. g[k] = chunk(p, k) \o g[k + 1] BY <1>4
  <2> HIDE DEF g
  <2>6. Len(g[k]) = Len(chunk(p, k)) + Len(g[k + 1])
    <3>1. Len(chunk(p, k) \o g[k + 1]) = Len(chunk(p, k)) + Len(g[k + 1])
      BY <2>2, <2>4, Joined
    <3> QED BY <2>5, <3>1
  <2> QED BY <2>2, <2>3, <2>5, <2>6
<1> QED BY <1>1, <1>3, <1>4, <1>5, <1>6 DEF p

\* What a turn leads to depends on the turns behind it only.
LEMMA TurnLooksAhead ==
  ASSUME NEW body \in Seq(Symbol), NEW i \in 1 .. Len(body) + 1, NEW n, NEW g, NEW h,
         \A j \in i + 1 .. Len(body) + 1 : g[j] = h[j]
  PROVE  turn(body, g, i, n) = turn(body, h, i, n)
<1> DEFINE size == body[i].n
           tail == SubSeq(body, i + 1, Len(body))
           at == i + 1 + behind(size)
           T(x) ==
             IF i > Len(body) \/ body[i].t # "size" \/ size = Bad THEN Error
             ELSE IF size = 0 THEN Data(<<>>)
             ELSE IF Len(tail) < behind(size) THEN Error
             ELSE IF size > behind(size) THEN Panic
             ELSE IF SubSeq(tail, size + 1, behind(size)) # <<CR, LF>> \/ n + size > MaxBody
             THEN Error
             ELSE IF x.kind = "data" THEN Data(SubSeq(tail, 1, size) \o x.bytes)
             ELSE x
<1>1. turn(body, g, i, n) = T(g[at][n + size]) /\ turn(body, h, i, n) = T(h[at][n + size])
  BY DEF turn
<1>2. CASE i > Len(body) \/ body[i].t # "size" \/ size = Bad BY <1>1, <1>2
<1>3. CASE ~(i > Len(body) \/ body[i].t # "size" \/ size = Bad)
  <2> DEFINE L == Len(body)
  <2>1. L \in Nat /\ i \in 1 .. L BY <1>3
  <2>2. body[i] \in Symbol BY <2>1, ElementOfSeq
  <2>3. size \in Said BY <1>3, <2>2, SymbolFacts
  <2>4. size \in Nat BY <1>3, <2>3, ConnectionAssumption DEF Said
  <2>5. behind(size) \in Nat BY <2>4, ConnectionAssumption DEF behind
  <2>6. Len(tail) = L - i BY <2>1
  <2>7. CASE Len(tail) < behind(size) BY <1>1, <2>7
  <2>8. CASE ~(Len(tail) < behind(size))
    <3> HIDE DEF size, tail, L
    <3>1. at \in i + 1 .. L + 1 BY <2>1, <2>5, <2>6, <2>8
    <3>2. g[at] = h[at] BY <3>1 DEF L
    <3> HIDE DEF at, T
    <3> QED BY <1>1, <3>2
  <2> QED BY <2>7, <2>8
<1> QED BY <1>2, <1>3

\* The recursion of decode_chunked_body.
LEMMA DecodeFacts ==
  ASSUME NEW body \in Seq(Symbol)
  PROVE  \E from :
           /\ decode_chunked_body(body) = from[1][0]
           /\ \A i \in 1 .. Len(body) + 1 : \A n \in 0 .. MaxBody :
                from[i][n] = turn(body, from, i, n)
<1> DEFINE L == Len(body)
           U(h, i) == [n \in 0 .. MaxBody |-> turn(body, h, i, n)]
           G == {m \in 0 .. L : \E h : \A i \in (L + 1) - m .. L + 1 : h[i] = U(h, i)}
           f == CHOOSE h : h = [i \in 1 .. L + 1 |-> U(h, i)]
<1>1. L \in Nat OBVIOUS
<1>2. decode_chunked_body(body) = f[1][0] BY DEF decode_chunked_body
<1>3. ASSUME NEW i \in 1 .. L + 1, NEW g, NEW h, \A j \in i + 1 .. L + 1 : g[j] = h[j]
      PROVE  U(g, i) = U(h, i)
  <2>1. \A n \in 0 .. MaxBody : turn(body, g, i, n) = turn(body, h, i, n)
    BY <1>3, TurnLooksAhead
  <2> QED BY <2>1
<1> HIDE DEF L, U, f
<1>4. 0 \in G
  <2> DEFINE h == [i \in 1 .. L + 1 |-> U(<<>>, i)]
  <2>1. h[L + 1] = U(<<>>, L + 1)
    <3>1. L + 1 \in 1 .. L + 1 BY <1>1
    <3> QED BY <3>1
  <2> HIDE DEF h
  <2>2. U(<<>>, L + 1) = U(h, L + 1)
    <3>1. L + 1 \in 1 .. L + 1 /\ \A j \in (L + 1) + 1 .. L + 1 : FALSE BY <1>1
    <3> QED BY <1>3, <3>1
  <2>3. \A i \in (L + 1) - 0 .. L + 1 : i = L + 1 BY <1>1
  <2>4. \A i \in (L + 1) - 0 .. L + 1 : h[i] = U(h, i) BY <2>1, <2>2, <2>3
  <2> QED BY <1>1, <2>4
<1>5. ASSUME NEW m \in 1 .. L, m - 1 \in G PROVE m \in G
  <2> DEFINE k == (L + 1) - m
  <2>1. PICK h : \A i \in (L + 1) - (m - 1) .. L + 1 : h[i] = U(h, i) BY <1>5
  <2> DEFINE g == [i \in 1 .. L + 1 |-> IF i = k THEN U(h, k) ELSE h[i]]
  <2>2. k \in 1 .. L /\ k + 1 = (L + 1) - (m - 1) /\ m \in 0 .. L BY <1>1
  <2>3. \A i \in 1 .. L + 1 : g[i] = IF i = k THEN U(h, k) ELSE h[i] OBVIOUS
  <2> HIDE DEF g, k
  <2>4. ASSUME NEW i \in k .. L + 1 PROVE g[i] = U(g, i)
    <3>1. i \in 1 .. L + 1 /\ \A j \in i + 1 .. L + 1 : j \in 1 .. L + 1 /\ j # k BY <1>1, <2>2
    <3>2. \A j \in i + 1 .. L + 1 : g[j] = h[j] BY <2>3, <3>1
    <3>3. U(g, i) = U(h, i) BY <1>3, <3>1, <3>2
    <3>4. CASE i = k BY <2>3, <3>1, <3>3, <3>4
    <3>5. CASE i # k
      <4>1. i \in (L + 1) - (m - 1) .. L + 1 BY <1>1, <2>2, <3>5
      <4> QED BY <2>1, <2>3, <3>1, <3>3, <3>5, <4>1
    <3> QED BY <3>4, <3>5
  <2>5. \A i \in (L + 1) - m .. L + 1 : g[i] = U(g, i) BY <2>4 DEF k
  <2> QED BY <2>2, <2>5
<1>6. L \in G
  <2> HIDE DEF G
  <2>1. \A m \in 0 .. L : m \in G BY <1>1, <1>4, <1>5, UpTo
  <2> QED BY <1>1, <2>1
<1>7. \E h : h = [i \in 1 .. L + 1 |-> U(h, i)]
  <2>1. PICK h : \A i \in (L + 1) - L .. L + 1 : h[i] = U(h, i) BY <1>6
  <2> DEFINE g == [i \in 1 .. L + 1 |-> h[i]]
  <2>2. \A i \in 1 .. L + 1 : g[i] = h[i] /\ h[i] = U(h, i) BY <1>1, <2>1
  <2>3. g = [i \in 1 .. L + 1 |-> g[i]] OBVIOUS
  <2> HIDE DEF g
  <2>4. \A i \in 1 .. L + 1 : g[i] = U(g, i)
    <3> TAKE i \in 1 .. L + 1
    <3>1. \A j \in i + 1 .. L + 1 : j \in 1 .. L + 1 BY <1>1
    <3>2. \A j \in i + 1 .. L + 1 : g[j] = h[j] BY <2>2, <3>1
    <3>3. U(g, i) = U(h, i) BY <1>3, <3>2
    <3> QED BY <2>2, <3>3
  <2>5. g = [i \in 1 .. L + 1 |-> U(g, i)] BY <2>3, <2>4
  <2> QED BY <2>5
<1>8. f = [i \in 1 .. L + 1 |-> U(f, i)] BY <1>7 DEF f
<1>9. \A i \in 1 .. L + 1 : f[i] = U(f, i)
  <2> DEFINE e == [i \in 1 .. L + 1 |-> U(f, i)]
  <2>1. \A i \in 1 .. L + 1 : e[i] = U(f, i) OBVIOUS
  <2>2. f = e BY <1>8
  <2> HIDE DEF e
  <2> QED BY <2>1, <2>2
<1>10. \A i \in 1 .. L + 1 : \A n \in 0 .. MaxBody : U(f, i)[n] = turn(body, f, i, n)
  BY DEF U
<1>11. \A i \in 1 .. L + 1 : \A n \in 0 .. MaxBody : f[i][n] = turn(body, f, i, n)
  BY <1>9, <1>10
<1> QED BY <1>2, <1>11 DEF L

LEMMA EndOfChunk ==
  ASSUME NEW t \in Seq(Symbol), NEW s \in Nat, s + 2 <= Len(t)
  PROVE  SubSeq(t, s + 1, s + 2) = <<CR, LF>> <=> (t[s + 1] = CR /\ t[s + 2] = LF)
<1> DEFINE q == SubSeq(t, s + 1, s + 2)
           z == <<CR, LF>>
<1>1. q \in Seq(Symbol) /\ Len(q) = 2 /\ q[1] = t[s + 1] /\ q[2] = t[s + 2]
  <2>1. /\ Len(t) \in Nat /\ s + 1 \in 1 .. Len(t) /\ s + 2 \in 1 .. Len(t)
        /\ (s + 2) - (s + 1) + 1 = 2
        /\ (s + 1) + 1 - 1 = s + 1 /\ (s + 1) + 2 - 1 = s + 2
    OBVIOUS
  <2> QED BY <2>1
<1>2. z \in Seq(Symbol) /\ Len(z) = 2 /\ z[1] = CR /\ z[2] = LF BY SymbolFacts
<1> HIDE DEF q, z
<1>3. q[1] = CR /\ q[2] = LF => q = z
  <2> SUFFICES ASSUME q[1] = CR, q[2] = LF PROVE q = z OBVIOUS
  <2>1. \A j \in 1 .. Len(q) : q[j] = z[j]
    <3>1. \A j \in 1 .. 2 : j = 1 \/ j = 2 OBVIOUS
    <3> QED BY <1>1, <1>2, <3>1
  <2>2. Len(q) = Len(z) BY <1>1, <1>2
  <2> QED BY <1>1, <1>2, <2>1, <2>2, SeqEqual
<1>4. q = z <=> (t[s + 1] = CR /\ t[s + 2] = LF) BY <1>1, <1>2, <1>3
<1> QED BY <1>4 DEF q, z

\* A response in chunks, of which as much arrives as is sent at most; no size line of it
\* misleads.
Framed(r) ==
  /\ r \in Response /\ r.chunked /\ r.arrived <= Len(framed(r))
  /\ \A k \in 1 .. Len(r.chunks) :
       r.chunks[k].says # r.chunks[k].length => ~Misleads(r.chunks[k].says, frames(r)[k])

\* v is what the chunks from k on are read as, when n bytes are decoded.
Reads(r, k, n, v) ==
  LET left  == k .. Len(r.chunks)
      whole == r.arrived >= Len(framed(r)) - 2
      bytes == frames(Plain(r))[k]
  IN  /\ v.kind = "panic" => \E j \in left : r.chunks[j].says >= MaxUsize - 1
      /\ v.kind = "data" <=>
           /\ whole /\ \A j \in left : r.chunks[j].says = r.chunks[j].length
           /\ n + Len(bytes) <= MaxBody
      /\ v.kind = "data" => v.bytes = bytes

\* The position of the size line of chunk k.
SizeAt(r, k) == (Len(framed(r)) - Len(frames(r)[k])) + 1

LEMMA Kinds ==
  /\ Error.kind = "error" /\ Panic.kind = "panic"
  /\ \A b : Data(b).kind = "data" /\ Data(b).bytes = b
BY DEF Error, Panic, Data

LEMMA Arrives ==
  ASSUME NEW r, Framed(r)
  PROVE  LET body == SubSeq(framed(r), 1, r.arrived)
         IN  /\ body \in Seq(Symbol) /\ Len(body) = r.arrived /\ r.arrived \in Nat
             /\ \A i \in 1 .. r.arrived : body[i] = framed(r)[i]
<1>1. r \in Response /\ r.arrived <= Len(framed(r)) BY DEF Framed
<1>2. r.arrived \in Nat BY <1>1 DEF Response
<1>3. framed(r) \in Seq(Symbol)
  <2>1. Len(r.chunks) \in Nat BY <1>1, ChunksType
  <2>2. 1 \in 1 .. Len(r.chunks) + 1 BY <2>1
  <2> QED BY <1>1, <2>2, FramedEnds
<1> DEFINE F == framed(r)
           a == r.arrived
<1> HIDE DEF F, a
<1>4. F \in Seq(Symbol) /\ a \in Nat /\ a <= Len(F) BY <1>1, <1>2, <1>3 DEF F, a
<1>5. /\ SubSeq(F, 1, a) \in Seq(Symbol) /\ Len(SubSeq(F, 1, a)) = a
      /\ \A i \in 1 .. a : SubSeq(F, 1, a)[i] = F[i]
  BY <1>4
<1> QED BY <1>4, <1>5 DEF F, a

\* The end of the message.
LEMMA LastTurn ==
  ASSUME NEW r, Framed(r), NEW then, NEW n \in 0 .. MaxBody,
         SizeAt(r, Len(r.chunks) + 1) <= r.arrived + 1
  PROVE  LET body == SubSeq(framed(r), 1, r.arrived)
             k    == Len(r.chunks) + 1
         IN  Reads(r, k, n, turn(body, then, SizeAt(r, k), n))
<1> DEFINE N == Len(r.chunks)
           F == framed(r)
           a == r.arrived
           body == SubSeq(F, 1, a)
           i == SizeAt(r, N + 1)
           v == turn(body, then, i, n)
           g == frames(Plain(r))[N + 1]
<1>1. r \in Response /\ r.chunked BY DEF Framed
<1>2. N \in Nat BY <1>1, ChunksType
<1>3. N + 1 \in 1 .. N + 1 /\ N + 1 .. N = {} BY <1>2
<1>4. Len(frames(r)[N + 1]) = 3 /\ frames(r)[N + 1][1] = Size(0) BY <1>1, ChunkedFacts
<1>5. /\ F \in Seq(Symbol) /\ 3 <= Len(F)
      /\ F[(Len(F) - 3) + 1] = Size(0)
  <2> DEFINE rest == frames(r)[N + 1]
  <2>1. /\ F \in Seq(Symbol) /\ Len(rest) <= Len(F)
        /\ \A j \in 1 .. Len(rest) : F[(Len(F) - Len(rest)) + j] = rest[j]
    BY <1>1, <1>3, FramedEnds
  <2>2. Len(rest) = 3 /\ rest[1] = Size(0) /\ 1 \in 1 .. 3 BY <1>4
  <2> HIDE DEF rest, F
  <2> QED BY <2>1, <2>2
<1>6. Len(F) \in Nat /\ i = (Len(F) - 3) + 1
  <2>1. i = (Len(F) - Len(frames(r)[N + 1])) + 1 BY DEF SizeAt
  <2> QED BY <1>4, <1>5, <2>1
<1>7. /\ body \in Seq(Symbol) /\ Len(body) = a /\ a \in Nat
      /\ \A j \in 1 .. a : body[j] = F[j]
  BY Arrives
<1>8. g = <<>> /\ Len(g) = 0 BY <1>1, PlainFacts
<1> HIDE DEF F, a, body, i, g, N
<1>9. CASE i > a
  <2>1. v = Error BY <1>7, <1>9 DEF turn
  <2>2. ~(a >= Len(F) - 2) BY <1>6, <1>7, <1>9
  <2>3. v.kind = "error" BY <2>1, Kinds
  <2> HIDE DEF v
  <2>4. Reads(r, N + 1, n, v) BY <2>2, <2>3 DEF Reads, F, a
  <2> QED BY <2>4 DEF v, body, F, a, i, N
<1>10. CASE ~(i > a)
  <2>1. i \in 1 .. a BY <1>5, <1>6, <1>7, <1>10
  <2>2. body[i] = Size(0) BY <1>5, <1>6, <1>7, <2>1
  <2>3. body[i].t = "size" /\ body[i].n = 0 /\ 0 # Bad
    <3>1. 0 \in Said BY ConnectionAssumption DEF Said
    <3> QED BY <2>2, <3>1, SymbolFacts DEF Bad
  <2>4. v = Data(<<>>) BY <1>7, <1>10, <2>3 DEF turn
  <2>5. v.kind = "data" /\ v.bytes = <<>> BY <2>4, Kinds
  <2>6. a >= Len(F) - 2 BY <1>6, <1>7, <1>10
  <2>7. n + 0 <= MaxBody BY ConnectionAssumption
  <2> HIDE DEF v
  <2>8. frames(Plain(r))[Len(r.chunks) + 1] = g BY DEF g, N
  <2>9. Reads(r, N + 1, n, v)
    <3>1. \A j \in N + 1 .. Len(r.chunks) : FALSE BY <1>3 DEF N
    <3>2. v.bytes = g /\ n + Len(g) <= MaxBody BY <1>8, <2>5, <2>7
    <3>3. g = frames(Plain(r))[N + 1] BY DEF g
    <3>4. a = r.arrived /\ F = framed(r) BY DEF a, F
    <3> QED BY <2>5, <2>6, <3>1, <3>2, <3>3, <3>4 DEF Reads
  <2> QED BY <2>9 DEF v, body, F, a, i, N
<1> QED BY <1>9, <1>10

\* One chunk.
LEMMA OneTurn ==
  ASSUME NEW r, Framed(r), NEW then, NEW n \in 0 .. MaxBody, NEW k \in 1 .. Len(r.chunks),
         SizeAt(r, k) <= r.arrived + 1,
         SizeAt(r, k + 1) <= r.arrived + 1 =>
           \A m \in 0 .. MaxBody : Reads(r, k + 1, m, then[SizeAt(r, k + 1)][m])
  PROVE  LET body == SubSeq(framed(r), 1, r.arrived)
         IN  Reads(r, k, n, turn(body, then, SizeAt(r, k), n))
<1> DEFINE N == Len(r.chunks)
           F == framed(r)
           f == frames(r)[k]
           f2 == frames(r)[k + 1]
           a == r.arrived
           body == SubSeq(F, 1, a)
           i == SizeAt(r, k)
           i2 == SizeAt(r, k + 1)
           v == turn(body, then, i, n)
           g == frames(Plain(r))[k]
           g2 == frames(Plain(r))[k + 1]
           s == r.chunks[k].says
           l == r.chunks[k].length
           data == [j \in 1 .. l |-> Byte(k, j)]
           Honest == \A j \in k .. N : r.chunks[j].says = r.chunks[j].length
           Honest2 == \A j \in k + 1 .. N : r.chunks[j].says = r.chunks[j].length
           whole == a >= Len(F) - 2
           R2(x) ==
             /\ x.kind = "panic" => \E j \in k + 1 .. N : r.chunks[j].says >= MaxUsize - 1
             /\ x.kind = "data" <=>
                  whole /\ Honest2 /\ (n + l) + Len(g2) <= MaxBody
             /\ x.kind = "data" => x.bytes = g2
           Result ==
             /\ v.kind = "panic" => \E j \in k .. N : r.chunks[j].says >= MaxUsize - 1
             /\ v.kind = "data" <=> whole /\ Honest /\ n + Len(g) <= MaxBody
             /\ v.kind = "data" => v.bytes = g
<1>1. r \in Response /\ r.chunked BY DEF Framed
<1>2. N \in Nat BY <1>1, ChunksType
<1>3. k \in 1 .. N + 1 /\ k + 1 \in 1 .. N + 1 /\ k \in k .. N BY <1>2
<1>4. l \in Nat \ {0} /\ s \in Said BY <1>1, ChunkFacts
<1>5. /\ Len(f) = (l + 3) + Len(f2) /\ f[1] = Size(s)
      /\ \A j \in 1 .. l : f[j + 1] = Byte(k, j)
      /\ f[l + 2] = CR /\ f[l + 3] = LF
  BY <1>1, ChunkedFacts
<1>6. Len(f) \in Nat /\ Len(f2) \in Nat /\ Len(f2) >= 3 BY <1>1, <1>3, ChunkedFacts
<1>7. /\ F \in Seq(Symbol) /\ f \in Seq(Symbol) /\ Len(f) <= Len(F)
      /\ \A j \in 1 .. Len(f) : F[(Len(F) - Len(f)) + j] = f[j]
  BY <1>1, <1>3, FramedEnds
<1>8. Len(f2) <= Len(F) BY <1>1, <1>3, FramedEnds
<1>9. /\ body \in Seq(Symbol) /\ Len(body) = a /\ a \in Nat
      /\ \A j \in 1 .. a : body[j] = F[j]
  BY Arrives
<1>10. a <= Len(F) BY DEF Framed
<1>11. i = (Len(F) - Len(f)) + 1 /\ i2 = (Len(F) - Len(f2)) + 1 BY DEF SizeAt
<1>12. /\ g = data \o g2 /\ Len(g) = l + Len(g2)
       /\ g2 \in Seq(Symbol)
  BY <1>1, <1>3, PlainFacts
<1>13. s # l => ~Misleads(s, f) BY <1>3 DEF Framed
<1>14. i2 <= a + 1 => \A m \in 0 .. MaxBody : Reads(r, k + 1, m, then[i2][m]) OBVIOUS
<1>15. i <= a + 1 OBVIOUS
<1>16. MaxBody \in Nat /\ MaxUsize \in Nat /\ MaxBody < MaxUsize - 1
  BY ConnectionAssumption
<1>17. Result => Reads(r, k, n, v) BY DEF Reads
<1> HIDE DEF N, F, f, f2, a, body, i, i2, g, g2, s, l, data
<1>18. Len(F) \in Nat /\ Len(g2) \in Nat /\ Len(g) \in Nat BY <1>4, <1>7, <1>12
<1>19. Honest => s = l BY <1>3 DEF s, l
<1>20. Honest <=> (s = l /\ Honest2)
  <2>1. \A j \in k .. N : j = k \/ j \in k + 1 .. N BY <1>2
  <2>2. \A j \in k + 1 .. N : j \in k .. N BY <1>2
  <2> QED BY <1>19, <2>1, <2>2 DEF s, l
<1>21. i \in Nat /\ i >= 1 /\ i2 = i + (l + 3) BY <1>4, <1>5, <1>6, <1>7, <1>11, <1>18
<1>22. v = turn(body, then, i, n) BY DEF v
<1> SUFFICES Result BY <1>17 DEF v, body, F, a, i
<1> HIDE DEF v
\* Neither data nor a panic; a panic; data.
<1>23. ASSUME v = Error, ~(whole /\ Honest /\ n + Len(g) <= MaxBody) PROVE Result
  <2>1. v.kind = "error" BY <1>23, Kinds
  <2> QED BY <1>23, <2>1
<1>24. ASSUME v.kind = "panic", s >= MaxUsize - 1,
              ~(whole /\ Honest /\ n + Len(g) <= MaxBody)
       PROVE  Result
  <2>1. \E j \in k .. N : r.chunks[j].says >= MaxUsize - 1 BY <1>3, <1>24 DEF s
  <2> QED BY <1>24, <2>1
<1>25. ASSUME v.kind = "data", v.bytes = g, whole, Honest, n + Len(g) <= MaxBody PROVE Result
  BY <1>25
<1>26. ASSUME R2(v), v.kind # "data", ~(whole /\ Honest /\ n + Len(g) <= MaxBody)
       PROVE  Result
  <2>1. \A j \in k + 1 .. N : j \in k .. N BY <1>2
  <2>2. v.kind = "panic" => \E j \in k .. N : r.chunks[j].says >= MaxUsize - 1 BY <1>26, <2>1
  <2> QED BY <1>26, <2>2
<1> HIDE DEF Result, Honest, Honest2
<1>27. CASE i > a
  <2>1. v = Error BY <1>9, <1>22, <1>27 DEF turn
  <2>2. ~whole BY <1>4, <1>5, <1>6, <1>9, <1>11, <1>18, <1>27
  <2> QED BY <1>23, <2>1, <2>2
<1>28. CASE ~(i > a)
  <2> DEFINE tail == SubSeq(body, i + 1, Len(body))
             next == then[i + 1 + behind(s)][n + s]
  <2>1. i \in 1 .. a BY <1>9, <1>21, <1>28
  <2>2. body[i] = Size(s)
    <3>1. 1 \in 1 .. Len(f) BY <1>4, <1>5, <1>6
    <3> QED BY <1>5, <1>7, <1>9, <1>11, <2>1, <3>1
  <2>3. body[i].t = "size" /\ body[i].n = s BY <1>4, <2>2, SymbolFacts
  <2>4. v = IF s = Bad THEN Error
            ELSE IF s = 0 THEN Data(<<>>)
            ELSE IF Len(tail) < behind(s) THEN Error
            ELSE IF s > behind(s) THEN Panic
            ELSE IF SubSeq(tail, s + 1, behind(s)) # <<CR, LF>> \/ n + s > MaxBody THEN Error
            ELSE IF next.kind = "data" THEN Data(SubSeq(tail, 1, s) \o next.bytes)
            ELSE next
    BY <1>9, <1>22, <1>28, <2>3 DEF turn
  <2>5. /\ tail \in Seq(Symbol) /\ Len(tail) = a - i
        /\ \A j \in 1 .. a - i : tail[j] = body[i + j]
    BY <1>9, <2>1
  <2>6. ASSUME NEW j \in 1 .. a - i PROVE tail[j] = f[j + 1] /\ j + 1 <= Len(f)
    <3>1. /\ i + j \in 1 .. a /\ j + 1 \in 1 .. Len(f)
          /\ i + j = (Len(F) - Len(f)) + (j + 1)
      BY <1>6, <1>9, <1>10, <1>11, <1>18, <2>1
    <3>2. tail[j] = F[i + j] BY <1>9, <2>5, <3>1
    <3>3. F[i + j] = f[j + 1]
      <4>1. F[(Len(F) - Len(f)) + (j + 1)] = f[j + 1] BY <1>7, <3>1
      <4> QED BY <3>1, <4>1
    <3> QED BY <1>6, <1>9, <1>21, <3>1, <3>2, <3>3
  <2> HIDE DEF tail
  <2>7. CASE s = Bad
    <3>1. v = Error BY <2>4, <2>7
    <3>2. ~Honest BY <1>4, <1>19, <2>7 DEF Bad
    <3> QED BY <1>23, <3>1, <3>2
  <2>8. CASE s = 0
    <3>1. s # l BY <1>4, <2>8
    <3> QED BY <1>13, <2>8, <3>1 DEF Misleads
  <2>9. CASE s # Bad /\ s # 0 /\ s >= MaxUsize - 1
    <3>1. s \in Nat /\ s <= MaxUsize BY <1>4, <2>9 DEF Said
    <3>2. v = Error \/ v.kind = "panic"
      <4>1. behind(s) < s
        <5>1. s + 2 = MaxUsize + 1 \/ s + 2 = (MaxUsize + 1) + 1 BY <1>16, <2>9, <3>1
        <5>2. (MaxUsize + 1) % (MaxUsize + 1) = 0 /\ ((MaxUsize + 1) + 1) % (MaxUsize + 1) < 2
          BY <1>16
        <5> QED BY <1>16, <2>9, <3>1, <5>1, <5>2 DEF behind
      <4>2. s > behind(s) BY <4>1
      <4>3. v = Error \/ v = Panic BY <2>4, <2>9, <4>2
      <4> QED BY <4>3, Kinds
    <3>3. ~(Honest /\ n + Len(g) <= MaxBody) BY <1>4, <1>12, <1>16, <1>18, <1>19, <2>9, <3>1
    <3>4. s >= MaxUsize - 1 BY <2>9
    <3> QED BY <1>23, <1>24, <3>2, <3>3, <3>4
  <2>10. CASE s # Bad /\ s # 0 /\ ~(s >= MaxUsize - 1)
    <3>1. s \in Nat \ {0} /\ s + 2 <= MaxUsize BY <1>4, <1>16, <2>10 DEF Said
    <3>2. behind(s) = s + 2 BY <1>16, <3>1 DEF behind
    <3>3. v = IF Len(tail) < s + 2 THEN Error
              ELSE IF SubSeq(tail, s + 1, s + 2) # <<CR, LF>> \/ n + s > MaxBody THEN Error
              ELSE IF next.kind = "data" THEN Data(SubSeq(tail, 1, s) \o next.bytes)
              ELSE next
      <4>1. ~(s > s + 2) BY <3>1
      <4> QED BY <2>4, <2>10, <3>2, <4>1
    <3> HIDE DEF next
    <3>4. CASE Len(tail) < s + 2
      <4>1. v = Error BY <3>3, <3>4
      <4>2. ~(whole /\ s = l)
        BY <1>4, <1>5, <1>6, <1>9, <1>11, <1>18, <2>1, <2>5, <3>4
      <4> QED BY <1>19, <1>23, <4>1, <4>2
    <3>5. CASE ~(Len(tail) < s + 2)
      <4>1. /\ s + 1 \in 1 .. a - i /\ s + 2 \in 1 .. a - i
            /\ s + 2 <= Len(tail) /\ s \in Nat
        BY <1>9, <2>1, <2>5, <3>1, <3>5
      <4>2. tail[s + 1] = f[s + 2] /\ tail[s + 2] = f[s + 3] /\ s + 3 <= Len(f)
        <5>1. (s + 1) + 1 = s + 2 /\ (s + 2) + 1 = s + 3 BY <3>1
        <5> QED BY <2>6, <4>1, <5>1
      <4>3. SubSeq(tail, s + 1, s + 2) = <<CR, LF>> <=> (f[s + 2] = CR /\ f[s + 3] = LF)
        BY <2>5, <4>1, <4>2, EndOfChunk
      <4>4. CASE s # l
        <5>1. SubSeq(f, s + 2, s + 3) # <<CR, LF>> BY <1>13, <4>2, <4>4 DEF Misleads
        <5>2. s + 1 \in Nat /\ (s + 1) + 2 <= Len(f) /\ (s + 1) + 1 = s + 2 /\ (s + 1) + 2 = s + 3
          BY <3>1, <4>2
        <5>3. SubSeq(f, (s + 1) + 1, (s + 1) + 2) = <<CR, LF>>
                <=> (f[(s + 1) + 1] = CR /\ f[(s + 1) + 2] = LF)
          BY <1>7, <5>2, EndOfChunk
        <5>4. ~(f[s + 2] = CR /\ f[s + 3] = LF) BY <5>1, <5>2, <5>3
        <5>5. v = Error BY <3>3, <3>5, <4>3, <5>4
        <5> QED BY <1>19, <1>23, <4>4, <5>5
      <4>5. CASE s = l
        <5>1. SubSeq(tail, s + 1, s + 2) = <<CR, LF>> BY <1>5, <4>3, <4>5
        <5>2. CASE n + s > MaxBody
          <6>1. v = Error BY <3>3, <3>5, <5>2
          <6>2. ~(n + Len(g) <= MaxBody) BY <1>12, <1>16, <1>18, <3>1, <4>5, <5>2
          <6> QED BY <1>23, <6>1, <6>2
        <5>3. CASE ~(n + s > MaxBody)
          <6>1. v = IF next.kind = "data" THEN Data(SubSeq(tail, 1, s) \o next.bytes)
                    ELSE next
            BY <3>3, <3>5, <5>1, <5>3
          <6>2. n + s \in 0 .. MaxBody /\ i2 <= a + 1 /\ i2 = i + 1 + behind(s)
            BY <1>9, <1>16, <1>21, <2>1, <2>5, <3>1, <3>2, <3>5, <4>5, <5>3
          <6>3. Reads(r, k + 1, n + s, next) BY <1>14, <6>2 DEF next
          <6>4. R2(next) BY <4>5, <6>3 DEF Reads, F, a, N, g2, Honest2
          <6>5. SubSeq(tail, 1, s) = data
            <7>1. \A j \in 1 .. s : tail[j] = Byte(k, j)
              <8> TAKE j \in 1 .. s
              <8>1. j \in 1 .. a - i BY <1>9, <1>21, <3>1, <4>1
              <8> QED BY <1>5, <2>6, <4>5, <8>1
            <7>2. SubSeq(tail, 1, s) = [j \in 1 .. s |-> tail[j]]
              <8>1. SubSeq(tail, 1, s) \in Seq(Symbol) /\ Len(SubSeq(tail, 1, s)) = s
                    /\ \A j \in 1 .. s : SubSeq(tail, 1, s)[j] = tail[j]
                BY <2>5, <3>1, <4>1
              <8>2. SubSeq(tail, 1, s) = [j \in 1 .. s |-> SubSeq(tail, 1, s)[j]] BY <8>1
              <8> QED BY <8>1, <8>2
            <7> QED BY <4>5, <7>1, <7>2 DEF data
          <6>6. n + Len(g) = (n + l) + Len(g2) BY <1>4, <1>12, <1>18
          <6>7. CASE next.kind = "data"
            <7>1. v.kind = "data" /\ v.bytes = data \o next.bytes BY <6>1, <6>5, <6>7, Kinds
            <7>2. v.bytes = g BY <1>12, <6>4, <6>7, <7>1
            <7>3. whole /\ Honest /\ n + Len(g) <= MaxBody BY <1>20, <4>5, <6>4, <6>6, <6>7
            <7> QED BY <1>25, <7>1, <7>2, <7>3
          <6>8. CASE next.kind # "data"
            <7>1. v = next BY <6>1, <6>8
            <7>2. ~(whole /\ Honest /\ n + Len(g) <= MaxBody) BY <1>20, <6>4, <6>6, <6>8
            <7>3. R2(v) /\ v.kind # "data" BY <6>4, <6>8, <7>1
            <7> QED BY <1>26, <7>2, <7>3
          <6> QED BY <6>7, <6>8
        <5> QED BY <5>2, <5>3
      <4> QED BY <4>4, <4>5
    <3> QED BY <3>4, <3>5
  <2> QED BY <2>7, <2>8, <2>9, <2>10
<1> QED BY <1>27, <1>28

\* The whole message: by induction from its end.
LEMMA DecodedRight ==
  ASSUME NEW r, Framed(r)
  PROVE  Reads(r, 1, 0, decode_chunked_body(SubSeq(framed(r), 1, r.arrived)))
<1> DEFINE N == Len(r.chunks)
           a == r.arrived
           body == SubSeq(framed(r), 1, a)
<1>1. r \in Response BY DEF Framed
<1>2. N \in Nat BY <1>1, ChunksType
<1>3. body \in Seq(Symbol) /\ Len(body) = a /\ a \in Nat BY Arrives
<1> HIDE DEF a, body
<1>4. PICK from :
        /\ decode_chunked_body(body) = from[1][0]
        /\ \A i \in 1 .. a + 1 : \A n \in 0 .. MaxBody : from[i][n] = turn(body, from, i, n)
  BY <1>3, DecodeFacts
<1>5. ASSUME NEW k \in 1 .. N + 1, SizeAt(r, k) <= a + 1
      PROVE  SizeAt(r, k) \in 1 .. a + 1
  <2>1. /\ framed(r) \in Seq(Symbol) /\ frames(r)[k] \in Seq(Symbol)
        /\ Len(frames(r)[k]) <= Len(framed(r))
    BY <1>1, FramedEnds
  <2>2. Len(framed(r)) \in Nat /\ Len(frames(r)[k]) \in Nat BY <2>1
  <2> DEFINE p == SizeAt(r, k)
             x == Len(framed(r))
             y == Len(frames(r)[k])
  <2>3. p = (x - y) + 1 BY DEF SizeAt
  <2>4. x \in Nat /\ y \in Nat /\ y <= x BY <2>1, <2>2
  <2>5. p <= a + 1 BY <1>5
  <2> HIDE DEF p, x, y
  <2>6. p \in 1 .. a + 1 BY <1>3, <2>3, <2>4, <2>5
  <2> QED BY <2>6 DEF p
<1> DEFINE S(k) == SizeAt(r, k) <= a + 1 =>
                     \A n \in 0 .. MaxBody : Reads(r, k, n, from[SizeAt(r, k)][n])
           G == {m \in 0 .. N : S((N + 1) - m)}
<1>6. 0 \in G
  <2>1. (N + 1) - 0 = N + 1 /\ 0 \in 0 .. N /\ N + 1 \in 1 .. N + 1 BY <1>2
  <2>2. ASSUME SizeAt(r, N + 1) <= a + 1, NEW n \in 0 .. MaxBody
        PROVE  Reads(r, N + 1, n, from[SizeAt(r, N + 1)][n])
    <3>1. from[SizeAt(r, N + 1)][n] = turn(body, from, SizeAt(r, N + 1), n)
      BY <1>4, <1>5, <2>1, <2>2
    <3>2. Reads(r, N + 1, n, turn(body, from, SizeAt(r, N + 1), n))
      BY <2>2, LastTurn DEF a, body
    <3> QED BY <3>1, <3>2
  <2> QED BY <2>1, <2>2
<1>7. ASSUME NEW m \in 1 .. N, m - 1 \in G PROVE m \in G
  <2> DEFINE k == (N + 1) - m
  <2>1. k \in 1 .. N /\ k \in 1 .. N + 1 /\ (N + 1) - (m - 1) = k + 1 /\ m \in 0 .. N BY <1>2
  <2>2. S(k + 1) BY <1>7, <2>1
  <2> HIDE DEF k
  <2>3. ASSUME SizeAt(r, k) <= a + 1, NEW n \in 0 .. MaxBody
        PROVE  Reads(r, k, n, from[SizeAt(r, k)][n])
    <3>1. from[SizeAt(r, k)][n] = turn(body, from, SizeAt(r, k), n) BY <1>4, <1>5, <2>1, <2>3
    <3>2. Reads(r, k, n, turn(body, from, SizeAt(r, k), n))
      BY <2>1, <2>2, <2>3, OneTurn DEF a, body
    <3> QED BY <3>1, <3>2
  <2>4. S(k) BY <2>3
  <2> QED BY <2>1, <2>4 DEF k
<1>8. S(1)
  <2> HIDE DEF G
  <2>1. \A m \in 0 .. N : m \in G BY <1>2, <1>6, <1>7, UpTo
  <2>2. N \in 0 .. N /\ (N + 1) - N = 1 BY <1>2
  <2>3. S((N + 1) - N) BY <2>1, <2>2 DEF G
  <2> QED BY <2>2, <2>3
<1>9. SizeAt(r, 1) = 1
  <2>1. 1 \in 1 .. N + 1 BY <1>2
  <2>2. framed(r) \in Seq(Symbol) BY <1>1, <2>1, FramedEnds
  <2>3. Len(framed(r)) \in Nat BY <2>2
  <2> QED BY <2>3 DEF SizeAt, framed
<1>10. Reads(r, 1, 0, from[1][0])
  <2>1. 1 <= a + 1 /\ 0 \in 0 .. MaxBody BY <1>3, ConnectionAssumption
  <2> QED BY <1>8, <1>9, <2>1
<1> QED BY <1>4, <1>10 DEF body, a

\* ResponseIsRead, of one response.
ReadRight(r) ==
  LET sent   == body_of(r)
      lies   == {k \in DOMAIN r.chunks : r.chunks[k].says # r.chunks[k].length}
      whole  == r.arrived >= Len(framed(r)) - 2
      usable == /\ connect_tcp(r.addresses) /\ r.ends = "closed" /\ r.head = "ok"
                /\ r.arrived <= MaxResponse
      read   == http_request(r)
  IN  IF r.chunked
      THEN (\A k \in lies : ~Misleads(r.chunks[k].says, frames(r)[k])) =>
             /\ read.kind = "panic" =>
                  usable /\ \E k \in DOMAIN r.chunks : r.chunks[k].says >= MaxUsize - 1
             /\ read.kind = "data" <=>
                  usable /\ whole /\ lies = {} /\ Len(sent) <= MaxBody
             /\ read.kind = "data" => read.bytes = sent
      ELSE read = IF usable /\ r.arrived <= MaxBody
                  THEN Data(SubSeq(sent, 1, r.arrived)) ELSE Error

LEMMA ReadRightly == \A r \in Replies : ReadRight(r)
<1> SUFFICES ASSUME NEW r \in Replies PROVE ReadRight(r) OBVIOUS
<1>1. r \in Response /\ r.arrived <= Len(framed(r)) BY RepliesAssumption
<1> DEFINE N == Len(r.chunks)
           a == r.arrived
           F == framed(r)
           body == SubSeq(F, 1, a)
           g == framed(Plain(r))
           read == http_request(r)
           usable == /\ connect_tcp(r.addresses) /\ r.ends = "closed" /\ r.head = "ok"
                     /\ a <= MaxResponse
<1>2. N \in Nat /\ DOMAIN r.chunks = 1 .. N BY <1>1, ChunksType
<1>3. 1 \in 1 .. N + 1 BY <1>2
<1>4. F \in Seq(Symbol) /\ a \in Nat /\ a <= Len(F) BY <1>1, <1>3, FramedEnds DEF Response
<1>5. Len(body) = a
  <2> HIDE DEF F, a
  <2> QED BY <1>4
<1>6. body_of(r) = g BY DEF body_of, Plain
<1>7. read = IF ~usable THEN Error
             ELSE IF r.chunked THEN decode_chunked_body(body)
             ELSE IF a > MaxBody THEN Error ELSE Data(body)
  <2>1. Len(SubSeq(framed(r), 1, r.arrived)) = r.arrived BY <1>5
  <2>2. MaxResponse \in Nat /\ r.arrived \in Nat BY <1>4, ConnectionAssumption
  <2>3. Len(SubSeq(framed(r), 1, r.arrived)) > MaxResponse <=> ~(r.arrived <= MaxResponse)
    BY <2>1, <2>2
  <2>4. r.ends = "failed" <=> r.ends # "closed" BY <1>1 DEF Response
  <2> QED BY <2>1, <2>3, <2>4 DEF http_request, read_http_response
<1>8. CASE ~r.chunked
  <2>1. F = g BY <1>1, <1>8, PlainFacts
  <2>2. MaxBody \in Nat BY ConnectionAssumption
  <2>3. read = IF usable /\ a <= MaxBody THEN Data(SubSeq(g, 1, a)) ELSE Error
    <3> HIDE DEF read, usable, F, g, a
    <3> QED BY <1>4, <1>7, <1>8, <2>1, <2>2
  <2> QED BY <1>6, <1>8, <2>3 DEF ReadRight
<1>9. CASE r.chunked
  <2> DEFINE lies == {k \in DOMAIN r.chunks : r.chunks[k].says # r.chunks[k].length}
             whole == a >= Len(F) - 2
             Panics == \E k \in DOMAIN r.chunks : r.chunks[k].says >= MaxUsize - 1
             Good == usable /\ whole /\ lies = {} /\ Len(g) <= MaxBody
  <2>1. SUFFICES ASSUME \A k \in lies : ~Misleads(r.chunks[k].says, frames(r)[k])
                 PROVE  /\ read.kind = "panic" => usable /\ Panics
                        /\ read.kind = "data" <=> Good
                        /\ read.kind = "data" => read.bytes = g
    BY <1>6, <1>9 DEF ReadRight
  <2>2. Framed(r) BY <1>1, <1>2, <1>9, <2>1 DEF Framed
  <2>3. Reads(r, 1, 0, decode_chunked_body(body)) BY <2>2, DecodedRight
  <2>4. frames(Plain(r))[1] = g /\ 0 + Len(g) = Len(g)
    <3>1. g = frames(Plain(r))[1] BY DEF framed
    <3>2. g \in Seq(Symbol) BY <1>1, <1>3, <3>1, PlainFacts
    <3>3. Len(g) \in Nat BY <3>2
    <3> QED BY <3>1, <3>3
  <2>5. lies = {} <=> \A j \in 1 .. N : r.chunks[j].says = r.chunks[j].length BY <1>2
  <2> DEFINE v == decode_chunked_body(body)
  <2>6. /\ v.kind = "panic" => Panics
        /\ v.kind = "data" <=> (whole /\ lies = {} /\ Len(g) <= MaxBody)
        /\ v.kind = "data" => v.bytes = g
    <3> HIDE DEF v, g, lies
    <3>1. /\ v.kind = "panic" => \E j \in 1 .. N : r.chunks[j].says >= MaxUsize - 1
          /\ v.kind = "data" <=>
               /\ whole /\ \A j \in 1 .. N : r.chunks[j].says = r.chunks[j].length
               /\ 0 + Len(g) <= MaxBody
          /\ v.kind = "data" => v.bytes = g
      BY <2>3, <2>4 DEF Reads, v
    <3> QED BY <1>2, <2>4, <2>5, <3>1
  <2> HIDE DEF v, g, lies, Panics, whole
  <2>7. CASE usable
    <3>1. read = v BY <1>7, <1>9, <2>7 DEF v
    <3> HIDE DEF read, usable
    <3> QED BY <2>6, <2>7, <3>1
  <2>8. CASE ~usable
    <3>1. read.kind = "error" BY <1>7, <2>8, Kinds
    <3> HIDE DEF read
    <3> QED BY <2>8, <3>1
  <2> QED BY <2>7, <2>8
<1> QED BY <1>8, <1>9

\* The response is one of those that may arrive.
ReplyOK == reply \in Replies \cup {None}

LEMMA NextReply == ASSUME ReplyOK, [Next]_vars PROVE ReplyOK'
<1> USE DEF start_up
<1>1. CASE Resolve BY <1>1 DEF Resolve, ReplyOK
<1>2. ASSUME UNCHANGED reply PROVE ReplyOK' BY <1>2 DEF ReplyOK
<1>3. CASE Begin /\ ~Resolve
  BY <1>2, <1>3 DEF Begin, ParseArgs, CheckNested, Spawn, EnterRaw, Start, CloneReader,
    CloneWriter
<1>4. CASE ~Begin
  BY <1>2, <1>4 DEF Next, End, Shutdown, Stop, LeaveRaw, WaitForShell, Exit, Output, ReadOutput,
    DrawOutput, SendReplies, Stdin, Redraw, ShowStatus, Resize, NoticeResize, SendResize,
    Input, TakeInput, WriteInput, Transport, Connects, RemoteInput, Receives, TellStatus,
    SeesShutdown, ShellSteps, ShellWrites, ShellReads, ShellEnds, vars
<1> QED BY <1>1, <1>3, <1>4

\* For every response, of any number of chunks of any length, whatever its size lines say
\* however much of it arrives, and however the connection ends: what create_session reads
\* is the whole message, or without chunks what had arrived when the connection was closed,
\* or else an error, and only a size line near the largest usize makes it panic
\* (http_request, read_http_response, decode_chunked_body).
THEOREM ResponseRead == Spec => []ResponseIsRead
<1>1. Init => ReplyOK BY DEF Init, ReplyOK
<1>2. ReplyOK /\ [Next]_vars => ReplyOK' BY NextReply
<1>3. ReplyOK => ResponseIsRead
  <2> SUFFICES ASSUME ReplyOK, reply # None PROVE ReadRight(reply)
    BY DEF ResponseIsRead, ReadRight
  <2> QED BY ReadRightly DEF ReplyOK
<1> QED BY <1>1, <1>2, <1>3, PTL DEF Spec
=============================================================================
