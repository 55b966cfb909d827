--------------------------- MODULE SessionDOSockets ---------------------------
(***************************************************************************)
(* Proofs about the sockets of the session object, its alarm, and what its *)
(* peers have been told; and that neither a grace period nor a lease in    *)
(* force is prolonged.                                                     *)
(*                                                                         *)
(* As in SessionDOProofs each operator of a handler has a lemma.  Nearly   *)
(* all of them only take something away from the object and keep what the  *)
(* invariant says of the rest: they are calm.                              *)
(***************************************************************************)
EXTENDS SessionDOControl

----------------------------------------------------------------------------
(* The invariant, as predicates on the object.                             *)

Owned(o) ==
  /\ \A h \in HostSock : o.sock[h] = "open" => o.host = h
  /\ \A v \in ViewerSock : o.sock[v] = "open" => v \in o.viewers
  /\ \A v, w \in o.viewers : o.ident[v] = o.ident[w] => v = w

\* Nothing has been written.
Unused(o) == o.stored = None /\ o.rec.state = "idle"

Covered(o) ==
  \/ o.rec.state = "closed"
  \/ Unused(o)
  \/ o.stored # None /\ \A d \in FutureDeadlines(o.rec) : o.alarm # None /\ o.alarm <= d

Knows(o, s) ==
  /\ o.told[s] # None
  /\ o.told[s].generation = o.rec.generation
  /\ o.rec.currentControllerId # None =>
       o.told[s].controllerViewerId = o.rec.currentControllerId

ViewersKnow(o) == \A v \in o.viewers : o.sock[v] = "open" => Knows(o, v)

HostKnows(o) ==
  o.host # None /\ o.sock[o.host] = "open" =>
    /\ Knows(o, o.host)
    /\ o.rec.pendingRequest \in {None, o.told[o.host].pendingControlRequest}

EndKnown(o) ==
  o.rec.state = "ended" =>
    \A v \in o.viewers : o.sock[v] = "open" => o.told[v].hostState = "offline"

\* No grace period runs in a session that has not had a host or is closed, and
\* a closed one has no viewers.
Resting(o) ==
  /\ o.rec.state \in {"idle", "closed"} => o.rec.hostDisconnectDeadline = None
  /\ o.rec.state = "closed" => o.viewers = {}

\* The invariant but for the alarm.
Kept(o) == Owned(o) /\ HostKnows(o) /\ ViewersKnow(o) /\ EndKnown(o) /\ Resting(o)

----------------------------------------------------------------------------
(* What operators may do to an object.                                     *)

\* No socket is opened, and none that stays open is let go.
Narrows(o, p) ==
  /\ \A s \in Socket : p.sock[s] = "open" => o.sock[s] = "open"
  /\ p.viewers \subseteq o.viewers
  /\ \A v \in p.viewers : p.ident[v] = o.ident[v]
  /\ \A v \in o.viewers : p.sock[v] = "open" => v \in p.viewers
  /\ p.host \in {o.host, None}
  /\ o.host # None /\ p.sock[o.host] = "open" => p.host = o.host

\* Nobody is given control, no lease is changed, and no request is made.
DropsClaims(r, q) ==
  /\ q.currentControllerId # None =>
       /\ q.currentControllerId = r.currentControllerId
       /\ q.controlLeaseExpiresAt = r.controlLeaseExpiresAt
  /\ q.pendingRequest # None => q.pendingRequest = r.pendingRequest

\* Without a host no grace period is started or changed.
KeepsGrace(o, p) ==
  o.host = None =>
    /\ p.host = None
    /\ p.rec.hostDisconnectDeadline \in {None, o.rec.hostDisconnectDeadline}

Calm(o, p) ==
  /\ Narrows(o, p)
  /\ DropsClaims(o.rec, p.rec)
  /\ KeepsGrace(o, p)
  /\ o.stored # None => p.stored # None
  /\ Covered(o) => Covered(p)
  /\ HostKnows(o) => HostKnows(p)
  /\ ViewersKnow(o) => ViewersKnow(p)

\* The same, and the state stays unless the host is lost.
Mild(o, p) ==
  /\ Calm(o, p)
  /\ \/ /\ p.rec.state = o.rec.state
        /\ p.rec.hostDisconnectDeadline = o.rec.hostDisconnectDeadline
     \/ p.rec.state = "ready"
  /\ EndKnown(o) => EndKnown(p)

\* The same, and the sockets and the expiry stay.
Still(o, p) ==
  /\ Mild(o, p)
  /\ p.sock = o.sock
  /\ p.rec.sessionExpiresAt = o.rec.sessionExpiresAt

LEMMA NarrowsTransitive ==
  ASSUME NEW o, NEW p, NEW q, o \in Object, p \in Object, Narrows(o, p), Narrows(p, q)
  PROVE  Narrows(o, q)
<1>1. o.viewers \subseteq Socket /\ p.viewers \subseteq Socket /\ o.host \in Socket \cup {None}
  BY DEF Object, Socket
<1> QED BY <1>1 DEF Narrows

LEMMA CalmTransitive ==
  ASSUME NEW o, NEW p, NEW q, o \in Object, p \in Object, Calm(o, p), Calm(p, q)
  PROVE  Calm(o, q)
<1>1. Narrows(o, q) BY NarrowsTransitive DEF Calm
<1>2. DropsClaims(o.rec, q.rec) BY DEF Calm, DropsClaims
<1>3. KeepsGrace(o, q) BY DEF Calm, KeepsGrace
<1> QED BY <1>1, <1>2, <1>3 DEF Calm

LEMMA MildTransitive ==
  ASSUME NEW o, NEW p, NEW q, o \in Object, p \in Object, Mild(o, p), Mild(p, q)
  PROVE  Mild(o, q)
<1>1. Calm(o, q) BY CalmTransitive DEF Mild
<1> QED BY <1>1 DEF Mild

LEMMA StillTransitive ==
  ASSUME NEW o, NEW p, NEW q, o \in Object, p \in Object, Still(o, p), Still(p, q)
  PROVE  Still(o, q)
<1>1. Mild(o, q) BY MildTransitive DEF Still
<1> QED BY <1>1 DEF Still

LEMMA NarrowsOwned ==
  ASSUME NEW o, NEW p, o \in Object, Narrows(o, p), Owned(o)
  PROVE  Owned(p)
<1>1. \A h \in HostSock : h # None /\ h \in Socket
  BY SocketAssumption DEF Socket
<1>2. ViewerSock \subseteq Socket BY DEF Socket
<1> QED BY <1>1, <1>2 DEF Narrows, Owned

----------------------------------------------------------------------------
(* Records.                                                                *)

\* The deadlines of q are among those of r, and nothing is begun.
Quieter(r, q) ==
  /\ DropsClaims(r, q)
  /\ q.generation = r.generation
  /\ q.sessionExpiresAt = r.sessionExpiresAt
  /\ q.hostDisconnectDeadline \in {None, r.hostDisconnectDeadline}
  /\ q.pendingRequestExpiresAt \in {None, r.pendingRequestExpiresAt}
  /\ q.controlLeaseExpiresAt \in {None, r.controlLeaseExpiresAt}
  /\ r.state = "closed" => q.state = "closed"
  /\ r.state = "idle" => q.state \in {"idle", "closed"}

\* All but the record and what the properties do not look at.
SameSockets(o, p) ==
  /\ p.sock = o.sock /\ p.ident = o.ident /\ p.told = o.told
  /\ p.viewers = o.viewers /\ p.host = o.host

LEMMA QuieterDeadlines ==
  ASSUME NEW r, NEW q, Quieter(r, q)
  PROVE  FutureDeadlines(q) \subseteq FutureDeadlines(r)
BY DEF Quieter, FutureDeadlines

LEMMA QuieterCovered ==
  ASSUME NEW o, NEW p, Quieter(o.rec, p.rec), p.stored = o.stored, p.alarm = o.alarm
  PROVE  Covered(o) => Covered(p)
<1>1. FutureDeadlines(p.rec) \subseteq FutureDeadlines(o.rec) BY QuieterDeadlines
<1>2. /\ o.rec.state = "closed" => p.rec.state = "closed"
      /\ Unused(o) => Unused(p) \/ p.rec.state = "closed"
  BY DEF Quieter, Unused
<1> QED BY <1>1, <1>2 DEF Covered

LEMMA SameSocketsNarrow ==
  ASSUME NEW o, NEW p, SameSockets(o, p)
  PROVE  Narrows(o, p)
BY DEF SameSockets, Narrows

\* A record that drops claims or deadlines leaves everyone informed.
LEMMA RecordCalm ==
  ASSUME NEW o, NEW p, SameSockets(o, p), Quieter(o.rec, p.rec),
         p.stored = o.stored, p.alarm = o.alarm
  PROVE  /\ Calm(o, p)
         /\ p.rec.sessionExpiresAt = o.rec.sessionExpiresAt
<1>1. Narrows(o, p) BY SameSocketsNarrow
<1>2. KeepsGrace(o, p) BY DEF KeepsGrace, SameSockets, Quieter
<1>3. Covered(o) => Covered(p) BY QuieterCovered
<1>4. \A s : Knows(o, s) => Knows(p, s)
  BY DEF Knows, SameSockets, Quieter, DropsClaims
<1>5. HostKnows(o) => HostKnows(p)
  BY <1>4 DEF HostKnows, SameSockets, Quieter, DropsClaims
<1>6. ViewersKnow(o) => ViewersKnow(p)
  BY <1>4 DEF ViewersKnow, SameSockets
<1> QED BY <1>1, <1>2, <1>3, <1>5, <1>6 DEF Calm, Quieter

LEMMA RecordStill ==
  ASSUME NEW o, NEW p, SameSockets(o, p), Quieter(o.rec, p.rec),
         p.stored = o.stored, p.alarm = o.alarm, p.rec.state = o.rec.state,
         p.rec.hostDisconnectDeadline = o.rec.hostDisconnectDeadline
  PROVE  Still(o, p)
<1>1. Calm(o, p) /\ p.rec.sessionExpiresAt = o.rec.sessionExpiresAt BY RecordCalm
<1>2. EndKnown(o) => EndKnown(p) BY DEF EndKnown, SameSockets
<1> QED BY <1>1, <1>2 DEF Still, Mild, SameSockets

LEMMA StorageStill ==
  ASSUME NEW o, NEW p, SameSockets(o, p), p.rec = o.rec,
         o.stored # None => p.stored # None, Covered(o) => Covered(p)
  PROVE  Still(o, p)
<1>1. Narrows(o, p) BY SameSocketsNarrow
<1>2. KeepsGrace(o, p) BY DEF KeepsGrace, SameSockets
<1>3. DropsClaims(o.rec, p.rec) BY DEF DropsClaims
<1>4. \A s : Knows(o, s) => Knows(p, s) BY DEF Knows, SameSockets
<1>5. HostKnows(o) => HostKnows(p) BY <1>4 DEF HostKnows, SameSockets
<1>6. ViewersKnow(o) => ViewersKnow(p) BY <1>4 DEF ViewersKnow, SameSockets
<1>7. EndKnown(o) => EndKnown(p) BY DEF EndKnown, SameSockets
<1>8. Calm(o, p) BY <1>1, <1>2, <1>3, <1>5, <1>6 DEF Calm
<1> QED BY <1>7, <1>8 DEF Still, Mild, SameSockets

LEMMA StillItself ==
  ASSUME NEW o
  PROVE  Still(o, o)
<1>1. SameSockets(o, o) BY DEF SameSockets
<1> QED BY <1>1, StorageStill

----------------------------------------------------------------------------
(* Storage.                                                                *)

LEMMA FutureDeadlinesType ==
  ASSUME NEW r \in SessionRecord
  PROVE  FutureDeadlines(r) \subseteq Nat
BY DEF FutureDeadlines, SessionRecord, Deadline

\* The alarm comes at the first of the deadlines that are still to come.
LEMMA ScheduleCovers ==
  ASSUME NEW o, o \in Object
  PROVE  LET p == scheduleNextAlarm(o) IN
         /\ SameSockets(o, p) /\ p.rec = o.rec /\ p.stored = o.stored
         /\ o.stored # None => Covered(p)
         /\ Covered(o) => Covered(p)
<1> DEFINE S == FutureDeadlines(o.rec)
           p == scheduleNextAlarm(o)
<1>1. S \subseteq Nat /\ o.rec \in SessionRecord BY FutureDeadlinesType DEF Object
<1>2. S # {} => Min(S) \in Nat /\ \A d \in S : Min(S) <= d
  BY <1>1, MinOfNaturals
<1>3. /\ SameSockets(o, p) /\ p.rec = o.rec /\ p.stored = o.stored
      /\ p.alarm = IF o.rec.state = "closed" \/ S = {} THEN None ELSE Min(S)
  BY DEF scheduleNextAlarm, SameSockets, Object
<1> HIDE DEF p
<1>4. \A n \in Nat : n # None BY TimingAssumption
<1> HIDE DEF S
<1>5. ASSUME o.rec.state # "closed", NEW d \in S
      PROVE  p.alarm # None /\ p.alarm <= d
  BY <1>2, <1>3, <1>4, <1>5
<1>6. o.stored # None => Covered(p)
  BY <1>3, <1>5 DEF Covered, S
<1>7. Covered(o) => Covered(p)
  BY <1>3, <1>6 DEF Covered, Unused
<1> QED BY <1>3, <1>6, <1>7 DEF p

LEMMA ScheduleStill ==
  ASSUME NEW o, o \in Object
  PROVE  Still(o, scheduleNextAlarm(o))
<1> DEFINE p == scheduleNextAlarm(o)
<1>1. SameSockets(o, p) /\ p.rec = o.rec /\ p.stored = o.stored /\ (Covered(o) => Covered(p))
  BY ScheduleCovers
<1> HIDE DEF p
<1>2. Still(o, p) BY <1>1, StorageStill
<1> QED BY <1>2 DEF p

\* Whatever was changed, a record that is written has its alarm.
LEMMA UpdateStill ==
  ASSUME NEW o, Sound(o)
  PROVE  /\ Still(o, updateRecord(o))
         /\ Covered(updateRecord(o))
         /\ SameSockets(o, updateRecord(o))
<1> DEFINE q == persistRecord(o)
           p == scheduleNextAlarm(q)
<1>1. q \in Object /\ SameSockets(o, q) /\ q.rec = o.rec /\ q.stored = o.rec
  BY PersistSound DEF persistRecord, Sound, Valid, Object, SameSockets
<1>2. q.stored # None
  BY <1>1, RecordAssumption DEF Object
<1> HIDE DEF q
<1>3. SameSockets(q, p) /\ p.rec = q.rec /\ p.stored = q.stored /\ Covered(p)
  BY <1>1, <1>2, ScheduleCovers
<1>4. updateRecord(o) = p BY DEF updateRecord, p, q
<1> HIDE DEF p
<1>5. SameSockets(o, p) /\ p.rec = o.rec /\ p.stored # None
  BY <1>1, <1>2, <1>3 DEF SameSockets
<1>6. Still(o, p) BY <1>3, <1>5, StorageStill
<1> QED BY <1>3, <1>4, <1>5, <1>6

----------------------------------------------------------------------------
(* Sends and closes.                                                       *)

LEMMA ShutMild ==
  ASSUME NEW o, o \in Object, NEW sockets
  PROVE  LET p == Shut(o, sockets) IN
         /\ Mild(o, p)
         /\ \A s \in Socket :
              p.sock[s] = IF s \in sockets /\ o.sock[s] = "open" THEN "closing" ELSE o.sock[s]
         /\ p.rec = o.rec /\ p.host = o.host /\ p.viewers = o.viewers
         /\ p.ident = o.ident
<1> DEFINE p == Shut(o, sockets)
<1>1. /\ \A s \in Socket :
           /\ p.sock[s] = IF s \in sockets /\ o.sock[s] = "open" THEN "closing" ELSE o.sock[s]
           /\ p.told[s] = IF s \in sockets THEN None ELSE o.told[s]
      /\ p.rec = o.rec /\ p.host = o.host /\ p.viewers = o.viewers
      /\ p.ident = o.ident /\ p.stored = o.stored /\ p.alarm = o.alarm
  BY DEF Shut, Object
<1> HIDE DEF p
<1>2. o.viewers \subseteq Socket /\ o.host \in Socket \cup {None}
  BY DEF Object, Socket
<1>3. \A s \in Socket : p.sock[s] = "open" => o.sock[s] = "open" /\ p.told[s] = o.told[s]
  BY <1>1
<1>4. Narrows(o, p) BY <1>1, <1>2, <1>3 DEF Narrows
<1>5. DropsClaims(o.rec, p.rec) /\ KeepsGrace(o, p) BY <1>1 DEF DropsClaims, KeepsGrace
<1>6. Covered(o) => Covered(p) BY <1>1 DEF Covered, Unused
<1>7. HostKnows(o) => HostKnows(p) BY <1>1, <1>2, <1>3 DEF HostKnows, Knows
<1>8. ViewersKnow(o) => ViewersKnow(p) BY <1>1, <1>2, <1>3 DEF ViewersKnow, Knows
<1>9. EndKnown(o) => EndKnown(p) BY <1>1, <1>2, <1>3 DEF EndKnown
<1>10. Mild(o, p) BY <1>1, <1>4, <1>5, <1>6, <1>7, <1>8, <1>9 DEF Mild, Calm
<1> QED BY <1>1, <1>10 DEF p

LEMMA WithoutRequestStill ==
  ASSUME NEW o, o \in Object
  PROVE  LET p == withoutRequest(o) IN
         /\ Still(o, p) /\ SameSockets(o, p) /\ Quieter(o.rec, p.rec)
         /\ p.stored = o.stored /\ p.alarm = o.alarm /\ p.rec.state = o.rec.state
<1> DEFINE p == withoutRequest(o)
<1>1. SameSockets(o, p) /\ p.stored = o.stored /\ p.alarm = o.alarm
  BY DEF withoutRequest, SameSockets, Object
<1>2. /\ Quieter(o.rec, p.rec) /\ p.rec.state = o.rec.state
      /\ p.rec.hostDisconnectDeadline = o.rec.hostDisconnectDeadline
  BY DEF withoutRequest, Quieter, DropsClaims, Object, SessionRecord
<1> HIDE DEF p
<1> QED BY <1>1, <1>2, RecordStill DEF p

LEMMA WithoutLeaseStill ==
  ASSUME NEW o, o \in Object
  PROVE  LET p == withoutLease(o) IN
         /\ Still(o, p) /\ SameSockets(o, p) /\ Quieter(o.rec, p.rec)
         /\ p.stored = o.stored /\ p.alarm = o.alarm /\ p.rec.state = o.rec.state
<1> DEFINE p == withoutLease(o)
<1>1. SameSockets(o, p) /\ p.stored = o.stored /\ p.alarm = o.alarm
  BY DEF withoutLease, SameSockets, Object
<1>2. /\ Quieter(o.rec, p.rec) /\ p.rec.state = o.rec.state
      /\ p.rec.hostDisconnectDeadline = o.rec.hostDisconnectDeadline
  BY DEF withoutLease, Quieter, DropsClaims, Object, SessionRecord
<1> HIDE DEF p
<1> QED BY <1>1, <1>2, RecordStill DEF p

\* A viewer that leaves takes its request along; it must not be one that still listens.
LEMMA RemoveViewersStill ==
  ASSUME NEW o, Sound(o), NEW gone, \A v \in gone \cap o.viewers : o.sock[v] # "open"
  PROVE  Still(o, removeViewers(o, gone))
<1> DEFINE w == [o EXCEPT !.viewers = @ \ gone]
<1>1. /\ Sound(w)
      /\ w.sock = o.sock /\ w.ident = o.ident /\ w.told = o.told
      /\ w.viewers = o.viewers \ gone /\ w.host = o.host
      /\ w.rec = o.rec /\ w.stored = o.stored /\ w.alarm = o.alarm
  BY DEF Sound, Valid, RecordOK, Object
<1>2. removeViewers(o, gone) \in {w, updateRecord(withoutRequest(w))}
  BY DEF removeViewers
<1> HIDE DEF w
<1>3. o.viewers \subseteq Socket BY DEF Sound, Valid, Object, Socket
<1>4. Narrows(o, w) BY <1>1 DEF Narrows
<1>5. DropsClaims(o.rec, w.rec) /\ KeepsGrace(o, w) BY <1>1 DEF DropsClaims, KeepsGrace
<1>6. Covered(o) => Covered(w) BY <1>1 DEF Covered, Unused
<1>7. HostKnows(o) => HostKnows(w) BY <1>1 DEF HostKnows, Knows
<1>8. ViewersKnow(o) => ViewersKnow(w) BY <1>1 DEF ViewersKnow, Knows
<1>9. EndKnown(o) => EndKnown(w) BY <1>1 DEF EndKnown
<1>10. Still(o, w) BY <1>1, <1>4, <1>5, <1>6, <1>7, <1>8, <1>9 DEF Still, Mild, Calm
<1> DEFINE q == withoutRequest(w)
           u == updateRecord(q)
<1>11. Sound(q) /\ Still(w, q)
  BY <1>1, WithoutRequestSound, WithoutRequestStill DEF Sound, Valid
<1> HIDE DEF q
<1>12. Still(q, u) BY <1>11, UpdateStill
<1>13. o \in Object /\ w \in Object /\ q \in Object BY <1>1, <1>11 DEF Sound, Valid
<1> HIDE DEF u
<1>14. Still(w, u) BY <1>11, <1>12, <1>13, StillTransitive
<1>15. Still(o, u) BY <1>10, <1>13, <1>14, StillTransitive
<1> QED BY <1>2, <1>10, <1>15 DEF u, q

LEMMA SendViewersStill ==
  ASSUME NEW o, Sound(o)
  PROVE  Still(o, sendViewers(o))
BY RemoveViewersStill DEF sendViewers

LEMMA SnapshotFields ==
  ASSUME NEW o, o \in Object, NEW s
  PROVE  LET t == snapshot(o, s) IN
         /\ t \in Status /\ t # None
         /\ t.generation = o.rec.generation
         /\ t.controllerViewerId = o.rec.currentControllerId
         /\ o.rec.state = "ended" => t.hostState = "offline"
         /\ s \notin ViewerSock => t.pendingControlRequest = o.rec.pendingRequest
<1>1. snapshot(o, s) \in Status BY SnapshotType
<1>2. None \notin Status
  BY RecordAssumption
<1> QED BY <1>1, <1>2 DEF snapshot, hostState

\* After a broadcast all viewers that can be reached know.
LEMMA TellViewersStill ==
  ASSUME NEW o, Sound(o)
  PROVE  LET p == tellViewers(o) IN
         Still(o, p) /\ ViewersKnow(p) /\ EndKnown(p)
<1> DEFINE t == [s \in Socket |-> IF s \in o.viewers /\ o.sock[s] = "open"
                                  THEN snapshot(o, s) ELSE o.told[s]]
           w == [o EXCEPT !.told = t]
           p == sendViewers(w)
<1>0. /\ o \in Object /\ o.viewers \subseteq Socket /\ o.viewers \subseteq ViewerSock
      /\ o.host \in HostSock \cup {None} /\ HostSock \subseteq Socket
      /\ HostSock \cap ViewerSock = {}
  BY SocketAssumption DEF Sound, Valid, Object, Socket
<1>1. t \in [Socket -> Status \cup {None}]
  BY SnapshotType DEF Sound, Valid, Object
<1>2. /\ \A s \in Socket : s \notin o.viewers => t[s] = o.told[s]
      /\ \A v \in o.viewers : o.sock[v] = "open" => t[v] = snapshot(o, v)
  BY <1>0
<1> HIDE DEF t
<1>3. /\ Sound(w)
      /\ w.sock = o.sock /\ w.ident = o.ident /\ w.told = t
      /\ w.viewers = o.viewers /\ w.host = o.host
      /\ w.rec = o.rec /\ w.stored = o.stored /\ w.alarm = o.alarm
  BY <1>1 DEF Sound, Valid, RecordOK, Object
<1> HIDE DEF w
<1>4. ViewersKnow(w) /\ EndKnown(w)
  BY <1>0, <1>2, <1>3, SnapshotFields DEF ViewersKnow, EndKnown, Knows
<1>5. HostKnows(o) => HostKnows(w)
  BY <1>0, <1>2, <1>3 DEF HostKnows, Knows
<1>6. Narrows(o, w) BY <1>3 DEF Narrows
<1>7. DropsClaims(o.rec, w.rec) /\ KeepsGrace(o, w) BY <1>3 DEF DropsClaims, KeepsGrace
<1>8. Covered(o) => Covered(w) BY <1>3 DEF Covered, Unused
<1>9. Still(o, w) BY <1>3, <1>4, <1>5, <1>6, <1>7, <1>8 DEF Still, Mild, Calm
<1>10. Still(w, p) BY <1>3, SendViewersStill
<1>11. tellViewers(o) = p BY DEF tellViewers, p, w, t
<1> HIDE DEF p
<1>12. Still(o, p) BY <1>0, <1>3, <1>9, <1>10, StillTransitive DEF Sound, Valid
<1>13. ViewersKnow(p) /\ EndKnown(p) BY <1>4, <1>10 DEF Still, Mild, Calm
<1> QED BY <1>11, <1>12, <1>13

LEMMA WithoutControlStill ==
  ASSUME NEW o, Sound(o)
  PROVE  LET p == withoutControl(o) IN
         /\ Still(o, p) /\ SameSockets(o, p)
         /\ p.stored = o.stored /\ p.alarm = o.alarm /\ p.rec.state = o.rec.state
         /\ p.rec.sessionExpiresAt = o.rec.sessionExpiresAt
         /\ p.rec.generation = o.rec.generation
         /\ Quieter(o.rec, p.rec)
<1> DEFINE q == withoutRequest(o)
           p == withoutLease(q)
<1>1. /\ Sound(q) /\ Still(o, q) /\ SameSockets(o, q) /\ Quieter(o.rec, q.rec)
      /\ q.stored = o.stored /\ q.alarm = o.alarm /\ q.rec.state = o.rec.state
  BY WithoutRequestSound, WithoutRequestStill DEF Sound, Valid
<1> HIDE DEF q
<1>2. /\ Still(q, p) /\ SameSockets(q, p) /\ Quieter(q.rec, p.rec)
      /\ p.stored = q.stored /\ p.alarm = q.alarm /\ p.rec.state = q.rec.state
  BY <1>1, WithoutLeaseStill DEF Sound, Valid
<1>3. withoutControl(o) = p BY DEF withoutControl, p, q
<1> HIDE DEF p
<1>4. Still(o, p) BY <1>1, <1>2, StillTransitive DEF Sound, Valid
<1>5. SameSockets(o, p) BY <1>1, <1>2 DEF SameSockets
<1>6. Quieter(o.rec, p.rec) BY <1>1, <1>2 DEF Quieter, DropsClaims
<1> QED BY <1>1, <1>2, <1>3, <1>4, <1>5, <1>6 DEF Quieter

\* A host is cleared when it cannot be reached any more.
LEMMA ClearHostStill ==
  ASSUME now \in Nat, NEW o, Sound(o), o.host # None, o.sock[o.host] # "open"
  PROVE  /\ Still(o, clearHost(o))
         /\ clearHost(o).host = None /\ ViewersKnow(clearHost(o))
<1> DEFINE q == withoutControl(o)
           gone == [q EXCEPT !.host = None,
                             !.hostConnected = FALSE,
                             !.details = {},
                             !.rec.hostDisconnectDeadline = now + HostGrace,
                             !.rec.state = "ready"]
           u == updateRecord(gone)
           p == tellViewers(u)
<1>1. /\ Sound(q) /\ Still(o, q) /\ SameSockets(o, q)
      /\ q.rec.sessionExpiresAt = o.rec.sessionExpiresAt
      /\ q.rec.currentControllerId = None /\ q.rec.controlLeaseExpiresAt = None
      /\ q.rec.pendingRequest = None /\ q.rec.pendingRequestExpiresAt = None
  BY WithoutControlSound, WithoutControlStill
<1>2. clearHost(o) = p BY DEF clearHost, p, u, gone, q
<1> HIDE DEF q
<1>3. now + HostGrace \in Deadline /\ now + HostGrace # None
  BY TimingAssumption DEF Deadline
<1>4. gone \in Object
  BY <1>1, <1>3 DEF Sound, Valid, Object, SessionRecord, State
<1>5. /\ gone.rec.hostDisconnectDeadline = now + HostGrace
      /\ gone.rec.state = "ready"
      /\ gone.rec.currentControllerId = None /\ gone.rec.controlLeaseExpiresAt = None
      /\ gone.rec.pendingRequest = None /\ gone.rec.pendingRequestExpiresAt = None
      /\ gone.rec.sessionExpiresAt = q.rec.sessionExpiresAt
      /\ gone.host = None /\ gone.hostConnected = FALSE /\ gone.stored = q.stored
      /\ gone.viewers = q.viewers /\ gone.ident = q.ident /\ gone.sock = q.sock
  BY <1>1 DEF Sound, Valid, Object, SessionRecord
<1> HIDE DEF gone
<1>6. Sound(gone)
  BY <1>1, <1>3, <1>4, <1>5 DEF Sound, Valid, RecordOK
<1>7. /\ Sound(u) /\ SameSockets(gone, u) /\ Covered(u) /\ u.rec = gone.rec
  BY <1>6, UpdateSound, UpdateStill
<1>7a. u.stored # None
  BY <1>6, UpdateSound, RecordAssumption DEF Sound, Valid, Object
<1> HIDE DEF u
<1>8. Sound(p) /\ Still(u, p) /\ ViewersKnow(p) /\ EndKnown(p)
  BY <1>7, TellViewersSound, TellViewersStill
<1> HIDE DEF p
<1>9. Narrows(o, u)
  BY <1>1, <1>5, <1>7 DEF Narrows, SameSockets
<1>10. Narrows(o, p)
  BY <1>7, <1>8, <1>9, NarrowsTransitive DEF Sound, Valid, Still, Mild, Calm
<1>11. DropsClaims(o.rec, p.rec)
  BY <1>5, <1>7, <1>8 DEF DropsClaims, Still, Mild, Calm
<1>12. KeepsGrace(o, p) BY DEF KeepsGrace
<1>13. Covered(p) BY <1>7, <1>8 DEF Still, Mild, Calm
<1>14. p.host = None /\ p.sock = o.sock /\ p.rec.state = "ready" /\ p.stored # None
  BY <1>1, <1>5, <1>7, <1>7a, <1>8 DEF Still, Mild, Calm, Narrows, SameSockets
<1>15. HostKnows(p) BY <1>14 DEF HostKnows
<1>16. Calm(o, p) BY <1>8, <1>10, <1>11, <1>12, <1>13, <1>14, <1>15 DEF Calm, Still, Mild
<1>17. Still(o, p) BY <1>1, <1>5, <1>7, <1>8, <1>14, <1>16 DEF Still, Mild
<1> QED BY <1>2, <1>8, <1>14, <1>17

LEMMA SendHostStill ==
  ASSUME now \in Nat, NEW o, Sound(o)
  PROVE  Still(o, sendHost(o))
BY ClearHostStill, StillItself DEF sendHost

LEMMA TellHostStill ==
  ASSUME now \in Nat, NEW o, Sound(o)
  PROVE  Still(o, tellHost(o)) /\ HostKnows(tellHost(o))
<1>1. CASE o.host # None /\ o.sock[o.host] = "open"
  <2> DEFINE p == [o EXCEPT !.told[o.host] = snapshot(o, o.host)]
  <2>0. /\ o \in Object /\ o.host \in HostSock /\ o.host \in Socket /\ o.host \notin ViewerSock
        /\ o.viewers \subseteq ViewerSock /\ o.viewers \subseteq Socket
    BY <1>1, SocketAssumption DEF Sound, Valid, Object, Socket
  <2>1. /\ p.told[o.host] = snapshot(o, o.host)
        /\ \A s \in Socket \ {o.host} : p.told[s] = o.told[s]
        /\ p.sock = o.sock /\ p.ident = o.ident
        /\ p.viewers = o.viewers /\ p.host = o.host
        /\ p.rec = o.rec /\ p.stored = o.stored /\ p.alarm = o.alarm
    BY <2>0 DEF Object
  <2>2. tellHost(o) = p BY <1>1 DEF tellHost
  <2> HIDE DEF p
  <2>3. HostKnows(p)
    BY <2>0, <2>1, SnapshotFields DEF HostKnows, Knows
  <2>4. \A v \in o.viewers : v \in Socket \ {o.host} BY <2>0
  <2>5. ViewersKnow(o) => ViewersKnow(p)
    BY <2>1, <2>4 DEF ViewersKnow, Knows
  <2>6. EndKnown(o) => EndKnown(p)
    BY <2>1, <2>4 DEF EndKnown
  <2>7. Narrows(o, p) BY <2>1 DEF Narrows
  <2>8. DropsClaims(o.rec, p.rec) /\ KeepsGrace(o, p) BY <2>1 DEF DropsClaims, KeepsGrace
  <2>9. Covered(o) => Covered(p) BY <2>1 DEF Covered, Unused
  <2>10. Still(o, p) BY <2>1, <2>3, <2>5, <2>6, <2>7, <2>8, <2>9 DEF Still, Mild, Calm
  <2> QED BY <2>2, <2>3, <2>10
<1>2. CASE o.host = None
  BY <1>2, StillItself DEF tellHost, sendHost, HostKnows
<1>3. CASE o.host # None /\ o.sock[o.host] # "open"
  <2>1. tellHost(o) = clearHost(o) BY <1>3 DEF tellHost, sendHost
  <2> QED BY <1>3, <2>1, ClearHostStill DEF HostKnows
<1> QED BY <1>1, <1>2, <1>3

\* After a broadcast everybody that can be reached knows.
LEMMA BroadcastStill ==
  ASSUME now \in Nat, NEW o, Sound(o)
  PROVE  LET p == broadcastStatus(o) IN
         /\ Sound(p) /\ Still(o, p)
         /\ HostKnows(p) /\ ViewersKnow(p) /\ EndKnown(p)
<1> DEFINE t == tellHost(o)
           p == tellViewers(t)
<1>1. Sound(t) /\ Still(o, t) /\ HostKnows(t)
  BY TellHostSound, TellHostStill DEF Reaches
<1> HIDE DEF t
<1>2. Sound(p) /\ Still(t, p) /\ ViewersKnow(p) /\ EndKnown(p)
  BY <1>1, TellViewersSound, TellViewersStill
<1> HIDE DEF p
<1>3. Still(o, p) BY <1>1, <1>2, StillTransitive DEF Sound, Valid
<1>4. HostKnows(p) BY <1>1, <1>2 DEF Still, Mild, Calm
<1> QED BY <1>2, <1>3, <1>4 DEF broadcastStatus, p, t

----------------------------------------------------------------------------
(* Deadlines.                                                              *)

LEMMA QuieterTransitive ==
  ASSUME NEW r, NEW q, NEW u, Quieter(r, q), Quieter(q, u)
  PROVE  Quieter(r, u)
BY DEF Quieter, DropsClaims

\* All that an operator on the record leaves alone.
SameRest(o, p) ==
  SameSockets(o, p) /\ p.stored = o.stored /\ p.alarm = o.alarm

LEMMA CloseSessionQuieter ==
  ASSUME NEW o, Sound(o), NEW reason
  PROVE  LET p == closeSession(o, reason) IN
         /\ SameRest(o, p) /\ Quieter(o.rec, p.rec)
         /\ p.rec.state = "closed"
         /\ o.rec.state # "closed" => p.rec.hostDisconnectDeadline = None
         /\ o.rec.state = "closed" => p = o
<1>1. CASE o.rec.state = "closed"
  BY <1>1 DEF closeSession, SameRest, SameSockets, Quieter, DropsClaims
<1>2. CASE o.rec.state # "closed"
  <2> DEFINE q == withoutControl(o)
             p == [q EXCEPT !.hostConnected = FALSE,
                            !.rec.state = "closed",
                            !.rec.endReason = reason,
                            !.rec.hostDisconnectDeadline = None]
  <2>1. /\ q \in Object /\ SameRest(o, q) /\ Quieter(o.rec, q.rec)
    BY WithoutControlSound, WithoutControlStill DEF SameRest, Sound, Valid
  <2>2. closeSession(o, reason) = p
    BY <1>2 DEF closeSession
  <2> HIDE DEF q
  <2>3. SameRest(q, p)
    BY <2>1 DEF SameRest, SameSockets, Object
  <2>4. /\ p.rec.state = "closed" /\ p.rec.hostDisconnectDeadline = None
        /\ Quieter(q.rec, p.rec)
    BY <2>1 DEF Quieter, DropsClaims, Object, SessionRecord
  <2> HIDE DEF p
  <2>5. Quieter(o.rec, p.rec) BY <2>1, <2>4, QuieterTransitive
  <2>6. SameRest(o, p) BY <2>1, <2>3 DEF SameRest, SameSockets
  <2> QED BY <1>2, <2>2, <2>4, <2>5, <2>6
<1> QED BY <1>1, <1>2

LEMMA EndSharingQuieter ==
  ASSUME NEW o, Sound(o), o.rec.state \notin {"closed", "idle"}, NEW reason \in EndReasons
  PROVE  LET p == endSharing(o, reason) IN
         /\ SameRest(o, p) /\ Quieter(o.rec, p.rec)
         /\ p.rec.state = "ended"
<1> DEFINE q == closeSession(o, reason)
           p == [q EXCEPT !.rec.state = "ended"]
<1>1. /\ q \in Object /\ SameRest(o, q) /\ Quieter(o.rec, q.rec)
  BY CloseSessionSound, CloseSessionQuieter DEF Sound, Valid
<1>2. endSharing(o, reason) = p BY DEF endSharing
<1> HIDE DEF q
<1>3. SameRest(q, p) BY <1>1 DEF SameRest, SameSockets, Object
<1>4. /\ p.rec.state = "ended"
      /\ p.rec.generation = q.rec.generation
      /\ p.rec.sessionExpiresAt = q.rec.sessionExpiresAt
      /\ p.rec.hostDisconnectDeadline = q.rec.hostDisconnectDeadline
      /\ p.rec.currentControllerId = q.rec.currentControllerId
      /\ p.rec.controlLeaseExpiresAt = q.rec.controlLeaseExpiresAt
      /\ p.rec.pendingRequest = q.rec.pendingRequest
      /\ p.rec.pendingRequestExpiresAt = q.rec.pendingRequestExpiresAt
  BY <1>1 DEF Object, SessionRecord
<1> HIDE DEF p
<1>5. Quieter(o.rec, p.rec) BY <1>1, <1>4 DEF Quieter, DropsClaims
<1>6. SameRest(o, p) BY <1>1, <1>3 DEF SameRest, SameSockets
<1> QED BY <1>2, <1>4, <1>5, <1>6

LEMMA ExpireQuieter ==
  ASSUME NEW o, Sound(o)
  PROVE  LET p == expireLease(expireRequest(o)) IN
         /\ Sound(p) /\ SameRest(o, p) /\ Quieter(o.rec, p.rec)
         /\ p.hostConnected = o.hostConnected
         /\ p.rec.state = o.rec.state
         /\ p.rec.hostDisconnectDeadline = o.rec.hostDisconnectDeadline
         /\ o.rec.state # "active" => p = o
<1> DEFINE q == expireRequest(o)
           p == expireLease(q)
<1>0. Quieter(o.rec, o.rec) BY DEF Quieter, DropsClaims
<1>1. /\ Sound(q) /\ SameRest(o, q) /\ Quieter(o.rec, q.rec)
      /\ q.hostConnected = o.hostConnected
      /\ q.rec.state = o.rec.state
      /\ q.rec.hostDisconnectDeadline = o.rec.hostDisconnectDeadline
      /\ o.rec.state # "active" => q = o
  <2>1. CASE Due(o.rec.pendingRequestExpiresAt)
    <3>1. o.rec.state = "active" BY <2>1 DEF Due, Sound, Valid, RecordOK
    <3> QED BY <2>1, <3>1, WithoutRequestSound, WithoutRequestStill
        DEF expireRequest, SameRest, Sound, Valid
  <2>2. CASE ~Due(o.rec.pendingRequestExpiresAt)
    BY <1>0, <2>2 DEF expireRequest, SameRest, SameSockets
  <2> QED BY <2>1, <2>2
<1> HIDE DEF q
<1>2. Quieter(q.rec, q.rec) BY DEF Quieter, DropsClaims
<1>3. /\ Sound(p) /\ SameRest(q, p) /\ Quieter(q.rec, p.rec)
      /\ p.hostConnected = q.hostConnected
      /\ p.rec.state = q.rec.state
      /\ p.rec.hostDisconnectDeadline = q.rec.hostDisconnectDeadline
      /\ q.rec.state # "active" => p = q
  <2>1. CASE Due(q.rec.controlLeaseExpiresAt)
    <3>1. q.rec.state = "active" BY <1>1, <2>1 DEF Due, Sound, Valid, RecordOK
    <3> QED BY <1>1, <2>1, <3>1, WithoutLeaseSound, WithoutLeaseStill
        DEF expireLease, SameRest, Sound, Valid
  <2>2. CASE ~Due(q.rec.controlLeaseExpiresAt)
    BY <1>1, <1>2, <2>2 DEF expireLease, SameRest, SameSockets
  <2> QED BY <2>1, <2>2
<1> HIDE DEF p
<1>4. Quieter(o.rec, p.rec) BY <1>1, <1>3, QuieterTransitive
<1>5. SameRest(o, p) BY <1>1, <1>3 DEF SameRest, SameSockets
<1> QED BY <1>1, <1>3, <1>4, <1>5 DEF p, q

\* Between two events the state follows the host already.
LEMMA FollowHostSame ==
  ASSUME NEW o, Sound(o)
  PROVE  followHost(o) = o
<1>1. /\ o.rec.state \in State /\ (o.hostConnected <=> o.rec.state = "active")
      /\ o.rec = [o.rec EXCEPT !.state = o.rec.state]
  BY DEF Sound, Valid, Object, SessionRecord
<1>2. o = [o EXCEPT !.rec.state = o.rec.state]
  BY <1>1 DEF Sound, Valid, Object
<1> QED BY <1>1, <1>2 DEF followHost, State

\* What the deadlines that have passed make of the object.
LEMMA AdvanceRecordQuieter ==
  ASSUME NEW o, Sound(o), Resting(o)
  PROVE  LET p == advanceRecord(o) IN
         /\ SameRest(o, p) /\ Quieter(o.rec, p.rec)
         /\ Due(o.rec.sessionExpiresAt) => p.rec.state = "closed"
         /\ \/ p.rec.state = "closed" /\ p.rec.hostDisconnectDeadline = None
            \/ p.rec.state = "ended"
            \/ /\ p.rec.state = o.rec.state
               /\ p.rec.hostDisconnectDeadline = o.rec.hostDisconnectDeadline
         /\ o.rec.state = "idle" => p = o \/ Due(o.rec.sessionExpiresAt)
<1> DEFINE e == expireLease(expireRequest(o))
           p == advanceRecord(o)
<1>1. /\ Sound(e) /\ SameRest(o, e) /\ Quieter(o.rec, e.rec)
      /\ e.rec.state = o.rec.state
      /\ e.rec.hostDisconnectDeadline = o.rec.hostDisconnectDeadline
      /\ o.rec.state # "active" => e = o
  BY ExpireQuieter
<1>2. p = IF Due(o.rec.sessionExpiresAt) THEN closeSession(o, "session expired")
          ELSE IF ~o.hostConnected /\ Due(o.rec.hostDisconnectDeadline)
               THEN endSharing(e, "host disconnected")
               ELSE followHost(e)
  BY DEF advanceRecord
<1> HIDE DEF e, p
<1>3. CASE Due(o.rec.sessionExpiresAt)
  <2>1. p = closeSession(o, "session expired") BY <1>2, <1>3
  <2>2. /\ SameRest(o, p) /\ Quieter(o.rec, p.rec)
        /\ p.rec.state = "closed"
        /\ o.rec.state # "closed" => p.rec.hostDisconnectDeadline = None
        /\ o.rec.state = "closed" => p = o
    BY <2>1, CloseSessionQuieter
  <2> QED BY <1>3, <2>2 DEF Resting, p
<1>4. CASE ~Due(o.rec.sessionExpiresAt) /\ ~o.hostConnected /\ Due(o.rec.hostDisconnectDeadline)
  <2>1. o.rec.state \notin {"closed", "idle"} BY <1>4 DEF Resting, Due
  <2>2. /\ SameRest(e, p) /\ Quieter(e.rec, p.rec) /\ p.rec.state = "ended"
    BY <1>1, <1>2, <1>4, <2>1, EndSharingQuieter DEF EndReasons
  <2>3. Quieter(o.rec, p.rec) BY <1>1, <2>2, QuieterTransitive
  <2>4. SameRest(o, p) BY <1>1, <2>2 DEF SameRest, SameSockets
  <2> QED BY <1>4, <2>1, <2>2, <2>3, <2>4 DEF p
<1>5. CASE ~Due(o.rec.sessionExpiresAt) /\ ~(~o.hostConnected /\ Due(o.rec.hostDisconnectDeadline))
  <2>1. p = e BY <1>1, <1>2, <1>5, FollowHostSame
  <2> QED BY <1>1, <1>5, <2>1 DEF p
<1> QED BY <1>3, <1>4, <1>5

\* The end of a sharing is announced before the sockets are closed.
LEMMA FinishSharingCalm ==
  ASSUME now \in Nat, NEW o, Valid(o), o.rec.state \in {"closed", "ended"}
  PROVE  LET p == finishSharing(o) IN
         /\ Calm(o, p) /\ p.rec.sessionExpiresAt = o.rec.sessionExpiresAt
         /\ EndKnown(p) /\ HostKnows(p) /\ ViewersKnow(p)
         /\ p.host = None
         /\ p.rec.state \in {o.rec.state, "ready"}
<1> DEFINE q == [o EXCEPT !.hostConnected = FALSE, !.details = {}]
           told == broadcastStatus(q)
           r == Shut(told, {told.host})
           p == [r EXCEPT !.host = None]
<1>0. o \in Object BY DEF Valid
<1>1. /\ Sound(q) /\ SameRest(o, q) /\ q.rec = o.rec
  BY DEF Sound, Valid, RecordOK, Object, SameRest, SameSockets
<1>2. finishSharing(o) = p
  BY DEF finishSharing, r, told, q
<1> HIDE DEF q
<1>3. Still(o, q)
  <2>1. Covered(o) => Covered(q) BY <1>1 DEF Covered, Unused, SameRest
  <2> QED BY <1>1, <2>1, StorageStill DEF SameRest
<1>4. /\ Sound(told) /\ Still(q, told)
      /\ HostKnows(told) /\ ViewersKnow(told) /\ EndKnown(told)
  BY <1>1, BroadcastStill
<1> HIDE DEF told
<1>5. Still(o, told)
  BY <1>0, <1>1, <1>3, <1>4, StillTransitive DEF Sound, Valid
<1>6. told \in Object /\ r \in Object
  BY <1>4, ShutSound DEF Sound, Valid
<1>7. /\ Mild(told, r) /\ r.rec = told.rec /\ r.host = told.host
      /\ \A s \in Socket : r.sock[s] = IF s \in {told.host} /\ told.sock[s] = "open"
                                       THEN "closing" ELSE told.sock[s]
  BY <1>6, ShutMild
<1> HIDE DEF r
<1>8. /\ p.sock = r.sock /\ p.ident = r.ident /\ p.told = r.told
      /\ p.viewers = r.viewers /\ p.host = None
      /\ p.rec = r.rec /\ p.stored = r.stored /\ p.alarm = r.alarm
  BY <1>6 DEF Object
<1> HIDE DEF p
<1>9. r.host \in Socket \cup {None} BY <1>6 DEF Object, Socket
<1>10. Narrows(r, p)
  BY <1>7, <1>8, <1>9 DEF Narrows
<1>11. DropsClaims(r.rec, p.rec) /\ KeepsGrace(r, p) BY <1>8 DEF DropsClaims, KeepsGrace
<1>12. Covered(r) => Covered(p) BY <1>8 DEF Covered, Unused
<1>13. HostKnows(p) BY <1>8 DEF HostKnows
<1>14. /\ ViewersKnow(r) => ViewersKnow(p)
       /\ EndKnown(r) => EndKnown(p)
  BY <1>8 DEF ViewersKnow, Knows, EndKnown
<1>15. Calm(r, p) BY <1>8, <1>10, <1>11, <1>12, <1>13, <1>14 DEF Calm
<1>16. Calm(told, p) BY <1>6, <1>7, <1>15, CalmTransitive DEF Mild
<1>17. Calm(o, p) BY <1>0, <1>5, <1>6, <1>16, CalmTransitive DEF Still, Mild
<1>18. ViewersKnow(p) /\ EndKnown(p)
  BY <1>4, <1>7, <1>14 DEF Mild, Calm
<1> QED BY <1>2, <1>5, <1>7, <1>8, <1>13, <1>17, <1>18 DEF Still, Mild

\* Nobody stays connected to a session that is closed.
LEMMA FinishClosedCalm ==
  ASSUME now \in Nat, NEW o, Valid(o), o.rec.state = "closed"
  PROVE  LET p == finishClosedSession(o) IN
         /\ Calm(o, p) /\ p.rec.sessionExpiresAt = o.rec.sessionExpiresAt
         /\ p.host = None /\ p.viewers = {}
         /\ \/ /\ p.rec.state = "closed"
               /\ p.rec.hostDisconnectDeadline = o.rec.hostDisconnectDeadline
            \/ p.rec.state = "ready"
<1> DEFINE q == [o EXCEPT !.hostConnected = FALSE]
           told == broadcastStatus(q)
           gone == {told.host} \cup told.viewers
           r == Shut(told, gone)
           p == [r EXCEPT !.host = None, !.viewers = {}, !.details = {}]
<1>0. o \in Object BY DEF Valid
<1>1. /\ Sound(q) /\ SameRest(o, q) /\ q.rec = o.rec
  BY DEF Sound, Valid, RecordOK, Object, SameRest, SameSockets
<1>2. finishClosedSession(o) = p
  BY DEF finishClosedSession, r, gone, told, q
<1> HIDE DEF q
<1>3. Still(o, q)
  <2>1. Covered(o) => Covered(q) BY <1>1 DEF Covered, Unused, SameRest
  <2> QED BY <1>1, <2>1, StorageStill DEF SameRest
<1>4. Sound(told) /\ Still(q, told) BY <1>1, BroadcastStill
<1>4a. told.host \in gone /\ told.viewers \subseteq gone OBVIOUS
<1> HIDE DEF told, gone
<1>5. Still(o, told)
  BY <1>0, <1>1, <1>3, <1>4, StillTransitive DEF Sound, Valid
<1>6. told \in Object /\ r \in Object
  BY <1>4, ShutSound DEF Sound, Valid
<1>7. /\ Mild(told, r) /\ r.rec = told.rec /\ r.host = told.host /\ r.viewers = told.viewers
      /\ \A s \in Socket : r.sock[s] = IF s \in gone /\ told.sock[s] = "open"
                                       THEN "closing" ELSE told.sock[s]
  BY <1>6, ShutMild
<1> HIDE DEF r
<1>8. /\ p.sock = r.sock /\ p.ident = r.ident /\ p.told = r.told
      /\ p.viewers = {} /\ p.host = None
      /\ p.rec = r.rec /\ p.stored = r.stored /\ p.alarm = r.alarm
  BY <1>6 DEF Object
<1> HIDE DEF p
<1>9. r.host \in Socket \cup {None} /\ r.viewers \subseteq Socket BY <1>6 DEF Object, Socket
<1>10. Narrows(r, p)
  BY <1>4a, <1>7, <1>8, <1>9 DEF Narrows
<1>11. DropsClaims(r.rec, p.rec) /\ KeepsGrace(r, p) BY <1>8 DEF DropsClaims, KeepsGrace
<1>12. Covered(r) => Covered(p) BY <1>8 DEF Covered, Unused
<1>13. HostKnows(p) /\ ViewersKnow(p) BY <1>8 DEF HostKnows, ViewersKnow
<1>15. Calm(r, p) BY <1>8, <1>10, <1>11, <1>12, <1>13 DEF Calm
<1>16. Calm(told, p) BY <1>6, <1>7, <1>15, CalmTransitive DEF Mild
<1>17. Calm(o, p) BY <1>0, <1>5, <1>6, <1>16, CalmTransitive DEF Still, Mild
<1> QED BY <1>2, <1>5, <1>7, <1>8, <1>17 DEF Still, Mild

LEMMA PersistStill ==
  ASSUME NEW o, Sound(o), ~Unused(o)
  PROVE  Still(o, persistRecord(o))
<1> DEFINE q == persistRecord(o)
<1>1. /\ SameSockets(o, q) /\ q.rec = o.rec /\ q.stored = o.rec /\ q.alarm = o.alarm
  BY DEF persistRecord, Sound, Valid, Object, SameSockets
<1>2. q.stored # None BY <1>1, RecordAssumption DEF Sound, Valid, Object
<1> HIDE DEF q
<1>3. Covered(o) => Covered(q) BY <1>1, <1>2 DEF Covered
<1>4. Still(o, q) BY <1>1, <1>2, <1>3, StorageStill
<1> QED BY <1>4 DEF q

\* The deadlines are applied, written and acted on: who is let go is told.
LEMMA AdvanceCalm ==
  ASSUME now \in Nat, NEW o, Settled(o), Resting(o)
  PROVE  LET p == advanceRecordAndPersist(o) IN
         /\ Calm(o, p) /\ p.rec.sessionExpiresAt = o.rec.sessionExpiresAt
         /\ EndKnown(o) => EndKnown(p)
         /\ Resting(p)
<1> DEFINE a == advanceRecord(o)
           q == persistRecord(a)
           p == advanceRecordAndPersist(o)
<1>0. o \in Object /\ Sound(o) BY DEF Settled, Sound, Valid
<1>1. /\ Sound(a) /\ SameRest(o, a) /\ Quieter(o.rec, a.rec)
      /\ Due(o.rec.sessionExpiresAt) => a.rec.state = "closed"
      /\ \/ a.rec.state = "closed" /\ a.rec.hostDisconnectDeadline = None
         \/ a.rec.state = "ended"
         \/ /\ a.rec.state = o.rec.state
            /\ a.rec.hostDisconnectDeadline = o.rec.hostDisconnectDeadline
      /\ o.rec.state = "idle" => a = o \/ Due(o.rec.sessionExpiresAt)
  BY <1>0, AdvanceRecordSound, AdvanceRecordQuieter
<1>2. Advances(o) <=> Due(o.rec.sessionExpiresAt) \/ a # o
  BY DEF Advances
<1>3. p = IF ~Advances(o) THEN o
          ELSE IF q.rec.state = "closed" THEN finishClosedSession(q)
          ELSE IF q.rec.state = "ended" THEN finishSharing(q)
          ELSE q
  BY DEF advanceRecordAndPersist
<1> HIDE DEF a, p
<1>4. CASE ~Advances(o)
  <2>1. p = o BY <1>3, <1>4
  <2>2. Still(o, p) BY <2>1, StillItself
  <2> QED BY <2>1, <2>2 DEF Still, Mild, p
<1>5. CASE Advances(o)
  <2>1. ~Unused(a)
    BY <1>1, <1>2, <1>5 DEF Unused
  <2>2. /\ Sound(q) /\ Still(a, q) /\ q.rec = a.rec
        /\ SameSockets(a, q)
    BY <1>1, <2>1, PersistSound, PersistStill
    DEF persistRecord, SameSockets, Sound, Valid, Object
  <2>3. Calm(o, a) /\ a.rec.sessionExpiresAt = o.rec.sessionExpiresAt
    BY <1>1, RecordCalm DEF SameRest
  <2> HIDE DEF q
  <2>4. a \in Object /\ q \in Object BY <1>1, <2>2 DEF Sound, Valid
  <2>5. Calm(o, q) /\ q.rec.sessionExpiresAt = o.rec.sessionExpiresAt
    BY <1>0, <2>2, <2>3, <2>4, CalmTransitive DEF Still, Mild
  <2>6. q.rec.state = "closed" => q.rec.hostDisconnectDeadline = None
    BY <1>1, <2>2 DEF Resting
  <2>7. CASE q.rec.state = "closed"
    <3>1. p = finishClosedSession(q) BY <1>3, <1>5, <2>7
    <3>2. /\ Calm(q, p) /\ p.rec.sessionExpiresAt = q.rec.sessionExpiresAt
          /\ p.host = None /\ p.viewers = {}
          /\ \/ /\ p.rec.state = "closed"
                /\ p.rec.hostDisconnectDeadline = q.rec.hostDisconnectDeadline
             \/ p.rec.state = "ready"
      BY <2>2, <2>7, <3>1, FinishClosedCalm DEF Sound
    <3>3. Calm(o, p) BY <1>0, <2>4, <2>5, <3>2, CalmTransitive
    <3>4. EndKnown(p) /\ Resting(p) BY <2>6, <2>7, <3>2 DEF EndKnown, Resting
    <3> QED BY <2>5, <3>2, <3>3, <3>4 DEF p
  <2>8. CASE q.rec.state = "ended"
    <3>1. p = finishSharing(q) BY <1>3, <1>5, <2>8
    <3>2. /\ Calm(q, p) /\ p.rec.sessionExpiresAt = q.rec.sessionExpiresAt
          /\ EndKnown(p) /\ p.rec.state \in {q.rec.state, "ready"}
      BY <2>2, <2>8, <3>1, FinishSharingCalm DEF Sound
    <3>3. Calm(o, p) BY <1>0, <2>4, <2>5, <3>2, CalmTransitive
    <3>4. Resting(p) BY <2>8, <3>2 DEF Resting
    <3> QED BY <2>5, <3>2, <3>3, <3>4 DEF p
  <2>9. CASE q.rec.state \notin {"closed", "ended"}
    <3>1. p = q BY <1>3, <1>5, <2>9
    <3>2. Resting(q)
      BY <1>1, <2>2, <2>9 DEF Resting
    <3>3. EndKnown(q) BY <2>9 DEF EndKnown
    <3> QED BY <2>5, <3>1, <3>2, <3>3 DEF p
  <2> QED BY <2>7, <2>8, <2>9
<1> QED BY <1>4, <1>5

LEMMA MildKept ==
  ASSUME NEW o, NEW p, o \in Object, Mild(o, p)
  PROVE  /\ Kept(o) => Kept(p)
         /\ Covered(o) => Covered(p)
<1>1. Owned(o) => Owned(p) BY NarrowsOwned DEF Mild, Calm
<1>2. Resting(o) => Resting(p) BY DEF Mild, Calm, Narrows, Resting
<1> QED BY <1>1, <1>2 DEF Mild, Calm, Kept

LEMMA CalmKept ==
  ASSUME NEW o, NEW p, o \in Object, Calm(o, p), Kept(o), EndKnown(p), Resting(p)
  PROVE  Kept(p)
<1>1. Owned(p) BY NarrowsOwned DEF Calm, Kept
<1> QED BY <1>1 DEF Calm, Kept

LEMMA AdvanceKept ==
  ASSUME now \in Nat, NEW o, Settled(o), Kept(o)
  PROVE  LET p == advanceRecordAndPersist(o) IN
         /\ Settled(p) /\ Kept(p) /\ Calm(o, p)
         /\ p.rec.sessionExpiresAt = o.rec.sessionExpiresAt
<1> DEFINE p == advanceRecordAndPersist(o)
<1>1. Settled(p) BY AdvanceAndPersistSettled
<1>2. /\ Calm(o, p) /\ p.rec.sessionExpiresAt = o.rec.sessionExpiresAt
      /\ EndKnown(p) /\ Resting(p)
  BY AdvanceCalm DEF Kept
<1> HIDE DEF p
<1>3. Kept(p) BY <1>2, CalmKept DEF Settled, Sound, Valid
<1> QED BY <1>1, <1>2, <1>3 DEF p

\* What a handler of messages and the alarm start from.
LEMMA TellKept ==
  ASSUME now \in Nat, NEW o, Settled(o), Kept(o)
  PROVE  LET p == advanceAndTell(o) IN
         /\ Settled(p) /\ Kept(p) /\ Calm(o, p)
         /\ p.rec.sessionExpiresAt = o.rec.sessionExpiresAt
<1> DEFINE a == advanceRecordAndPersist(o)
           b == broadcastStatus(a)
           p == advanceAndTell(o)
<1>0. o \in Object BY DEF Settled, Sound, Valid
<1>1. /\ Settled(a) /\ Kept(a) /\ Calm(o, a)
      /\ a.rec.sessionExpiresAt = o.rec.sessionExpiresAt
  BY AdvanceKept
<1>2. p = IF Advances(o) THEN b ELSE o BY DEF advanceAndTell
<1> HIDE DEF a, p
<1>3. Settled(b) /\ Still(a, b)
  BY <1>1, BroadcastSettled, BroadcastStill DEF Settled
<1> HIDE DEF b
<1>4. a \in Object BY <1>1 DEF Settled, Sound, Valid
<1>5. Kept(b) BY <1>1, <1>3, <1>4, MildKept DEF Still
<1>6. Calm(o, b) BY <1>0, <1>1, <1>3, <1>4, CalmTransitive DEF Still, Mild
<1>7. Calm(o, o) BY StillItself DEF Still, Mild
<1> QED BY <1>1, <1>2, <1>3, <1>5, <1>6, <1>7 DEF p, Still

----------------------------------------------------------------------------
(* Handlers.                                                               *)

\* A record that is written with other fields than the properties look at.
LEMMA RewriteMild ==
  ASSUME NEW o, NEW p, Sound(p), SameSockets(o, p), SameClaims(o.rec, p.rec),
         p.rec.generation = o.rec.generation, p.rec.state = o.rec.state,
         p.rec.hostDisconnectDeadline = o.rec.hostDisconnectDeadline
  PROVE  LET u == updateRecord(p) IN
         Mild(o, u) /\ SameSockets(o, u)
<1> DEFINE u == updateRecord(p)
<1>1. Sound(u) /\ u.rec = p.rec /\ u.stored = p.rec /\ Covered(u) /\ SameSockets(p, u)
  BY UpdateSound, UpdateStill
<1>2. u.stored # None BY <1>1, RecordAssumption DEF Sound, Valid, Object
<1> HIDE DEF u
<1>3. SameSockets(o, u) BY <1>1 DEF SameSockets
<1>4. Narrows(o, u) BY <1>3, SameSocketsNarrow
<1>5. DropsClaims(o.rec, u.rec) /\ KeepsGrace(o, u)
  BY <1>1, <1>3 DEF DropsClaims, KeepsGrace, SameClaims, SameSockets
<1>6. /\ HostKnows(o) => HostKnows(u)
      /\ ViewersKnow(o) => ViewersKnow(u)
      /\ EndKnown(o) => EndKnown(u)
  BY <1>1, <1>3 DEF HostKnows, ViewersKnow, Knows, EndKnown, SameSockets, SameClaims
<1> QED BY <1>1, <1>2, <1>3, <1>4, <1>5, <1>6 DEF Mild, Calm, u

LEMMA TouchMild ==
  ASSUME now \in Nat, NEW o, Settled(o)
  PROVE  LET p == touchSession(o) IN
         Settled(p) /\ Mild(o, p) /\ SameSockets(o, p)
<1> DEFINE next == Min({now + IdleTTL, o.rec.maxExpiresAt})
           p == [o EXCEPT !.rec.sessionExpiresAt = next]
           u == updateRecord(p)
<1>1. {now + IdleTTL, o.rec.maxExpiresAt} \subseteq Nat
  BY TimingAssumption DEF Settled, Sound, Valid, Object, SessionRecord
<1>2. next \in Nat BY <1>1, MinOfNaturals
<1>3. touchSession(o) \in {o, u} BY DEF touchSession
<1> HIDE DEF next
<1>4. p \in Object
  BY <1>2 DEF Settled, Sound, Valid, Object, SessionRecord
<1>5. /\ p.hostConnected = o.hostConnected /\ p.stored = o.stored
      /\ SameSockets(o, p) /\ SameClaims(o.rec, p.rec)
      /\ p.rec.generation = o.rec.generation
      /\ p.rec.state = o.rec.state
      /\ p.rec.hostDisconnectDeadline = o.rec.hostDisconnectDeadline
  BY DEF Settled, Sound, Valid, Object, SessionRecord, SameSockets, SameClaims
<1> HIDE DEF p
<1>6. Sound(p)
  BY <1>4, <1>5 DEF Settled, Sound, Valid, RecordOK, SameSockets, SameClaims
<1>7. Mild(o, u) /\ SameSockets(o, u) BY <1>5, <1>6, RewriteMild
<1>8. Mild(o, o) /\ SameSockets(o, o) BY StillItself DEF Still, SameSockets
<1>9. Settled(touchSession(o)) BY TouchSettled
<1> HIDE DEF u
<1> QED BY <1>3, <1>7, <1>8, <1>9

LEMMA ResolveMild ==
  ASSUME NEW o, Settled(o), NEW id \in Viewer
  PROVE  LET p == resolveViewerIdentity(o, id) IN
         Settled(p) /\ Mild(o, p) /\ SameSockets(o, p)
<1> DEFINE p == [o EXCEPT !.rec.viewerIdentities = @ \cup {id}]
           u == updateRecord(p)
<1>1. p \in Object
  BY DEF Settled, Sound, Valid, Object, SessionRecord
<1>2. /\ p.hostConnected = o.hostConnected /\ p.stored = o.stored
      /\ SameSockets(o, p) /\ SameClaims(o.rec, p.rec)
      /\ p.rec.generation = o.rec.generation
      /\ p.rec.state = o.rec.state
      /\ p.rec.hostDisconnectDeadline = o.rec.hostDisconnectDeadline
  BY DEF Settled, Sound, Valid, Object, SessionRecord, SameSockets, SameClaims
<1>3. resolveViewerIdentity(o, id) \in {o, u}
  BY DEF resolveViewerIdentity
<1> HIDE DEF p
<1>4. Sound(p)
  BY <1>1, <1>2 DEF Settled, Sound, Valid, RecordOK, SameSockets, SameClaims
<1>5. Mild(o, u) /\ SameSockets(o, u) BY <1>2, <1>4, RewriteMild
<1>6. Mild(o, o) /\ SameSockets(o, o) BY StillItself DEF Still, SameSockets
<1>7. Settled(resolveViewerIdentity(o, id)) BY ResolveSettled
<1> HIDE DEF u
<1> QED BY <1>3, <1>5, <1>6, <1>7

\* A changed record that is written and announced: everybody knows it.
LEMMA AnnounceStill ==
  ASSUME now \in Nat, NEW o, Sound(o)
  PROVE  LET p == broadcastStatus(updateRecord(o)) IN
         /\ Sound(p) /\ Still(o, p) /\ Covered(p)
         /\ HostKnows(p) /\ ViewersKnow(p) /\ EndKnown(p)
<1> DEFINE u == updateRecord(o)
           p == broadcastStatus(u)
<1>1. Sound(u) /\ Still(o, u) /\ Covered(u)
  BY UpdateSound, UpdateStill
<1> HIDE DEF u
<1>2. /\ Sound(p) /\ Still(u, p)
      /\ HostKnows(p) /\ ViewersKnow(p) /\ EndKnown(p)
  BY <1>1, BroadcastStill
<1> HIDE DEF p
<1>3. Still(o, p) BY <1>1, <1>2, StillTransitive DEF Sound, Valid
<1>4. Covered(p) BY <1>1, <1>2 DEF Still, Mild, Calm
<1> QED BY <1>2, <1>3, <1>4 DEF p, u

LEMMA AnnounceKept ==
  ASSUME now \in Nat, NEW o, Sound(o), Owned(o), Resting(o)
  PROVE  LET p == broadcastStatus(updateRecord(o)) IN
         Kept(p) /\ Covered(p) /\ Still(o, p)
<1> DEFINE p == broadcastStatus(updateRecord(o))
<1>1. /\ Still(o, p) /\ Covered(p)
      /\ HostKnows(p) /\ ViewersKnow(p) /\ EndKnown(p)
  BY AnnounceStill
<1> HIDE DEF p
<1>2. Owned(p) BY <1>1, NarrowsOwned DEF Still, Mild, Calm, Sound, Valid
<1>3. Resting(p) BY <1>1 DEF Still, Mild, Calm, Narrows, Resting
<1> QED BY <1>1, <1>2, <1>3 DEF Kept, p

\* What a step may do to a lease in force and to a grace period that runs.
KeepsLease(r, q) ==
  r.currentControllerId # None /\ q.currentControllerId = r.currentControllerId
    => q.controlLeaseExpiresAt = r.controlLeaseExpiresAt

KeepsDeadline(r, q) ==
  r.hostDisconnectDeadline # None /\ q.hostDisconnectDeadline # None
    => q.hostDisconnectDeadline = r.hostDisconnectDeadline

\* What every event makes of the object.
Outcome(o, p) ==
  Kept(p) /\ Covered(p) /\ KeepsLease(o.rec, p.rec) /\ KeepsDeadline(o.rec, p.rec)

\* A host is known while no grace period runs.
LEMMA GraceWithoutHost ==
  ASSUME NEW o, Settled(o), o.rec.hostDisconnectDeadline # None
  PROVE  o.host = None
BY DEF Settled, Sound, Valid, RecordOK

LEMMA CalmOutcome ==
  ASSUME NEW o, NEW p, Settled(o), Calm(o, p), Kept(p), Covered(o)
  PROVE  Outcome(o, p)
<1>1. KeepsLease(o.rec, p.rec) BY DEF KeepsLease, Calm, DropsClaims
<1>2. KeepsDeadline(o.rec, p.rec)
  BY GraceWithoutHost DEF KeepsDeadline, Calm, KeepsGrace
<1> QED BY <1>1, <1>2 DEF Outcome, Calm

\* Most messages only make little of what was heard.
LEMMA MildOutcome ==
  ASSUME NEW o, NEW a, NEW p, Settled(o), Settled(a), Calm(o, a), Kept(a), Covered(o),
         Mild(a, p)
  PROVE  Outcome(o, p)
<1>1. o \in Object /\ a \in Object BY DEF Settled, Sound, Valid
<1>2. Calm(o, p) BY <1>1, CalmTransitive DEF Mild
<1>3. Kept(p) BY <1>1, MildKept
<1> QED BY <1>2, <1>3, CalmOutcome

----------------------------------------------------------------------------
(* Connections.                                                            *)

\* The new host takes the place of the old one, whose socket is closed.
LEMMA AcceptHostKept ==
  ASSUME now \in Nat, NEW o, Settled(o), Kept(o), NEW h \in HostSock
  PROVE  LET p == acceptHost(o, h) IN
         /\ Kept(p) /\ Covered(p)
         /\ p.rec.currentControllerId = None
         /\ p.rec.hostDisconnectDeadline = None
<1> DEFINE t == touchSession(o)
           r == Shut(t, {t.host})
           c == withoutControl(r)
           joined == [c EXCEPT !.sock[h] = "open",
                               !.host = h,
                               !.hostConnected = TRUE,
                               !.details = {},
                               !.rec.hostDisconnectDeadline = None,
                               !.rec.endReason = None,
                               !.rec.generation = @ + 1,
                               !.rec.state = "active"]
           b == broadcastStatus(updateRecord(joined))
           p == scheduleNextAlarm(b)
<1>0. /\ o \in Object /\ h # None /\ h \in Socket /\ h \notin ViewerSock
      /\ HostSock \subseteq Socket /\ ViewerSock \subseteq Socket
  BY SocketAssumption DEF Settled, Sound, Valid, Socket
<1>1. Settled(t) /\ Mild(o, t) BY TouchMild
<1> HIDE DEF t
<1>2. Owned(t) /\ t \in Object
  BY <1>0, <1>1, MildKept DEF Kept, Settled, Sound, Valid
<1>3. /\ Sound(r) /\ r.host = t.host /\ r.viewers = t.viewers /\ r.ident = t.ident
      /\ \A s \in Socket :
           r.sock[s] = IF s \in {t.host} /\ t.sock[s] = "open" THEN "closing" ELSE t.sock[s]
  BY <1>1, <1>2, ShutMild, ShutSound DEF Settled
<1> HIDE DEF r
<1>4. /\ Sound(c) /\ SameSockets(r, c)
      /\ c.rec.currentControllerId = None /\ c.rec.controlLeaseExpiresAt = None
      /\ c.rec.pendingRequest = None /\ c.rec.pendingRequestExpiresAt = None
  BY <1>3, WithoutControlSound, WithoutControlStill
<1> HIDE DEF c
<1>5. acceptHost(o, h) = p
  BY DEF acceptHost, p, b, joined, c, r, t
<1>6a. c.rec \in SessionRecord
  BY <1>4 DEF Sound, Valid, Object
<1>6b. [c.rec EXCEPT !.hostDisconnectDeadline = None, !.endReason = None] \in SessionRecord
  BY <1>6a DEF SessionRecord, Deadline
<1>6c. c.rec.generation + 1 \in Nat
  BY <1>6a DEF SessionRecord
<1>6d. [c.rec EXCEPT !.hostDisconnectDeadline = None, !.endReason = None,
                     !.generation = @ + 1, !.state = "active"] \in SessionRecord
  BY <1>6a, <1>6b, <1>6c DEF SessionRecord, State
<1>6. joined \in Object
  BY <1>0, <1>4, <1>6d DEF Sound, Valid, Object
<1>7a. c \in Object BY <1>4 DEF Sound, Valid
<1>7b. joined.sock = [c.sock EXCEPT ![h] = "open"]
  BY <1>7a DEF Object
<1>7c. /\ joined.stored = c.stored /\ joined.viewers = c.viewers
       /\ joined.ident = c.ident
       /\ joined.host = h /\ joined.hostConnected = TRUE
       /\ joined.rec.state = "active" /\ joined.rec.hostDisconnectDeadline = None
       /\ joined.rec.currentControllerId = None /\ joined.rec.controlLeaseExpiresAt = None
       /\ joined.rec.pendingRequest = None /\ joined.rec.pendingRequestExpiresAt = None
  BY <1>4, <1>7a DEF Object, SessionRecord
<1> HIDE DEF joined
<1>7. /\ joined.sock[h] = "open"
      /\ \A s \in Socket \ {h} : joined.sock[s] = c.sock[s]
  BY <1>0, <1>7a, <1>7b DEF Object
<1>8. Sound(joined)
  BY <1>0, <1>4, <1>6, <1>7, <1>7c DEF Sound, Valid, RecordOK
<1>9. Owned(joined)
  <2>1. \A x \in HostSock : x # h => joined.sock[x] # "open"
    BY <1>0, <1>2, <1>3, <1>4, <1>7, <1>7c DEF Owned, SameSockets
  <2>2. \A v \in ViewerSock : joined.sock[v] = t.sock[v] \/ joined.sock[v] # "open"
    BY <1>0, <1>3, <1>4, <1>7, <1>7c DEF SameSockets
  <2>3. joined.viewers = t.viewers /\ joined.ident = t.ident
    BY <1>3, <1>4, <1>7, <1>7c DEF SameSockets
  <2> QED BY <1>2, <1>7c, <2>1, <2>2, <2>3 DEF Owned
<1>10. Resting(joined) BY <1>7, <1>7c DEF Resting
<1>11. Sound(b) /\ Kept(b) /\ Covered(b) /\ Still(joined, b)
  BY <1>8, <1>9, <1>10, AnnounceKept, AnnounceStill
<1> HIDE DEF b
<1>12. Still(b, p) /\ p.rec = b.rec /\ p.host = b.host
  BY <1>11, ScheduleStill, ScheduleCovers DEF Sound, Valid, SameSockets
<1> HIDE DEF p
<1>13. Kept(p) /\ Covered(p)
  BY <1>11, <1>12, MildKept DEF Still, Sound, Valid
<1>14. p.host = h
  BY <1>0, <1>7, <1>7c, <1>11, <1>12 DEF Still, Mild, Calm, Narrows
<1>15. Settled(p) /\ p.rec.currentControllerId = None
  BY <1>5, AcceptHostSettled DEF Unclaimed
<1>16. p.rec.hostDisconnectDeadline = None
  BY <1>0, <1>14, <1>15, GraceWithoutHost
<1> QED BY <1>5, <1>13, <1>15, <1>16

\* A new viewer connection takes the place of an older one of its identity.
LEMMA AcceptViewerKept ==
  ASSUME now \in Nat, NEW o, Settled(o), Kept(o), Covered(o), o.rec.state # "closed",
         NEW v \in ViewerSock, o.sock[v] # "open", NEW id \in Viewer
  PROVE  LET p == acceptViewer(o, v, id) IN
         /\ Kept(p) /\ Covered(p)
         /\ DropsClaims(o.rec, p.rec) /\ KeepsGrace(o, p)
<1> DEFINE t == touchSession(o)
           known == resolveViewerIdentity(t, id)
           joined == [known EXCEPT !.sock[v] = "open",
                                   !.ident[v] = id,
                                   !.viewers = @ \cup {v}]
           older == {w \in joined.viewers \ {v} : joined.ident[w] = joined.ident[v]}
           shut == Shut(joined, older)
           alone == [shut EXCEPT !.viewers = @ \ older]
           s == sendHost(alone)
           b == broadcastStatus(s)
           p == scheduleNextAlarm(b)
<1>0. /\ o \in Object /\ v \in Socket /\ v \notin HostSock
      /\ HostSock \subseteq Socket /\ ViewerSock \subseteq Socket
  BY SocketAssumption DEF Settled, Sound, Valid, Socket
<1>1. Settled(t) /\ Mild(o, t) /\ SameSockets(o, t) BY TouchMild
<1> HIDE DEF t
<1>2. Settled(known) /\ Mild(t, known) /\ SameSockets(t, known) BY <1>1, ResolveMild
<1> HIDE DEF known
<1>3. /\ t \in Object /\ known \in Object
  BY <1>1, <1>2 DEF Settled, Sound, Valid
<1>4. Mild(o, known) /\ known.sock = o.sock
  BY <1>0, <1>1, <1>2, <1>3, MildTransitive DEF SameSockets
<1>5. Kept(known) /\ Covered(known)
  BY <1>0, <1>4, MildKept
<1>6. joined \in Object
  BY <1>0, <1>3 DEF Object
<1>7. /\ joined.rec = known.rec /\ joined.stored = known.stored /\ joined.alarm = known.alarm
      /\ joined.host = known.host /\ joined.hostConnected = known.hostConnected
      /\ joined.sock[v] = "open" /\ joined.ident[v] = id
      /\ \A x \in Socket \ {v} : joined.sock[x] = known.sock[x]
      /\ \A w \in ViewerSock \ {v} : joined.ident[w] = known.ident[w]
      /\ joined.viewers = known.viewers \cup {v}
  BY <1>0, <1>3 DEF Object
<1> HIDE DEF joined
<1>8. joined.viewers \subseteq ViewerSock /\ known.viewers \subseteq ViewerSock
  BY <1>3, <1>6 DEF Object
<1>9. \A w \in joined.viewers : w \in older <=> w # v /\ joined.ident[w] = id
  BY <1>7
<1>9a. older \subseteq ViewerSock /\ v \notin older BY <1>8
<1> HIDE DEF older
<1>10. shut \in Object
  BY <1>6 DEF Shut, Object
<1>11. /\ shut.rec = joined.rec /\ shut.host = joined.host
       /\ shut.viewers = joined.viewers /\ shut.ident = joined.ident
       /\ shut.stored = joined.stored /\ shut.alarm = joined.alarm
       /\ shut.hostConnected = joined.hostConnected
       /\ \A x \in Socket : shut.sock[x] = IF x \in older /\ joined.sock[x] = "open"
                                           THEN "closing" ELSE joined.sock[x]
  BY <1>6 DEF Shut, Object
<1> HIDE DEF shut
<1>12. /\ alone \in Object
       /\ alone.rec = known.rec /\ alone.stored = known.stored /\ alone.alarm = known.alarm
       /\ alone.host = known.host /\ alone.hostConnected = known.hostConnected
       /\ alone.viewers = joined.viewers \ older /\ alone.ident = joined.ident
       /\ alone.sock = shut.sock
  BY <1>7, <1>10, <1>11 DEF Object
<1>13. acceptViewer(o, v, id) = p
  BY DEF acceptViewer, replaceViewerConnection, p, b, s, alone, shut, older, joined, known, t
<1> HIDE DEF alone
<1>14. Owned(alone)
  <2>1. \A h \in HostSock : alone.sock[h] = known.sock[h]
    BY <1>0, <1>7, <1>9a, <1>11, <1>12, SocketAssumption
  <2>2. \A w \in ViewerSock : alone.sock[w] = "open" =>
          w \notin older /\ (w = v \/ known.sock[w] = "open")
    BY <1>0, <1>7, <1>11, <1>12
  <2>3. \A w \in ViewerSock : alone.sock[w] = "open" => w \in alone.viewers
    BY <1>5, <1>7, <1>12, <2>2 DEF Kept, Owned
  <2>4. \A w \in alone.viewers : w # v =>
          /\ w \in known.viewers /\ w \in ViewerSock
          /\ alone.ident[w] = known.ident[w] /\ alone.ident[w] # id
    BY <1>7, <1>8, <1>9, <1>12
  <2>5. alone.ident[v] = id BY <1>7, <1>12
  <2>6. \A w, x \in alone.viewers : alone.ident[w] = alone.ident[x] => w = x
    BY <1>5, <2>4, <2>5 DEF Kept, Owned
  <2> QED BY <1>5, <1>12, <2>1, <2>3, <2>6 DEF Kept, Owned
<1>15. Sound(alone)
  <2>1. \A w \in ViewerSock : w \in alone.viewers \/ alone.sock[w] = "open"
                              => alone.ident[w] # None
    <3> SUFFICES ASSUME NEW w \in ViewerSock, w \in alone.viewers \/ alone.sock[w] = "open"
                 PROVE  alone.ident[w] # None
      OBVIOUS
    <3>1. w \in alone.viewers BY <1>14 DEF Owned
    <3>2. CASE w = v
      BY <1>7, <1>12, <3>2, SocketAssumption
    <3>3. CASE w # v
      <4>1. w \in known.viewers /\ alone.ident[w] = known.ident[w]
        BY <1>7, <1>12, <3>1, <3>3
      <4> QED BY <1>2, <4>1 DEF Settled, Sound, Valid
    <3> QED BY <3>2, <3>3
  <2> QED BY <1>2, <1>12, <2>1 DEF Settled, Sound, Valid
<1>16. Covered(alone) BY <1>5, <1>12 DEF Covered, Unused
<1>17. Sound(s) /\ Still(alone, s) BY <1>15, SendHostSound, SendHostStill DEF Reaches
<1> HIDE DEF s
<1>18. /\ Sound(b) /\ Still(s, b) /\ HostKnows(b) /\ ViewersKnow(b) /\ EndKnown(b)
  BY <1>17, BroadcastStill
<1> HIDE DEF b
<1>19. Still(b, p) BY <1>18, ScheduleStill DEF Sound, Valid
<1> HIDE DEF p
<1>20. s \in Object /\ b \in Object BY <1>17, <1>18 DEF Sound, Valid
<1>21. Still(alone, b)
  BY <1>12, <1>17, <1>18, <1>20, StillTransitive
<1>22. Kept(b) /\ Covered(b)
  <2>1. Owned(b) BY <1>12, <1>14, <1>21, NarrowsOwned DEF Still, Mild, Calm
  <2>2. alone.rec.state # "closed" /\ Resting(alone)
    <3>1. known.rec.state # "closed" BY <1>4 DEF Mild
    <3> QED BY <1>5, <1>12, <3>1 DEF Kept, Resting
  <2>3. Resting(b) BY <1>21, <2>2 DEF Still, Mild, Resting
  <2> QED BY <1>16, <1>18, <1>21, <2>1, <2>3 DEF Kept, Still, Mild, Calm
<1>23. Kept(p) /\ Covered(p) BY <1>19, <1>20, <1>22, MildKept DEF Still
<1>24. Still(alone, p) BY <1>12, <1>19, <1>20, <1>21, StillTransitive
<1>25. DropsClaims(o.rec, p.rec)
  <2>1. DropsClaims(o.rec, known.rec) /\ DropsClaims(known.rec, p.rec)
    BY <1>4, <1>12, <1>24 DEF Still, Mild, Calm
  <2> QED BY <2>1 DEF DropsClaims
<1>26. KeepsGrace(o, p)
  BY <1>4, <1>12, <1>24 DEF Still, Mild, Calm, KeepsGrace
<1> QED BY <1>13, <1>23, <1>25, <1>26

----------------------------------------------------------------------------
(* Messages.                                                               *)

LEMMA EndsCalm ==
  ASSUME now \in Nat, NEW o, Settled(o), Kept(o), o.rec.state = "active"
  PROVE  LET p == scheduleNextAlarm(finishSharing(persistRecord(endSharing(o, "host ended")))) IN
         Calm(o, p) /\ Kept(p)
<1> DEFINE e == endSharing(o, "host ended")
           q == persistRecord(e)
           f == finishSharing(q)
           p == scheduleNextAlarm(f)
<1>0. o \in Object /\ Sound(o) BY DEF Settled, Sound, Valid
<1>1. /\ Sound(e) /\ SameRest(o, e) /\ Quieter(o.rec, e.rec) /\ e.rec.state = "ended"
  BY <1>0, EndSharingSound, EndSharingQuieter DEF EndReasons
<1> HIDE DEF e
<1>2. Calm(o, e) BY <1>1, RecordCalm DEF SameRest
<1>3. Sound(q) /\ Still(e, q) /\ q.rec = e.rec
  BY <1>1, PersistSound, PersistStill DEF Unused, persistRecord, Sound, Valid, Object
<1> HIDE DEF q
<1>4. /\ Calm(q, f) /\ EndKnown(f) /\ f.rec.state \in {"ended", "ready"}
      /\ Settled(f)
  BY <1>1, <1>3, FinishSharingCalm, FinishSharingSettled DEF Sound
<1> HIDE DEF f
<1>5. e \in Object /\ q \in Object /\ f \in Object
  BY <1>1, <1>3, <1>4 DEF Settled, Sound, Valid
<1>6. Calm(o, f)
  BY <1>0, <1>2, <1>3, <1>4, <1>5, CalmTransitive DEF Still, Mild
<1>7. Kept(f)
  <2>1. Resting(f) BY <1>4 DEF Resting
  <2> QED BY <1>0, <1>4, <1>6, <2>1, CalmKept
<1>8. Still(f, p) BY <1>5, ScheduleStill
<1> HIDE DEF p
<1>9. Calm(o, p) BY <1>0, <1>5, <1>6, <1>8, CalmTransitive DEF Still, Mild
<1>10. Kept(p) BY <1>5, <1>7, <1>8, MildKept DEF Still
<1> QED BY <1>9, <1>10 DEF p, f, q, e

LEMMA PermissionSockets ==
  ASSUME NEW o, o \in Object, NEW controller, NEW lease, NEW request, NEW expiry
  PROVE  LET q == WithPermission(o, controller, lease, request, expiry) IN
         SameSockets(o, q) /\ q.rec.state = o.rec.state
<1> DEFINE q == WithPermission(o, controller, lease, request, expiry)
<1>1. SameSockets(o, q) BY DEF WithPermission, SameSockets, Object
<1>2. q.rec.state = o.rec.state BY DEF WithPermission, Object, SessionRecord
<1> QED BY <1>1, <1>2

\* While a host is there control may change hands: what is announced is kept.
LEMMA PermissionKept ==
  ASSUME now \in Nat, NEW o, Settled(o), Kept(o), NEW q, Settled(q),
         SameSockets(o, q), q.rec.state = "active"
  PROVE  /\ Kept(broadcastStatus(updateRecord(q)))
         /\ Covered(broadcastStatus(updateRecord(q)))
<1>1. Owned(q) BY DEF Kept, Owned, SameSockets
<1>2. Resting(q) BY DEF Resting
<1> QED BY <1>1, <1>2, AnnounceKept DEF Settled

LEMMA ApproveKept ==
  ASSUME now \in Nat, NEW o, Settled(o), Kept(o), Covered(o),
         NEW id \in Viewer, NEW ask \in LeaseAsks \cup {None}, Pending(o, id)
  PROVE  /\ Kept(handleControlApprove(o, id, ask))
         /\ Covered(handleControlApprove(o, id, ask))
<1> DEFINE lease == normalizeLeaseSeconds(ask, o.rec.pendingRequest.leaseSeconds)
           p == [o EXCEPT !.rec.currentControllerId = id,
                          !.rec.controlLeaseExpiresAt = now + lease,
                          !.rec.pendingRequest = None,
                          !.rec.pendingRequestExpiresAt = None]
<1>1. o.rec.pendingRequest \in ControlRequest /\ o.rec.state = "active"
  BY DEF Pending, Settled, Sound, Valid, RecordOK, Object, SessionRecord
<1>2. lease \in MinLease .. MaxLease
  BY <1>1, NormalizedLease DEF ControlRequest
<1>3. handleControlApprove(o, id, ask) = broadcastStatus(updateRecord(p))
  BY DEF handleControlApprove
<1> HIDE DEF lease
<1>4. /\ now + lease \in Deadline /\ now + lease # None
      /\ id # None /\ None \in Deadline
  BY <1>2, TimingAssumption, SocketAssumption DEF Deadline
<1>5. p = WithPermission(o, id, now + lease, None, None)
  BY DEF WithPermission
<1> HIDE DEF p
<1>6. Settled(p) /\ SameSockets(o, p) /\ p.rec.state = "active"
  BY <1>1, <1>4, <1>5, PermissionSettled, PermissionSockets DEF Settled, Sound, Valid
<1> QED BY <1>3, <1>6, PermissionKept

LEMMA RejectStill ==
  ASSUME now \in Nat, NEW o, Settled(o), NEW id
  PROVE  Still(o, handleControlReject(o, id))
<1> DEFINE q == withoutRequest(o)
           p == broadcastStatus(updateRecord(q))
<1>1. Sound(q) /\ Still(o, q)
  BY WithoutRequestSound, WithoutRequestStill DEF Settled, Sound, Valid
<1>2. handleControlReject(o, id) \in {o, p} BY DEF handleControlReject
<1> HIDE DEF q
<1>3. Still(q, p) BY <1>1, AnnounceStill
<1> HIDE DEF p
<1>4. Still(o, p) BY <1>1, <1>3, StillTransitive DEF Settled, Sound, Valid
<1> QED BY <1>2, <1>4, StillItself

LEMMA RevokeStill ==
  ASSUME now \in Nat, NEW o, Settled(o)
  PROVE  Still(o, handleControlRevoke(o))
<1> DEFINE q == withoutLease(o)
           p == broadcastStatus(updateRecord(q))
<1>1. Sound(q) /\ Still(o, q)
  BY WithoutLeaseSound, WithoutLeaseStill DEF Settled, Sound, Valid
<1>2. handleControlRevoke(o) \in {o, p} BY DEF handleControlRevoke
<1> HIDE DEF q
<1>3. Still(q, p) BY <1>1, AnnounceStill
<1> HIDE DEF p
<1>4. Still(o, p) BY <1>1, <1>3, StillTransitive DEF Settled, Sound, Valid
<1> QED BY <1>2, <1>4, StillItself

LEMMA DetailStill ==
  ASSUME now \in Nat, NEW o, Settled(o), o.hostConnected, NEW d \in Details
  PROVE  Still(o, broadcastStatus([o EXCEPT !.details = @ \cup {d}]))
<1> DEFINE q == [o EXCEPT !.details = @ \cup {d}]
           p == broadcastStatus(q)
<1>1. q \in Object BY DEF Settled, Sound, Valid, Object
<1>2. SameRest(o, q) /\ q.rec = o.rec /\ q.hostConnected = o.hostConnected
  BY DEF Settled, Sound, Valid, Object, SameRest, SameSockets
<1> HIDE DEF q
<1>3. Sound(q) BY <1>1, <1>2 DEF Settled, Sound, Valid, SameRest, SameSockets
<1>4. Covered(o) => Covered(q) BY <1>2 DEF Covered, Unused, SameRest
<1>5. Still(o, q) BY <1>2, <1>4, StorageStill DEF SameRest
<1>6. Still(q, p) BY <1>3, BroadcastStill
<1> HIDE DEF p
<1>7. Still(o, p) BY <1>1, <1>5, <1>6, StillTransitive DEF Settled, Sound, Valid
<1> QED BY <1>7 DEF p, q

\* A request is either refused, or nobody was in control and nobody is now.
LEMMA RequestKept ==
  ASSUME now \in Nat, NEW o, Settled(o), Kept(o), Covered(o),
         NEW v \in ViewerSock, NEW ask \in LeaseAsks \cup {None}
  PROVE  LET p == handleControlRequest(o, v, ask) IN
         \/ Kept(p) /\ Calm(o, p)
         \/ Kept(p) /\ Covered(p) /\ o.host # None /\ p.rec.currentControllerId = None
<1> DEFINE a == advanceRecordAndPersist(o)
           request == [viewerId |-> a.ident[v],
                       leaseSeconds |-> normalizeLeaseSeconds(ask, MaxLease)]
           q == [a EXCEPT !.rec.pendingRequest = request,
                          !.rec.pendingRequestExpiresAt = now + PendingTimeout]
           refused == \/ v \notin a.viewers
                      \/ ~a.hostConnected
                      \/ a.rec.currentControllerId # None
                      \/ a.rec.pendingRequest # None
           p == handleControlRequest(o, v, ask)
<1>1. Settled(a) /\ Kept(a) /\ Calm(o, a)
  BY AdvanceKept
<1>2. p = IF refused THEN broadcastStatus(a)
          ELSE broadcastStatus(sendHost(updateRecord(q)))
  BY DEF handleControlRequest
<1> HIDE DEF a, p
<1>3. o \in Object /\ a \in Object BY <1>1 DEF Settled, Sound, Valid
<1>4. CASE refused
  <2>1. Still(a, p) BY <1>1, <1>2, <1>4, BroadcastStill DEF Settled
  <2>2. Kept(p) BY <1>1, <1>3, <2>1, MildKept DEF Still
  <2>3. Calm(o, p) BY <1>1, <1>3, <2>1, CalmTransitive DEF Still, Mild
  <2> QED BY <2>2, <2>3 DEF p
<1>5. CASE ~refused
  <2>1. MaxLease \in MinLease .. MaxLease
    BY TimingAssumption
  <2>2. request \in ControlRequest
    BY <1>1, <1>5, <2>1, NormalizedLease DEF ControlRequest, Settled, Sound, Valid, Object
  <2>3. /\ now + PendingTimeout \in Deadline /\ now + PendingTimeout # None
        /\ None \in Deadline
    BY TimingAssumption DEF Deadline
  <2>4. /\ request # None
        /\ a.rec.state = "active" /\ a.host # None
        /\ a.rec.currentControllerId = None
        /\ a.rec.controlLeaseExpiresAt = None
    BY <1>1, <1>5, <2>2, RecordAssumption DEF Settled, Sound, Valid, RecordOK
  <2> HIDE DEF request
  <2>5. q = WithPermission(a, None, None, request, now + PendingTimeout)
    <3>1. a.rec = [a.rec EXCEPT !.currentControllerId = None,
                                !.controlLeaseExpiresAt = None]
      BY <1>3, <2>4 DEF Object, SessionRecord
    <3>2. a = [a EXCEPT !.rec = a.rec] BY <1>3 DEF Object
    <3>3. a = [a EXCEPT !.rec.currentControllerId = None,
                        !.rec.controlLeaseExpiresAt = None]
      BY <1>3, <3>1, <3>2 DEF Object
    <3> QED BY <3>3 DEF WithPermission
  <2> HIDE DEF q
  <2>6. /\ Settled(q) /\ q.rec.currentControllerId = None
        /\ SameSockets(a, q) /\ q.rec.state = "active"
    BY <1>1, <1>3, <2>2, <2>3, <2>4, <2>5, PermissionSettled, PermissionSockets
  <2> DEFINE u == updateRecord(q)
             h == sendHost(u)
             b == broadcastStatus(h)
  <2>7. Sound(u) /\ Still(q, u) /\ Covered(u)
    BY <2>6, UpdateSound, UpdateStill DEF Settled
  <2> HIDE DEF u
  <2>8. Sound(h) /\ Still(u, h)
    BY <2>7, SendHostSound, SendHostStill DEF Reaches
  <2> HIDE DEF h
  <2>9. /\ Still(h, b) /\ HostKnows(b) /\ ViewersKnow(b) /\ EndKnown(b)
    BY <2>8, BroadcastStill
  <2>9a. p = b BY <1>2, <1>5 DEF b, h, u
  <2> HIDE DEF b
  <2>10. Still(q, b) /\ Still(u, b)
    BY <2>6, <2>7, <2>8, <2>9, StillTransitive DEF Settled, Sound, Valid
  <2>11. Owned(b)
    <3>1. Owned(q) BY <1>1, <2>6 DEF Kept, Owned, SameSockets
    <3> QED BY <2>6, <2>10, <3>1, NarrowsOwned DEF Still, Mild, Calm, Settled, Sound, Valid
  <2>12. Resting(b) BY <2>6, <2>10 DEF Still, Mild, Resting
  <2>13. Covered(b) BY <2>7, <2>10 DEF Still, Mild, Calm
  <2>14. b.rec.currentControllerId = None
    BY <2>6, <2>10 DEF Still, Mild, Calm, DropsClaims
  <2>15. o.host # None BY <1>1, <2>4 DEF Calm, KeepsGrace
  <2> QED BY <2>9, <2>9a, <2>11, <2>12, <2>13, <2>14, <2>15 DEF Kept, p
<1> QED BY <1>4, <1>5

----------------------------------------------------------------------------
(* Close notifications, the alarm, construction.                           *)

LEMMA CloseStill ==
  ASSUME now \in Nat, NEW o, Settled(o), NEW s \in Socket, o.sock[s] # "open"
  PROVE  Still(o, handleClose(o, s))
<1>0. o \in Object /\ Sound(o) BY DEF Settled, Sound, Valid
<1>1. CASE s \in HostSock
  <2> DEFINE c == clearHost(o)
             p == scheduleNextAlarm(c)
  <2>1. handleClose(o, s) = IF o.host = s THEN p ELSE o
    BY <1>1 DEF handleClose
  <2>2. CASE o.host = s
    <3>1. s # None BY SocketAssumption
    <3>2. Sound(c) /\ Still(o, c) BY <1>0, <2>2, <3>1, ClearHostSound, ClearHostStill
    <3> HIDE DEF c
    <3>3. Still(c, p) /\ c \in Object BY <3>2, ScheduleStill DEF Sound, Valid
    <3> HIDE DEF p
    <3>4. Still(o, p) BY <1>0, <3>2, <3>3, StillTransitive
    <3> QED BY <2>1, <2>2, <3>4
  <2>3. CASE o.host # s
    <3>1. handleClose(o, s) = o BY <2>1, <2>3
    <3> QED BY <3>1, StillItself
  <2> QED BY <2>2, <2>3
<1>2. CASE s \notin HostSock
  <2> DEFINE r == removeViewers(o, {s})
             b == broadcastStatus(r)
             p == scheduleNextAlarm(b)
  <2>1. handleClose(o, s) = p BY <1>2 DEF handleClose
  <2>2. Sound(r) /\ Still(o, r)
    BY <1>0, RemoveViewersSound, RemoveViewersStill
  <2> HIDE DEF r
  <2>3. Sound(b) /\ Still(r, b) BY <2>2, BroadcastStill
  <2> HIDE DEF b
  <2>4. Still(b, p) BY <2>3, ScheduleStill DEF Sound, Valid
  <2> HIDE DEF p
  <2>5. r \in Object /\ b \in Object BY <2>2, <2>3 DEF Sound, Valid
  <2>6. Still(o, b) BY <1>0, <2>2, <2>3, <2>5, StillTransitive
  <2>7. Still(o, p) BY <1>0, <2>4, <2>5, <2>6, StillTransitive
  <2> QED BY <2>1, <2>7
<1> QED BY <1>1, <1>2

LEMMA ReleaseMild ==
  ASSUME NEW o, Settled(o), NEW s \in Socket, o.sock[s] # "open",
         s \in ViewerSock => s \notin o.viewers
  PROVE  LET p == release(o, s) IN
         Mild(o, p) /\ p.rec = o.rec
<1> DEFINE p == release(o, s)
<1>0. /\ o \in Object /\ o.viewers \subseteq ViewerSock
      /\ HostSock \subseteq Socket /\ ViewerSock \subseteq Socket
      /\ o.host \in Socket \cup {None}
  BY DEF Settled, Sound, Valid, Object, Socket
<1>1. /\ p.rec = o.rec /\ p.stored = o.stored /\ p.alarm = o.alarm
      /\ p.host = o.host /\ p.viewers = o.viewers /\ p.told = o.told
      /\ \A x \in Socket : p.sock[x] = IF x = s THEN "free" ELSE o.sock[x]
      /\ \A v \in ViewerSock : p.ident[v] = IF v = s THEN None ELSE o.ident[v]
  BY <1>0 DEF release, Object
<1> HIDE DEF p
<1>2. \A x \in Socket : p.sock[x] = "open" <=> o.sock[x] = "open" BY <1>1
<1>3. Narrows(o, p) BY <1>0, <1>1, <1>2 DEF Narrows
<1>4. DropsClaims(o.rec, p.rec) /\ KeepsGrace(o, p) BY <1>1 DEF DropsClaims, KeepsGrace
<1>5. Covered(o) => Covered(p) BY <1>1 DEF Covered, Unused
<1>6. HostKnows(o) => HostKnows(p) BY <1>0, <1>1, <1>2 DEF HostKnows, Knows
<1>7. ViewersKnow(o) => ViewersKnow(p) BY <1>0, <1>1, <1>2 DEF ViewersKnow, Knows
<1>8. EndKnown(o) => EndKnown(p) BY <1>0, <1>1, <1>2 DEF EndKnown
<1>9. Mild(o, p) BY <1>1, <1>3, <1>4, <1>5, <1>6, <1>7, <1>8 DEF Mild, Calm
<1> QED BY <1>1, <1>9 DEF p

LEMMA CloseEventMild ==
  ASSUME now \in Nat, Settled(obj), NEW s \in Socket, CloseEvent(s)
  PROVE  Mild(obj, obj') /\ obj'.rec.sessionExpiresAt = obj.rec.sessionExpiresAt
<1> DEFINE c == handleClose(obj, s)
           p == release(c, s)
<1>1. obj.sock[s] # "open" /\ obj' = p BY DEF CloseEvent
<1>2. /\ Settled(c) /\ (s \in ViewerSock => s \notin c.viewers)
      /\ Still(obj, c)
  BY <1>1, CloseSettled, CloseStill
<1> HIDE DEF c
<1>3. Mild(c, p) /\ p.rec = c.rec BY <1>1, <1>2, ReleaseMild DEF Still
<1> HIDE DEF p
<1>4. obj \in Object /\ c \in Object BY <1>2 DEF Settled, Sound, Valid
<1>5. Mild(obj, p) BY <1>2, <1>3, <1>4, MildTransitive DEF Still
<1> QED BY <1>1, <1>2, <1>3, <1>5 DEF Still

\* The alarm that has fired is gone; the next one is set at the end.
LEMMA AlarmOutcome ==
  ASSUME now \in Nat, Settled(obj), Saved(obj), Kept(obj), Covered(obj), AlarmFires
  PROVE  /\ Outcome(obj, obj') /\ Narrows(obj, obj')
         /\ obj'.rec.sessionExpiresAt = obj.rec.sessionExpiresAt
<1> DEFINE o == [obj EXCEPT !.alarm = None]
           a == advanceAndTell(o)
           p == scheduleNextAlarm(a)
<1>1. /\ o \in Object /\ SameSockets(obj, o) /\ o.rec = obj.rec /\ o.stored = obj.stored
      /\ o.hostConnected = obj.hostConnected /\ o.details = obj.details
  BY DEF Settled, Sound, Valid, Object, Deadline, SameSockets
<1>2. obj' = p BY DEF AlarmFires
<1> HIDE DEF o
<1>3. Settled(o)
  BY <1>1 DEF Settled, Sound, Valid, Fresh, SameSockets
<1>4. Kept(o)
  BY <1>1 DEF Kept, Owned, HostKnows, ViewersKnow, Knows, EndKnown, Resting, SameSockets
<1>5. /\ Settled(a) /\ Kept(a) /\ Calm(o, a)
      /\ a.rec.sessionExpiresAt = o.rec.sessionExpiresAt
  BY <1>3, <1>4, TellKept
<1> HIDE DEF a
<1>6. a \in Object BY <1>5 DEF Settled, Sound, Valid
<1>7. /\ Still(a, p) /\ p.rec = a.rec
      /\ a.stored # None => Covered(p)
      /\ Covered(a) => Covered(p)
  BY <1>6, ScheduleStill, ScheduleCovers
<1> HIDE DEF p
<1>8. Covered(p)
  <2>1. CASE o.stored # None
    BY <1>5, <1>7, <2>1 DEF Calm
  <2>2. CASE o.stored = None
    <3>1. o.rec.state = "idle"
      BY <1>1, <2>2, RecordAssumption DEF Saved, Settled, Sound, Valid, Object
    <3>2. Covered(o) BY <2>2, <3>1 DEF Covered, Unused
    <3> QED BY <1>5, <1>7, <3>2 DEF Calm
  <2> QED BY <2>1, <2>2
<1>9. Kept(p) BY <1>5, <1>6, <1>7, MildKept DEF Still
<1>10. Calm(o, p) BY <1>1, <1>5, <1>6, <1>7, CalmTransitive DEF Still, Mild
<1>11. Narrows(obj, p)
  BY <1>1, <1>10 DEF Calm, Narrows, SameSockets
<1>12. KeepsLease(obj.rec, p.rec) BY <1>1, <1>10 DEF KeepsLease, Calm, DropsClaims
<1>13. KeepsDeadline(obj.rec, p.rec)
  BY <1>1, <1>3, <1>10, GraceWithoutHost DEF KeepsDeadline, Calm, KeepsGrace
<1> QED BY <1>1, <1>2, <1>5, <1>7, <1>8, <1>9, <1>11, <1>12, <1>13 DEF Outcome

\* A construction finds the sockets that are open: the host's and the viewers'.
LEMMA RestoredCalm ==
  ASSUME now \in Nat, Settled(obj), Saved(obj), Kept(obj), Covered(obj),
         NEW h \in HostSock \cup {None}, NEW viewers \in SUBSET ViewerSock,
         Keepable(h, viewers)
  PROVE  LET o == restoreSockets(h, viewers) IN
         /\ Calm(obj, o) /\ EndKnown(o)
         /\ obj.stored # None => o.rec = obj.rec
         /\ obj.stored = None => o.rec.state = "idle" /\ o.viewers = {} /\ o.host = None
         /\ obj.rec.state = "idle" \/ obj.stored # None
<1> DEFINE r == IF obj.stored = None THEN createInitialSessionRecord("idle") ELSE obj.stored
           lost == (Socket \ {h}) \ viewers
           shut == Shut(blank, lost)
           o == [shut EXCEPT !.host = h, !.hostConnected = (h # None), !.viewers = viewers]
<1>0. /\ obj \in Object /\ HostSock \subseteq Socket /\ ViewerSock \subseteq Socket
      /\ None \notin Socket /\ obj.host \in HostSock \cup {None}
      /\ obj.viewers \subseteq ViewerSock
  BY SocketAssumption DEF Settled, Sound, Valid, Object, Socket
<1>1. restoreSockets(h, viewers) = o BY DEF restoreSockets
<1>2. /\ obj.stored # None => r = obj.rec
      /\ obj.stored = None => /\ r.state = "idle" /\ Unclaimed(r)
                              /\ r.hostDisconnectDeadline = None
                              /\ obj.rec.state = "idle" /\ obj.viewers = {}
  <2>1. obj.rec # None BY <1>0, RecordAssumption DEF Object
  <2>2. createInitialSessionRecord("idle").hostDisconnectDeadline = None
    BY DEF createInitialSessionRecord
  <2> QED BY <2>1, <2>2, InitialRecordOK DEF Saved
<1>3. r \in SessionRecord BY InitialRecordOK DEF Settled, Sound, Valid, Object
<1>4. /\ blank \in Object /\ blank.rec = r /\ blank.stored = obj.stored
      /\ blank.alarm = obj.alarm
      /\ blank.ident = obj.ident /\ blank.sock = obj.sock /\ blank.told = obj.told
  BY <1>0, <1>3 DEF blank, Object
<1> HIDE DEF r
<1>5. /\ shut \in Object /\ shut.rec = r /\ shut.stored = obj.stored
      /\ shut.alarm = obj.alarm /\ shut.ident = obj.ident
      /\ \A s \in Socket :
           /\ shut.sock[s] = IF s \in lost /\ obj.sock[s] = "open" THEN "closing" ELSE obj.sock[s]
           /\ shut.told[s] = IF s \in lost THEN None ELSE obj.told[s]
  BY <1>4 DEF Shut, Object
<1>5a. \A s \in Socket : s \in lost <=> s # h /\ s \notin viewers OBVIOUS
<1> HIDE DEF shut, lost
<1>6. /\ o.rec = r /\ o.stored = obj.stored /\ o.alarm = obj.alarm
      /\ o.ident = obj.ident /\ o.sock = shut.sock /\ o.told = shut.told
      /\ o.viewers = viewers /\ o.host = h
  BY <1>5 DEF Object
<1> HIDE DEF o
<1>7. /\ h # None => h = obj.host /\ obj.sock[h] = "open"
      /\ obj.host # None /\ obj.sock[obj.host] = "open" => h = obj.host
  BY <1>0 DEF Keepable, Kept, Owned
<1>8. \A v \in ViewerSock : v \in viewers <=> obj.sock[v] = "open"
  <2>1. ASSUME NEW v \in ViewerSock, obj.sock[v] = "open" PROVE v \in viewers
    <3>1. PICK w \in viewers : obj.ident[w] = obj.ident[v]
      BY <2>1 DEF Keepable
    <3>2. obj.sock[w] = "open" /\ w \in ViewerSock BY DEF Keepable
    <3>3. v \in obj.viewers /\ w \in obj.viewers BY <2>1, <3>2 DEF Kept, Owned
    <3> QED BY <3>1, <3>3 DEF Kept, Owned
  <2> QED BY <2>1 DEF Keepable
<1>9. \A v \in viewers : v \in obj.viewers /\ v \in ViewerSock
  BY <1>8 DEF Kept, Owned
<1>10. \A s \in Socket : o.sock[s] = "open" =>
         obj.sock[s] = "open" /\ o.told[s] = obj.told[s]
  BY <1>5, <1>6
<1>11. Narrows(obj, o)
  BY <1>0, <1>6, <1>7, <1>8, <1>9, <1>10 DEF Narrows
<1>12. CASE obj.stored # None
  <2>1. o.rec = obj.rec BY <1>2, <1>6, <1>12
  <2>2. DropsClaims(obj.rec, o.rec) BY <2>1 DEF DropsClaims
  <2>3. KeepsGrace(obj, o) BY <1>6, <1>7, <2>1 DEF KeepsGrace
  <2>4. Covered(o) BY <1>6, <2>1 DEF Covered, Unused
  <2>5. HostKnows(o)
    BY <1>0, <1>6, <1>7, <1>10, <2>1 DEF HostKnows, Knows, Kept
  <2>6. ViewersKnow(o)
    BY <1>0, <1>6, <1>9, <1>10, <2>1 DEF ViewersKnow, Knows, Kept
  <2>7. EndKnown(o)
    BY <1>0, <1>6, <1>9, <1>10, <2>1 DEF EndKnown, Kept
  <2> QED BY <1>1, <1>6, <1>11, <1>12, <2>1, <2>2, <2>3, <2>4, <2>5, <2>6, <2>7 DEF Calm
<1>13. CASE obj.stored = None
  <2>1. /\ o.rec = r /\ r.state = "idle" /\ Unclaimed(r)
        /\ r.hostDisconnectDeadline = None
        /\ obj.rec.state = "idle" /\ obj.viewers = {}
    BY <1>2, <1>6, <1>13
  <2>2. obj.host = None BY <2>1 DEF Settled, Sound
  <2>3. o.host = None /\ o.viewers = {} BY <1>6, <1>7, <1>9, <2>1, <2>2
  <2>4. DropsClaims(obj.rec, o.rec) /\ KeepsGrace(obj, o)
    BY <2>1, <2>3 DEF DropsClaims, KeepsGrace, Unclaimed
  <2>5. Covered(o) BY <1>6, <1>13, <2>1 DEF Covered, Unused
  <2>6. HostKnows(o) /\ ViewersKnow(o) /\ EndKnown(o)
    BY <2>3 DEF HostKnows, ViewersKnow, EndKnown
  <2> QED BY <1>1, <1>11, <1>13, <2>1, <2>3, <2>4, <2>5, <2>6 DEF Calm
<1> QED BY <1>12, <1>13

\* A record that follows the sockets that survived.
LEMMA ReconcileWrites ==
  ASSUME NEW o, Valid(o), o.hostConnected <=> o.host # None,
         Owned(o), HostKnows(o), ViewersKnow(o),
         NEW r \in SessionRecord, RecordOK(r), o.hostConnected <=> r.state = "active",
         r.state \in {"ready", "active"}, r.generation = o.rec.generation,
         r.currentControllerId \in {None, o.rec.currentControllerId},
         r.pendingRequest \in {None, o.rec.pendingRequest}
  PROVE  LET p == updateRecord([o EXCEPT !.rec = r]) IN
         Kept(p) /\ Covered(p) /\ SameSockets(o, p) /\ p.rec = r
<1> DEFINE q == [o EXCEPT !.rec = r]
           p == updateRecord(q)
<1>0. o \in Object BY DEF Valid
<1>1. /\ q \in Object /\ q.rec = r /\ q.stored = o.stored
      /\ q.hostConnected = o.hostConnected
      /\ SameSockets(o, q)
  BY <1>0 DEF Object, SameSockets
<1> HIDE DEF q
<1>2. Sound(q) BY <1>1 DEF Sound, Valid, SameSockets
<1>3. /\ p.rec = r /\ Covered(p) /\ SameSockets(q, p)
  BY <1>1, <1>2, UpdateSound, UpdateStill
<1> HIDE DEF p
<1>4. SameSockets(o, p) BY <1>1, <1>3 DEF SameSockets
<1>5. Owned(p) BY <1>4 DEF Owned, SameSockets
<1>6. HostKnows(p) /\ ViewersKnow(p)
  BY <1>3, <1>4 DEF HostKnows, ViewersKnow, Knows, SameSockets
<1>7. EndKnown(p) /\ Resting(p) BY <1>3 DEF EndKnown, Resting
<1> QED BY <1>3, <1>4, <1>5, <1>6, <1>7 DEF Kept, p, q

LEMMA ReconcileKept ==
  ASSUME now \in Nat, NEW o, Valid(o), o.hostConnected <=> o.host # None,
         Owned(o), HostKnows(o), ViewersKnow(o), EndKnown(o), Covered(o),
         o.rec.state # "closed", o.rec.state = "idle" => o.rec.hostDisconnectDeadline = None
  PROVE  LET p == reconcileRecordWithSockets(o) IN
         /\ Kept(p) /\ Covered(p) /\ SameSockets(o, p)
         /\ p.rec.sessionExpiresAt = o.rec.sessionExpiresAt
         /\ p.rec.currentControllerId # None =>
              /\ p.rec.currentControllerId = o.rec.currentControllerId
              /\ p.rec.controlLeaseExpiresAt = o.rec.controlLeaseExpiresAt
         /\ o.rec.hostDisconnectDeadline # None =>
              p.rec.hostDisconnectDeadline \in {None, o.rec.hostDisconnectDeadline}
<1>0. o \in Object /\ o.rec \in SessionRecord
  BY DEF Valid, Object
<1>1. CASE o.hostConnected /\ ~(o.rec.hostDisconnectDeadline = None /\ o.rec.state = "active")
  <2> DEFINE r == [o.rec EXCEPT !.hostDisconnectDeadline = None, !.state = "active"]
             p == updateRecord([o EXCEPT !.rec = r])
  <2>1. r \in SessionRecord
    BY <1>0 DEF SessionRecord, State, Deadline
  <2>2. /\ r.state = "active" /\ r.hostDisconnectDeadline = None
        /\ r.currentControllerId = o.rec.currentControllerId
        /\ r.controlLeaseExpiresAt = o.rec.controlLeaseExpiresAt
        /\ r.pendingRequest = o.rec.pendingRequest
        /\ r.pendingRequestExpiresAt = o.rec.pendingRequestExpiresAt
        /\ r.generation = o.rec.generation
        /\ r.sessionExpiresAt = o.rec.sessionExpiresAt
    BY <1>0 DEF SessionRecord
  <2>3. [o EXCEPT !.rec.hostDisconnectDeadline = None, !.rec.state = "active"]
          = [o EXCEPT !.rec = r]
    BY <1>0 DEF Object
  <2>4. reconcileRecordWithSockets(o) = p
    BY <1>1, <2>3 DEF reconcileRecordWithSockets
  <2> HIDE DEF r
  <2>5. RecordOK(r) BY <1>1, <2>2 DEF Valid, RecordOK
  <2>6. Kept(p) /\ Covered(p) /\ SameSockets(o, p) /\ p.rec = r
    BY <1>1, <2>1, <2>2, <2>5, ReconcileWrites
  <2> HIDE DEF p
  <2> QED BY <2>2, <2>4, <2>6
<1>2. CASE ~o.hostConnected /\ o.viewers # {} /\ o.rec.state = "idle"
  <2> DEFINE r == [o.rec EXCEPT !.state = "ready"]
             p == updateRecord([o EXCEPT !.rec = r])
  <2>1. /\ r \in SessionRecord
        /\ r.state = "ready" /\ r.hostDisconnectDeadline = o.rec.hostDisconnectDeadline
        /\ r.generation = o.rec.generation
        /\ r.sessionExpiresAt = o.rec.sessionExpiresAt
        /\ r.currentControllerId = o.rec.currentControllerId
        /\ r.controlLeaseExpiresAt = o.rec.controlLeaseExpiresAt
        /\ r.pendingRequest = o.rec.pendingRequest
        /\ r.pendingRequestExpiresAt = o.rec.pendingRequestExpiresAt
    BY <1>0 DEF SessionRecord, State
  <2>2. reconcileRecordWithSockets(o) = p
    BY <1>0, <1>2 DEF reconcileRecordWithSockets, Object
  <2> HIDE DEF r
  <2>3. RecordOK(r) BY <1>2, <2>1 DEF Valid, RecordOK
  <2>4. Kept(p) /\ Covered(p) /\ SameSockets(o, p) /\ p.rec = r
    BY <1>2, <2>1, <2>3, ReconcileWrites
  <2> HIDE DEF p
  <2> QED BY <2>1, <2>2, <2>4
<1>3. CASE ~o.hostConnected /\ o.rec.state = "active"
  <2> DEFINE deadline == IF o.rec.hostDisconnectDeadline = None
                         THEN now + HostGrace ELSE o.rec.hostDisconnectDeadline
             a == [o.rec EXCEPT !.pendingRequest = None, !.pendingRequestExpiresAt = None]
             b == [a EXCEPT !.currentControllerId = None, !.controlLeaseExpiresAt = None]
             r == [b EXCEPT !.hostDisconnectDeadline = deadline, !.state = "ready"]
             p == updateRecord([o EXCEPT !.rec = r])
  <2>1. deadline \in Deadline /\ deadline # None
    BY <1>0, TimingAssumption DEF SessionRecord, Deadline
  <2>2. a \in SessionRecord
    BY <1>0 DEF SessionRecord, Deadline
  <2>3. b \in SessionRecord
    BY <2>2 DEF SessionRecord, Deadline
  <2>4. /\ b.pendingRequest = None /\ b.pendingRequestExpiresAt = None
        /\ b.currentControllerId = None /\ b.controlLeaseExpiresAt = None
        /\ b.hostDisconnectDeadline = o.rec.hostDisconnectDeadline
        /\ b.generation = o.rec.generation
        /\ b.sessionExpiresAt = o.rec.sessionExpiresAt
    BY <1>0 DEF SessionRecord
  <2>5. withoutControl(o) = [o EXCEPT !.rec = b]
    BY <1>0 DEF withoutControl, withoutRequest, withoutLease, Object
  <2> HIDE DEF b
  <2>6. [[o EXCEPT !.rec = b] EXCEPT
           !.rec.hostDisconnectDeadline = IF @ = None THEN now + HostGrace ELSE @,
           !.rec.state = "ready"] = [o EXCEPT !.rec = r]
    BY <1>0, <2>3, <2>4 DEF Object
  <2>7. reconcileRecordWithSockets(o) = p
    BY <1>3, <2>5, <2>6 DEF reconcileRecordWithSockets
  <2>8. o.rec.hostDisconnectDeadline # None => deadline = o.rec.hostDisconnectDeadline
    OBVIOUS
  <2> HIDE DEF deadline
  <2>9. /\ r \in SessionRecord
        /\ r.state = "ready" /\ r.hostDisconnectDeadline = deadline
        /\ r.pendingRequest = None /\ r.pendingRequestExpiresAt = None
        /\ r.currentControllerId = None /\ r.controlLeaseExpiresAt = None
        /\ r.generation = o.rec.generation
        /\ r.sessionExpiresAt = o.rec.sessionExpiresAt
    BY <2>1, <2>3, <2>4 DEF SessionRecord, State
  <2> HIDE DEF r
  <2>10. RecordOK(r) BY <2>1, <2>9 DEF RecordOK
  <2>11. Kept(p) /\ Covered(p) /\ SameSockets(o, p) /\ p.rec = r
    BY <1>3, <2>9, <2>10, ReconcileWrites
  <2> HIDE DEF p
  <2> QED BY <2>7, <2>8, <2>9, <2>11
<1>4. CASE \/ o.hostConnected /\ o.rec.hostDisconnectDeadline = None /\ o.rec.state = "active"
           \/ ~o.hostConnected /\ o.rec.state # "active"
                /\ ~(o.viewers # {} /\ o.rec.state = "idle")
  <2>1. reconcileRecordWithSockets(o) = o BY <1>4 DEF reconcileRecordWithSockets
  <2>2. Resting(o) BY DEF Resting
  <2> QED BY <2>1, <2>2 DEF Kept, SameSockets
<1> QED BY <1>1, <1>2, <1>3, <1>4

LEMMA RestartOutcome ==
  ASSUME now \in Nat, Settled(obj), Saved(obj), Kept(obj), Covered(obj),
         NEW h \in HostSock \cup {None}, NEW viewers \in SUBSET ViewerSock,
         Restart(h, viewers)
  PROVE  /\ Outcome(obj, obj') /\ Narrows(obj, obj')
         /\ obj.stored # None => obj'.rec.sessionExpiresAt = obj.rec.sessionExpiresAt
<1> DEFINE o == restoreSockets(h, viewers)
<1>1. Keepable(h, viewers) BY DEF Restart
<1>2. /\ Valid(o) /\ (o.hostConnected <=> o.host # None)
      /\ Calm(obj, o) /\ EndKnown(o)
      /\ obj.stored # None => o.rec = obj.rec
      /\ obj.stored = None => o.rec.state = "idle" /\ o.viewers = {} /\ o.host = None
      /\ obj.rec.state = "idle" \/ obj.stored # None
  BY <1>1, RestoredValid, RestoredCalm
<1>3. obj' = CASE o.rec.state = "closed" -> finishClosedSession(o)
               [] o.rec.state = "ended"  -> finishSharing(o)
               [] OTHER -> reconcileRecordWithSockets(o)
  BY DEF Restart
<1> HIDE DEF o
<1>4. obj \in Object /\ o \in Object BY <1>2 DEF Settled, Sound, Valid
<1>5. Owned(o) /\ HostKnows(o) /\ ViewersKnow(o) /\ Covered(o)
  BY <1>2, <1>4, NarrowsOwned DEF Calm, Kept
<1>6. CASE o.rec.state = "closed"
  <2>1. obj' = finishClosedSession(o) BY <1>3, <1>6
  <2>2. /\ Calm(o, obj') /\ obj'.rec.sessionExpiresAt = o.rec.sessionExpiresAt
        /\ obj'.viewers = {}
        /\ \/ /\ obj'.rec.state = "closed"
              /\ obj'.rec.hostDisconnectDeadline = o.rec.hostDisconnectDeadline
           \/ obj'.rec.state = "ready"
    BY <1>2, <1>6, <2>1, FinishClosedCalm
  <2>3. o.rec = obj.rec /\ obj.stored # None BY <1>2, <1>6
  <2>4. EndKnown(obj') /\ Resting(obj')
    BY <1>6, <2>2, <2>3 DEF EndKnown, Resting, Kept
  <2>5. Calm(obj, obj') BY <1>2, <1>4, <2>2, CalmTransitive
  <2>6. Kept(obj') BY <1>4, <2>4, <2>5, CalmKept
  <2> QED BY <2>2, <2>3, <2>5, <2>6, CalmOutcome DEF Calm
<1>7. CASE o.rec.state = "ended"
  <2>1. obj' = finishSharing(o) BY <1>3, <1>7
  <2>2. /\ Calm(o, obj') /\ obj'.rec.sessionExpiresAt = o.rec.sessionExpiresAt
        /\ EndKnown(obj') /\ obj'.rec.state \in {o.rec.state, "ready"}
    BY <1>2, <1>7, <2>1, FinishSharingCalm
  <2>3. o.rec = obj.rec /\ obj.stored # None BY <1>2, <1>7
  <2>4. Resting(obj') BY <1>7, <2>2 DEF Resting
  <2>5. Calm(obj, obj') BY <1>2, <1>4, <2>2, CalmTransitive
  <2>6. Kept(obj') BY <1>4, <2>2, <2>4, <2>5, CalmKept
  <2> QED BY <2>2, <2>3, <2>5, <2>6, CalmOutcome DEF Calm
<1>8. CASE o.rec.state \notin {"closed", "ended"}
  <2>1. obj' = reconcileRecordWithSockets(o) BY <1>3, <1>8
  <2>2. o.rec.state = "idle" => o.rec.hostDisconnectDeadline = None
    BY <1>2 DEF Kept, Resting, Calm, KeepsGrace, Settled, Sound
  <2>3. /\ Kept(obj') /\ Covered(obj') /\ SameSockets(o, obj')
        /\ obj'.rec.sessionExpiresAt = o.rec.sessionExpiresAt
        /\ obj'.rec.currentControllerId # None =>
             /\ obj'.rec.currentControllerId = o.rec.currentControllerId
             /\ obj'.rec.controlLeaseExpiresAt = o.rec.controlLeaseExpiresAt
        /\ o.rec.hostDisconnectDeadline # None =>
             obj'.rec.hostDisconnectDeadline \in {None, o.rec.hostDisconnectDeadline}
    BY <1>2, <1>5, <1>8, <2>1, <2>2, ReconcileKept
  <2>4. Narrows(obj, obj') BY <1>2, <2>3 DEF Calm, Narrows, SameSockets
  <2>5. KeepsLease(obj.rec, obj'.rec)
    BY <1>2, <2>3 DEF KeepsLease, Calm, DropsClaims
  <2>6. KeepsDeadline(obj.rec, obj'.rec)
    <3>1. CASE obj.stored # None
      BY <1>2, <2>3, <3>1 DEF KeepsDeadline
    <3>2. CASE obj.stored = None
      BY <1>2, <3>2 DEF KeepsDeadline, Kept, Resting
    <3> QED BY <3>1, <3>2
  <2> QED BY <1>2, <2>3, <2>4, <2>5, <2>6 DEF Outcome
<1> QED BY <1>6, <1>7, <1>8

----------------------------------------------------------------------------
(* What each event makes of the object.                                    *)

\* A new session: nobody is connected but viewers of one that never had a host.
LEMMA InitSessionOutcome ==
  ASSUME now \in Nat, Settled(obj), Kept(obj), InitSession
  PROVE  /\ Outcome(obj, obj') /\ obj'.sock = obj.sock
         /\ obj'.rec = createInitialSessionRecord("ready")
<1> DEFINE r == createInitialSessionRecord("ready")
           p == [obj EXCEPT !.rec = r]
<1>1. /\ r \in SessionRecord /\ RecordOK(r) /\ r.state = "ready" /\ Unclaimed(r)
      /\ r.generation = 0 /\ r.hostDisconnectDeadline = None
  <2>1. r.generation = 0 /\ r.hostDisconnectDeadline = None
    BY DEF createInitialSessionRecord
  <2> HIDE DEF r
  <2>2. /\ r \in SessionRecord /\ RecordOK(r)
        /\ r.state = "ready" /\ Unclaimed(r)
    BY InitialRecordOK DEF r
  <2> QED BY <2>1, <2>2
<1> HIDE DEF r
<1>2. /\ p \in Object /\ p.rec = r /\ p.stored = obj.stored /\ SameSockets(obj, p)
      /\ p.hostConnected = obj.hostConnected
  BY <1>1 DEF Settled, Sound, Valid, Object, SameSockets
<1>3. obj.rec.state \in {"idle", "closed"} /\ obj' = updateRecord(p)
  BY DEF InitSession, r
<1> HIDE DEF p
<1>4. Sound(p) /\ p.host = None
  BY <1>1, <1>2, <1>3 DEF Settled, Sound, Valid, SameSockets
<1>5. obj'.rec = r /\ Covered(obj') /\ SameSockets(p, obj')
  BY <1>3, <1>4, <1>2, UpdateSound, UpdateStill
<1>6. SameSockets(obj, obj') /\ obj'.host = None
  BY <1>2, <1>4, <1>5 DEF SameSockets
<1>7. obj.viewers = {} \/ obj.rec.generation = 0
  <2>1. obj.rec.generation \in Nat BY DEF Settled, Sound, Valid, Object, SessionRecord
  <2> QED BY <1>3, <2>1 DEF Kept, Resting, Settled, Sound, Valid, RecordOK
<1>8. Owned(obj') BY <1>6 DEF Kept, Owned, SameSockets
<1>9. HostKnows(obj') BY <1>6 DEF HostKnows
<1>10. ViewersKnow(obj')
  BY <1>1, <1>5, <1>6, <1>7 DEF Kept, ViewersKnow, Knows, SameSockets, Unclaimed
<1>11. EndKnown(obj') /\ Resting(obj')
  BY <1>1, <1>5 DEF EndKnown, Resting
<1>12. KeepsLease(obj.rec, obj'.rec) /\ KeepsDeadline(obj.rec, obj'.rec)
  BY <1>1, <1>5 DEF KeepsLease, KeepsDeadline, Unclaimed
<1> QED BY <1>5, <1>6, <1>8, <1>9, <1>10, <1>11, <1>12 DEF Outcome, Kept, SameSockets, r

LEMMA ConnectHostOutcome ==
  ASSUME now \in Nat, Settled(obj), Kept(obj), Covered(obj), NEW h \in HostSock, ConnectHost(h)
  PROVE  Outcome(obj, obj')
<1> DEFINE o == advanceRecordAndPersist(obj)
<1>1. Settled(o) /\ Kept(o) /\ Calm(obj, o) BY AdvanceKept
<1>2. obj' = IF o.rec.state = "closed" THEN o ELSE acceptHost(o, h) BY DEF ConnectHost
<1> HIDE DEF o
<1>3. CASE o.rec.state = "closed" BY <1>1, <1>2, <1>3, CalmOutcome
<1>4. CASE o.rec.state # "closed"
  <2> DEFINE p == acceptHost(o, h)
  <2>1. obj' = p BY <1>2, <1>4
  <2>2. /\ Kept(p) /\ Covered(p)
        /\ p.rec.currentControllerId = None
        /\ p.rec.hostDisconnectDeadline = None
    BY <1>1, AcceptHostKept
  <2> HIDE DEF p
  <2> QED BY <2>1, <2>2 DEF Outcome, KeepsLease, KeepsDeadline
<1> QED BY <1>3, <1>4

LEMMA ConnectViewerOutcome ==
  ASSUME now \in Nat, Settled(obj), Kept(obj), Covered(obj),
         NEW v \in ViewerSock, NEW id \in Viewer, ConnectViewer(v, id)
  PROVE  Outcome(obj, obj')
<1> DEFINE o == advanceRecordAndPersist(obj)
<1>1. Settled(o) /\ Kept(o) /\ Calm(obj, o) BY AdvanceKept
<1>2. /\ obj' = IF o.rec.state = "closed" THEN o ELSE acceptViewer(o, v, id)
      /\ obj.sock[v] = "free"
  BY DEF ConnectViewer
<1> HIDE DEF o
<1>3. CASE o.rec.state = "closed" BY <1>1, <1>2, <1>3, CalmOutcome
<1>4. CASE o.rec.state # "closed"
  <2> DEFINE p == acceptViewer(o, v, id)
  <2>1. obj' = p BY <1>2, <1>4
  <2>2. o.sock[v] # "open" /\ Covered(o)
    BY <1>1, <1>2 DEF Calm, Narrows, Socket
  <2>3. /\ Kept(p) /\ Covered(p)
        /\ DropsClaims(o.rec, p.rec) /\ KeepsGrace(o, p)
    BY <1>1, <1>4, <2>2, AcceptViewerKept
  <2> HIDE DEF p
  <2>4. KeepsLease(obj.rec, p.rec)
    BY <1>1, <2>3 DEF KeepsLease, Calm, DropsClaims
  <2>5. KeepsDeadline(obj.rec, p.rec)
    BY <1>1, <2>3, GraceWithoutHost DEF KeepsDeadline, Calm, KeepsGrace
  <2> QED BY <2>1, <2>3, <2>4, <2>5 DEF Outcome
<1> QED BY <1>3, <1>4

\* A message is preceded by what the clock brings about.
LEMMA HeardKept ==
  ASSUME now \in Nat, Settled(obj), Kept(obj), Covered(obj)
  PROVE  /\ Settled(Heard) /\ Kept(Heard) /\ Covered(Heard) /\ Calm(obj, Heard)
         /\ Heard.rec.sessionExpiresAt = obj.rec.sessionExpiresAt
         /\ Outcome(obj, Heard)
<1>1. /\ Settled(Heard) /\ Kept(Heard) /\ Calm(obj, Heard)
      /\ Heard.rec.sessionExpiresAt = obj.rec.sessionExpiresAt
  BY TellKept DEF Heard
<1> QED BY <1>1, CalmOutcome DEF Calm

LEMMA HeardMild ==
  ASSUME now \in Nat, Settled(obj), Kept(obj), Covered(obj), NEW p, Mild(Heard, p)
  PROVE  Outcome(obj, p)
BY HeardKept, MildOutcome

\* A message after which the session is touched.
LEMMA TouchedMild ==
  ASSUME now \in Nat, Settled(obj), Kept(obj), Covered(obj),
         NEW p, Settled(p), Mild(Heard, p)
  PROVE  Outcome(obj, touchSession(p))
<1>1. Mild(p, touchSession(p)) BY TouchMild
<1>2. Heard \in Object /\ p \in Object BY HeardKept DEF Settled, Sound, Valid
<1>3. Mild(Heard, touchSession(p)) BY <1>1, <1>2, MildTransitive
<1> QED BY <1>3, HeardMild

\* The host's answer to a request: nobody was in control, no grace period ran.
LEMMA ApproveOutcome ==
  ASSUME now \in Nat, Settled(obj), Kept(obj), Covered(obj),
         NEW id \in Viewer, NEW ask \in LeaseAsks \cup {None}
  PROVE  Outcome(obj, touchSession(handleControlApprove(Heard, id, ask)))
<1>0. Settled(Heard) /\ Kept(Heard) /\ Covered(Heard) /\ Calm(obj, Heard)
  BY HeardKept
<1>1. CASE ~Pending(Heard, id)
  <2>1. handleControlApprove(Heard, id, ask) = Heard
    BY <1>1 DEF handleControlApprove
  <2>2. Mild(Heard, Heard) BY StillItself DEF Still
  <2> QED BY <1>0, <2>1, <2>2, TouchedMild
<1>2. CASE Pending(Heard, id)
  <2> DEFINE p == handleControlApprove(Heard, id, ask)
             t == touchSession(p)
  <2>1. Settled(p) /\ Kept(p) /\ Covered(p)
    BY <1>0, <1>2, ApproveSettled, ApproveKept
  <2> HIDE DEF p
  <2>2. Mild(p, t) BY <2>1, TouchMild
  <2> HIDE DEF t
  <2>3. Kept(t) /\ Covered(t)
    BY <2>1, <2>2, MildKept DEF Settled, Sound, Valid
  <2>4. obj.rec.pendingRequest # None
    BY <1>0, <1>2 DEF Pending, Calm, DropsClaims
  <2>5. obj.rec.currentControllerId = None /\ obj.rec.hostDisconnectDeadline = None
    BY <2>4 DEF Settled, Sound, Valid, RecordOK
  <2>6. Outcome(obj, t)
    BY <2>3, <2>5 DEF Outcome, KeepsLease, KeepsDeadline
  <2> QED BY <2>6 DEF p, t
<1> QED BY <1>1, <1>2

\* A request: it changes nothing if somebody is in control or no host is there.
LEMMA RequestOutcome ==
  ASSUME now \in Nat, Settled(obj), Kept(obj), Covered(obj),
         NEW v \in ViewerSock, NEW ask \in LeaseAsks \cup {None}
  PROVE  Outcome(obj, touchSession(handleControlRequest(Heard, v, ask)))
<1> DEFINE p == handleControlRequest(Heard, v, ask)
           t == touchSession(p)
<1>0. Settled(Heard) /\ Kept(Heard) /\ Covered(Heard) /\ Calm(obj, Heard)
  BY HeardKept
<1>1. Settled(p) BY <1>0, RequestSettled
<1>2. \/ Kept(p) /\ Calm(Heard, p)
      \/ Kept(p) /\ Covered(p) /\ Heard.host # None /\ p.rec.currentControllerId = None
  BY <1>0, RequestKept
<1> HIDE DEF p
<1>3. Mild(p, t) BY <1>1, TouchMild
<1> HIDE DEF t
<1>4. obj \in Object /\ Heard \in Object /\ p \in Object
  BY <1>0, <1>1 DEF Settled, Sound, Valid
<1>5. CASE Kept(p) /\ Calm(Heard, p)
  <2>1. Calm(obj, p) BY <1>0, <1>4, <1>5, CalmTransitive
  <2>2. Outcome(obj, t) BY <1>1, <1>3, <1>5, <2>1, MildOutcome
  <2> QED BY <2>2 DEF p, t
<1>6. CASE Kept(p) /\ Covered(p) /\ Heard.host # None /\ p.rec.currentControllerId = None
  <2>1. Kept(t) /\ Covered(t) BY <1>3, <1>4, <1>6, MildKept
  <2>2. t.rec.currentControllerId = None
    BY <1>3, <1>6 DEF Mild, Calm, DropsClaims
  <2>3. obj.host # None BY <1>0, <1>6 DEF Calm, Narrows
  <2>4. obj.rec.hostDisconnectDeadline = None BY <2>3, GraceWithoutHost
  <2>5. Outcome(obj, t)
    BY <2>1, <2>2, <2>4 DEF Outcome, KeepsLease, KeepsDeadline
  <2> QED BY <2>5 DEF p, t
<1> QED BY <1>2, <1>5, <1>6

LEMMA HostActionsOutcome ==
  ASSUME now \in Nat, Settled(obj), Kept(obj), Covered(obj), NEW h \in HostSock
  PROVE  /\ HostEnds(h) => Outcome(obj, obj')
         /\ \A v \in ViewerSock : HostSnapshot(h, v) => Outcome(obj, obj')
         /\ \A id \in Viewer, ask \in LeaseAsks \cup {None} :
              HostApproves(h, id, ask) => Outcome(obj, obj')
         /\ \A id \in Viewer : HostRejects(h, id) => Outcome(obj, obj')
         /\ HostRevokes(h) => Outcome(obj, obj')
         /\ \A d \in Details, new \in BOOLEAN : HostDetail(h, d, new) => Outcome(obj, obj')
         /\ HostOutput(h) => Outcome(obj, obj')
         /\ HostBadFrame(h) => Outcome(obj, obj')
<1>0. /\ Settled(Heard) /\ Kept(Heard) /\ Calm(obj, Heard) /\ Outcome(obj, Heard)
      /\ Heard \in Object
  BY HeardKept DEF Settled, Sound, Valid
<1>1. Sound(Heard) BY <1>0 DEF Settled
<1>2. ASSUME NEW handled, FromHost(Heard, h) => Outcome(obj, handled), HostFrame(h, handled)
      PROVE  Outcome(obj, obj')
  BY <1>0, <1>2 DEF HostFrame
<1>3. FromHost(Heard, h) => Heard.hostConnected /\ Heard.rec.state = "active"
  BY <1>0, SocketAssumption DEF FromHost, Settled, Sound, Socket
<1>4. Mild(Heard, Heard) BY StillItself DEF Still
<1>5. ASSUME HostEnds(h) PROVE Outcome(obj, obj')
  <2> DEFINE e == scheduleNextAlarm(finishSharing(persistRecord(endSharing(Heard, "host ended"))))
  <2>1. FromHost(Heard, h) => Calm(Heard, e) /\ Kept(e)
    BY <1>0, <1>3, EndsCalm
  <2>2. HostFrame(h, e) BY <1>5 DEF HostEnds
  <2> HIDE DEF e
  <2>3. FromHost(Heard, h) => Outcome(obj, e)
    <3>1. obj \in Object BY DEF Settled, Sound, Valid
    <3>2. FromHost(Heard, h) => Calm(obj, e)
      BY <1>0, <2>1, <3>1, CalmTransitive
    <3> QED BY <2>1, <3>2, CalmOutcome
  <2> QED BY <1>2, <2>2, <2>3
<1>6. ASSUME NEW v \in ViewerSock, HostSnapshot(h, v) PROVE Outcome(obj, obj')
  <2> DEFINE p == IF v \in Heard.viewers /\ Heard.sock[v] # "open"
                  THEN removeViewers(Heard, {v}) ELSE Heard
  <2>1. CASE v \in Heard.viewers /\ Heard.sock[v] # "open"
    <3>1. \A w \in {v} \cap Heard.viewers : Heard.sock[w] # "open" BY <2>1
    <3>2. Still(Heard, removeViewers(Heard, {v}))
      BY <1>1, <3>1, RemoveViewersStill
    <3>3. Mild(Heard, p) BY <2>1, <3>2 DEF Still
    <3> QED BY <1>2, <1>6, <3>3, HeardMild DEF HostSnapshot
  <2>2. CASE ~(v \in Heard.viewers /\ Heard.sock[v] # "open")
    <3>1. Outcome(obj, p) BY <1>0, <2>2
    <3> QED BY <1>2, <1>6, <3>1 DEF HostSnapshot
  <2> QED BY <2>1, <2>2
<1>7. ASSUME NEW id \in Viewer, NEW ask \in LeaseAsks \cup {None}, HostApproves(h, id, ask)
      PROVE  Outcome(obj, obj')
  <2>1. Outcome(obj, touchSession(handleControlApprove(Heard, id, ask)))
    BY ApproveOutcome
  <2> QED BY <1>2, <1>7, <2>1 DEF HostApproves
<1>8. ASSUME NEW id \in Viewer, HostRejects(h, id) PROVE Outcome(obj, obj')
  <2>1. Mild(Heard, handleControlReject(Heard, id)) /\ Settled(handleControlReject(Heard, id))
    BY <1>0, RejectStill, RejectSettled DEF Still
  <2>2. Outcome(obj, touchSession(handleControlReject(Heard, id)))
    BY <2>1, TouchedMild
  <2> QED BY <1>2, <1>8, <2>2 DEF HostRejects
<1>9. ASSUME HostRevokes(h) PROVE Outcome(obj, obj')
  <2>1. Mild(Heard, handleControlRevoke(Heard)) /\ Settled(handleControlRevoke(Heard))
    BY <1>0, RevokeStill, RevokeSettled DEF Still
  <2>2. Outcome(obj, touchSession(handleControlRevoke(Heard)))
    BY <2>1, TouchedMild
  <2> QED BY <1>2, <1>9, <2>2 DEF HostRevokes
<1>10. ASSUME NEW d \in Details, NEW new \in BOOLEAN, HostDetail(h, d, new)
       PROVE  Outcome(obj, obj')
  <2> DEFINE cached == IF new THEN broadcastStatus([Heard EXCEPT !.details = @ \cup {d}])
                       ELSE Heard
  <2>1. FromHost(Heard, h) => Settled(cached) /\ Mild(Heard, cached)
    BY <1>0, <1>3, <1>4, DetailSettled, DetailStill DEF Still
  <2>2. HostFrame(h, touchSession(cached)) BY <1>10 DEF HostDetail
  <2> HIDE DEF cached
  <2>3. FromHost(Heard, h) => Outcome(obj, touchSession(cached))
    BY <2>1, TouchedMild
  <2> QED BY <1>2, <2>2, <2>3
<1>11. ASSUME HostOutput(h) PROVE Outcome(obj, obj')
  <2> DEFINE t == touchSession(Heard)
             p == sendViewers(t)
  <2>1. HostFrame(h, p) BY <1>11 DEF HostOutput
  <2>2. Settled(t) /\ Mild(Heard, t) BY <1>0, TouchMild
  <2> HIDE DEF t
  <2>3. Sound(t) /\ t \in Object BY <2>2 DEF Settled, Sound, Valid
  <2>4. Mild(t, p) BY <2>3, SendViewersStill DEF Still
  <2> HIDE DEF p
  <2>5. Outcome(obj, p) BY <1>0, <2>2, <2>3, <2>4, MildTransitive, HeardMild
  <2> QED BY <1>2, <2>1, <2>5
<1>12. ASSUME HostBadFrame(h) PROVE Outcome(obj, obj')
  <2>1. Mild(Heard, Shut(Heard, {h})) BY <1>0, ShutMild
  <2>2. Outcome(obj, Shut(Heard, {h})) BY <2>1, HeardMild
  <2> QED BY <1>2, <1>12, <2>2 DEF HostBadFrame
<1> QED BY <1>5, <1>6, <1>7, <1>8, <1>9, <1>10, <1>11, <1>12

LEMMA ViewerActionsOutcome ==
  ASSUME now \in Nat, Settled(obj), Kept(obj), Covered(obj), NEW v \in ViewerSock
  PROVE  /\ ViewerTypes(v) => Outcome(obj, obj')
         /\ ViewerBadFrame(v) => Outcome(obj, obj')
         /\ ViewerReleases(v) => Outcome(obj, obj')
         /\ \A ask \in LeaseAsks \cup {None} :
              ViewerRequestsControl(v, ask) => Outcome(obj, obj')
         /\ ViewerAsksDetails(v) => Outcome(obj, obj')
<1>0. /\ Settled(Heard) /\ Outcome(obj, Heard) /\ Heard \in Object /\ Sound(Heard)
  BY HeardKept DEF Settled, Sound, Valid
<1>2. ASSUME NEW handled, Outcome(obj, handled), ViewerFrame(v, handled)
      PROVE  Outcome(obj, obj')
  BY <1>0, <1>2 DEF ViewerFrame
<1>3. ASSUME ViewerTypes(v) PROVE Outcome(obj, obj')
  <2> DEFINE t == touchSession(Heard)
             p == sendHost(t)
  <2>1. obj' \in {p, Heard} BY <1>3 DEF ViewerTypes
  <2>2. Settled(t) /\ Mild(Heard, t) BY <1>0, TouchMild
  <2> HIDE DEF t
  <2>3. Sound(t) /\ t \in Object BY <2>2 DEF Settled, Sound, Valid
  <2>4. Mild(t, p) BY <2>3, SendHostStill DEF Still
  <2> HIDE DEF p
  <2>5. Outcome(obj, p) BY <1>0, <2>2, <2>3, <2>4, MildTransitive, HeardMild
  <2> QED BY <1>0, <2>1, <2>5
<1>4. ASSUME ViewerBadFrame(v) PROVE Outcome(obj, obj')
  <2>1. Mild(Heard, Shut(Heard, {v})) BY <1>0, ShutMild
  <2>2. Outcome(obj, Shut(Heard, {v})) BY <2>1, HeardMild
  <2> QED BY <1>2, <1>4, <2>2 DEF ViewerBadFrame
<1>5. ASSUME ViewerReleases(v) PROVE Outcome(obj, obj')
  <2>1. Mild(Heard, handleControlRevoke(Heard)) BY <1>0, RevokeStill DEF Still
  <2>2. Outcome(obj, handleControlRevoke(Heard)) BY <2>1, HeardMild
  <2>3. Outcome(obj, IF canWrite(Heard, v) THEN handleControlRevoke(Heard) ELSE Heard)
    BY <1>0, <2>2
  <2> QED BY <1>2, <1>5, <2>3 DEF ViewerReleases
<1>6. ASSUME NEW ask \in LeaseAsks \cup {None}, ViewerRequestsControl(v, ask)
      PROVE  Outcome(obj, obj')
  <2>1. Outcome(obj, touchSession(handleControlRequest(Heard, v, ask)))
    BY RequestOutcome
  <2> QED BY <1>2, <1>6, <2>1 DEF ViewerRequestsControl
<1>7. ASSUME ViewerAsksDetails(v) PROVE Outcome(obj, obj')
  <2>1. Settled(sendHost(Heard)) /\ Mild(Heard, sendHost(Heard))
    BY <1>0, SendHostSettled, SendHostStill DEF Still
  <2>2. Outcome(obj, touchSession(sendHost(Heard))) BY <2>1, TouchedMild
  <2> QED BY <1>2, <1>7, <2>2 DEF ViewerAsksDetails
<1> QED BY <1>3, <1>4, <1>5, <1>6, <1>7

LEMMA SocketActionsOutcome ==
  ASSUME now \in Nat, Settled(obj), Kept(obj), Covered(obj), NEW s \in Socket
  PROVE  UnknownFrame(s) \/ PeerGone(s) \/ CloseEvent(s) => Outcome(obj, obj')
<1>0. /\ obj \in Object BY DEF Settled, Sound, Valid
<1>1. ASSUME UnknownFrame(s) PROVE Outcome(obj, obj')
  BY <1>1, HeardKept DEF UnknownFrame
<1>2. ASSUME NEW p, Mild(obj, p) PROVE Outcome(obj, p)
  <2>1. Calm(obj, obj) BY StillItself DEF Still, Mild
  <2> QED BY <1>2, <2>1, MildOutcome
<1>3. ASSUME PeerGone(s) PROVE Outcome(obj, obj')
  BY <1>0, <1>2, <1>3, ShutMild DEF PeerGone
<1>4. ASSUME CloseEvent(s) PROVE Outcome(obj, obj')
  BY <1>2, <1>4, CloseEventMild
<1> QED BY <1>1, <1>3, <1>4

----------------------------------------------------------------------------
(* The invariant and the theorems.                                         *)

SocketInv == SavedInv /\ Kept(obj) /\ Covered(obj)

LEMMA InitSocketInv ==
  ASSUME Init
  PROVE  SocketInv
<1>1. SavedInv BY InitStep
<1>2. /\ obj.rec.state = "idle" /\ obj.stored = None /\ obj.host = None /\ obj.viewers = {}
      /\ obj.rec.hostDisconnectDeadline = None
      /\ \A s \in Socket : obj.sock[s] = "free"
  BY DEF Init, createInitialSessionRecord
<1>3. Kept(obj)
  BY <1>2 DEF Kept, Owned, HostKnows, ViewersKnow, EndKnown, Resting, Socket
<1>4. Covered(obj) BY <1>2 DEF Covered, Unused
<1> QED BY <1>1, <1>3, <1>4 DEF SocketInv

\* The clock only takes deadlines out of the future.
LEMMA TickCovered ==
  ASSUME now \in Nat, Settled(obj), Covered(obj), now' = now + 1, obj' = obj
  PROVE  Covered(obj)'
<1>1. obj.rec \in SessionRecord BY DEF Settled, Sound, Valid, Object
<1>2. \A d \in FutureDeadlines(obj.rec)' : d \in FutureDeadlines(obj.rec)
  <2>1. \A d \in Deadline : d # None => d \in Nat BY DEF Deadline
  <2>2. /\ obj.rec.sessionExpiresAt \in Deadline
        /\ obj.rec.hostDisconnectDeadline \in Deadline
        /\ obj.rec.pendingRequestExpiresAt \in Deadline
        /\ obj.rec.controlLeaseExpiresAt \in Deadline
    BY <1>1 DEF SessionRecord, Deadline
  <2> QED BY <2>1, <2>2 DEF FutureDeadlines, Due
<1> QED BY <1>2 DEF Covered, Unused

LEMMA SocketStep ==
  ASSUME SocketInv, [Next]_vars
  PROVE  /\ SocketInv'
         /\ KeepsLease(obj.rec, obj'.rec) /\ KeepsDeadline(obj.rec, obj'.rec)
<1>0. now \in Nat /\ Settled(obj) /\ Saved(obj) /\ Kept(obj) /\ Covered(obj)
  BY DEF SocketInv, SavedInv
<1>1. SavedInv' BY Step DEF SocketInv
<1>2. CASE UNCHANGED vars
  BY <1>0, <1>1, <1>2
     DEF vars, SocketInv, Covered, Unused, FutureDeadlines, Due, KeepsLease, KeepsDeadline
<1>3. CASE Tick
  <2>1. now' = now + 1 /\ obj' = obj BY <1>3 DEF Tick
  <2> QED BY <1>0, <1>1, <2>1, TickCovered DEF SocketInv, KeepsLease, KeepsDeadline
<1>4. ASSUME now' = now, Outcome(obj, obj')
      PROVE  /\ SocketInv'
             /\ KeepsLease(obj.rec, obj'.rec) /\ KeepsDeadline(obj.rec, obj'.rec)
  <2>1. Covered(obj)'
    BY <1>4 DEF Outcome, Covered, Unused, FutureDeadlines, Due
  <2> QED BY <1>1, <1>4, <2>1 DEF SocketInv, Outcome
<1>5. CASE AlarmFires
  <2>1. now' = now BY <1>5 DEF AlarmFires
  <2>2. Outcome(obj, obj') BY <1>0, <1>5, AlarmOutcome
  <2> QED BY <1>4, <2>1, <2>2
<1>6. CASE Event
  <2>1. now' = now
    BY <1>6 DEF Event, InitSession, GetStatus, ConnectHost, HostEnds, HostSnapshot,
                HostApproves, HostRejects, HostRevokes, HostDetail, HostOutput, HostBadFrame,
                HostFrame, ConnectViewer, ViewerTypes, ViewerBadFrame, ViewerReleases,
                ViewerRequestsControl, ViewerAsksDetails, ViewerFrame, UnknownFrame,
                PeerGone, CloseEvent, Restart
  <2>2. CASE InitSession BY <1>0, <2>2, InitSessionOutcome, <1>4, <2>1
  <2>3. CASE GetStatus
    <3>1. obj' = advanceRecordAndPersist(obj) BY <2>3 DEF GetStatus
    <3>2. Outcome(obj, obj') BY <1>0, <3>1, AdvanceKept, CalmOutcome
    <3> QED BY <1>4, <2>1, <3>2
  <2>4. ASSUME NEW h \in HostSock, ConnectHost(h) PROVE Outcome(obj, obj')
    BY <1>0, <2>4, ConnectHostOutcome
  <2>5. ASSUME NEW h \in HostSock,
               \/ HostEnds(h)
               \/ \E v \in ViewerSock : HostSnapshot(h, v)
               \/ \E id \in Viewer, ask \in LeaseAsks \cup {None} : HostApproves(h, id, ask)
               \/ \E id \in Viewer : HostRejects(h, id)
               \/ HostRevokes(h)
               \/ \E d \in Details, new \in BOOLEAN : HostDetail(h, d, new)
               \/ HostOutput(h)
               \/ HostBadFrame(h)
        PROVE  Outcome(obj, obj')
    BY <1>0, <2>5, HostActionsOutcome
  <2>6. ASSUME NEW v \in ViewerSock, NEW id \in Viewer, ConnectViewer(v, id)
        PROVE  Outcome(obj, obj')
    BY <1>0, <2>6, ConnectViewerOutcome
  <2>7. ASSUME NEW v \in ViewerSock,
               \/ ViewerTypes(v)
               \/ ViewerBadFrame(v)
               \/ ViewerReleases(v)
               \/ \E ask \in LeaseAsks \cup {None} : ViewerRequestsControl(v, ask)
               \/ ViewerAsksDetails(v)
        PROVE  Outcome(obj, obj')
    BY <1>0, <2>7, ViewerActionsOutcome
  <2>8. ASSUME NEW s \in Socket, UnknownFrame(s) \/ PeerGone(s) \/ CloseEvent(s)
        PROVE  Outcome(obj, obj')
    BY <1>0, <2>8, SocketActionsOutcome
  <2>9. ASSUME NEW h \in HostSock \cup {None}, NEW viewers \in SUBSET ViewerSock,
               Restart(h, viewers)
        PROVE  Outcome(obj, obj')
    BY <1>0, <2>9, RestartOutcome
  <2> QED BY <1>4, <1>6, <2>1, <2>2, <2>3, <2>4, <2>5, <2>6, <2>7, <2>8, <2>9 DEF Event
<1> QED BY <1>2, <1>3, <1>5, <1>6 DEF Next

THEOREM SocketInvariance == Spec => []SocketInv
<1>1. Init => SocketInv
  BY InitSocketInv
<1>2. SocketInv /\ [Next]_vars => SocketInv'
  BY SocketStep
<1> QED BY <1>1, <1>2, PTL DEF Spec

\* The object never forgets a socket it has left open: what is open is the
\* host's or a viewer's, and a viewer identity has one connection, whatever
\* happens while a broadcast or a close is under way (acceptSocket,
\* replaceViewerConnection, removeViewers, clearHost, the constructor).
THEOREM NoSocketIsOrphaned == Spec => []NoOrphanSocket
<1>1. SocketInv => NoOrphanSocket
  BY DEF SocketInv, Kept, Owned, NoOrphanSocket
<1> QED BY <1>1, SocketInvariance, PTL

\* A session that has been written and is not closed always has an alarm no
\* later than its next deadline, so no deadline is slept through
\* (scheduleNextAlarm, updateRecord, alarm).
THEOREM AlarmIsSet == Spec => []AlarmCovers
<1>1. SocketInv => AlarmCovers
  BY DEF SocketInv, Covered, Unused, AlarmCovers
<1> QED BY <1>1, SocketInvariance, PTL

\* Every connected peer has last been told the present host generation and
\* the present controller, and the host the present request (broadcastStatus,
\* sendStatus).
THEOREM ControlIsKnown == Spec => []ControlIsTold
<1>1. SocketInv => ControlIsTold
  <2> SUFFICES ASSUME SocketInv PROVE ControlIsTold
    OBVIOUS
  <2>1. HostKnows(obj) /\ ViewersKnow(obj) BY DEF SocketInv, Kept
  <2>2. obj.viewers \subseteq ViewerSock /\ obj.host \in HostSock \cup {None}
    BY DEF SocketInv, SavedInv, Settled, Sound, Valid, Object
  <2>3. \A v \in obj.viewers : v # obj.host
    BY <2>2, SocketAssumption DEF Socket
  <2> QED BY <2>1, <2>3 DEF HostKnows, ViewersKnow, Knows, ControlIsTold
<1> QED BY <1>1, SocketInvariance, PTL

\* When the sharing ends every connected viewer has been told that the host is
\* gone, and a closed session has no open sockets (finishSharing,
\* finishClosedSession).
THEOREM EndIsKnown == Spec => []EndIsTold
<1>1. SocketInv => EndIsTold
  <2> SUFFICES ASSUME SocketInv PROVE EndIsTold
    OBVIOUS
  <2>1. Owned(obj) /\ EndKnown(obj) /\ Resting(obj) BY DEF SocketInv, Kept
  <2>2. obj.rec.state = "closed" => obj.host = None
    BY DEF SocketInv, SavedInv, Settled, Sound
  <2>3. \A h \in HostSock : h # None BY SocketAssumption DEF Socket
  <2> QED BY <2>1, <2>2, <2>3 DEF Owned, EndKnown, Resting, EndIsTold, Socket
<1> QED BY <1>1, SocketInvariance, PTL

\* A grace period that runs is not prolonged: not by a second loss of the
\* host, nor by a restart (clearHost, reconcileRecordWithSockets).
THEOREM GraceIsNotExtended == Spec => GraceNotExtended
<1>1. SocketInv /\ [Next]_vars =>
        [ LET d == obj.rec.hostDisconnectDeadline
              e == obj'.rec.hostDisconnectDeadline
          IN d # None /\ e # None => e = d ]_vars
  BY SocketStep DEF KeepsDeadline
<1> QED BY <1>1, SocketInvariance, PTL DEF Spec, GraceNotExtended

\* Control that is held is held until the time that was granted with it: no
\* message, no touch and no restart prolongs a lease (handleControlApprove,
\* touchSession, reconcileRecordWithSockets).
THEOREM LeaseIsNotExtended == Spec => LeaseNotExtended
<1>1. SocketInv /\ [Next]_vars =>
        [ LET r == obj.rec
              n == obj'.rec
          IN r.currentControllerId # None /\ n.currentControllerId = r.currentControllerId
               => n.controlLeaseExpiresAt = r.controlLeaseExpiresAt ]_vars
  BY SocketStep DEF KeepsLease
<1> QED BY <1>1, SocketInvariance, PTL DEF Spec, LeaseNotExtended

----------------------------------------------------------------------------
(* Expiry.                                                                 *)

\* The host's socket is open, or there is no host.
Reachable(o) == o.host # None => o.sock[o.host] = "open"

\* Only the loss of the host in mid broadcast changes the state.
LEMMA BroadcastReached ==
  ASSUME now \in Nat, NEW o, Sound(o), Reachable(o)
  PROVE  broadcastStatus(o).rec.state = o.rec.state
<1> DEFINE t == tellHost(o)
<1>1. o \in Object BY DEF Sound, Valid
<1>2. t.rec = o.rec
  BY <1>1 DEF tellHost, sendHost, Reachable, Object
<1>3. Sound(t) BY TellHostSound DEF Reaches
<1> HIDE DEF t
<1>4. tellViewers(t).rec.state = t.rec.state BY <1>3, TellViewersSound
<1> QED BY <1>2, <1>4 DEF broadcastStatus, t

LEMMA FinishClosedReached ==
  ASSUME now \in Nat, NEW o, Valid(o), o.rec.state = "closed", Reachable(o)
  PROVE  finishClosedSession(o).rec.state = "closed"
<1> DEFINE q == [o EXCEPT !.hostConnected = FALSE]
           told == broadcastStatus(q)
           shut == Shut(told, {told.host} \cup told.viewers)
<1>1. /\ q \in Object /\ q.rec = o.rec /\ q.host = o.host /\ q.viewers = o.viewers
      /\ q.sock = o.sock /\ q.ident = o.ident /\ q.stored = o.stored
      /\ q.hostConnected = FALSE
  BY DEF Valid, Object
<1> HIDE DEF q
<1>2. Sound(q) /\ Reachable(q) BY <1>1 DEF Valid, Sound, Reachable
<1>3. told.rec.state = "closed" /\ Sound(told)
  BY <1>1, <1>2, BroadcastReached, BroadcastSound DEF Reaches
<1> HIDE DEF told
<1>4. shut \in Object /\ shut.rec = told.rec
  BY <1>3, ShutSound DEF Sound, Valid
<1> HIDE DEF shut
<1>5. [shut EXCEPT !.host = None, !.viewers = {}, !.details = {}].rec = shut.rec
  BY <1>4 DEF Object
<1> QED BY <1>3, <1>4, <1>5 DEF finishClosedSession, q, told, shut

\* Whatever looks at an expired session while its host can be reached closes it.
LEMMA ExpiredCloses ==
  ASSUME now \in Nat, NEW o, Settled(o), Kept(o), Due(o.rec.sessionExpiresAt), Reachable(o)
  PROVE  /\ advanceRecordAndPersist(o).rec.state = "closed"
         /\ advanceAndTell(o).rec.state = "closed"
<1> DEFINE a == advanceRecord(o)
           p == persistRecord(a)
           u == advanceRecordAndPersist(o)
<1>1. Advances(o) BY DEF Advances
<1>2. Sound(a) /\ a.rec.state = "closed" /\ SameRest(o, a)
  BY AdvanceRecordSound, AdvanceRecordQuieter DEF Settled, Kept
<1> HIDE DEF a
<1>3. Sound(p) /\ p = [a EXCEPT !.stored = a.rec] BY <1>2, PersistSound
<1>4. p.rec = a.rec /\ p.host = a.host /\ p.sock = a.sock
  BY <1>2, <1>3 DEF Sound, Valid, Object
<1>5. u = finishClosedSession(p)
  BY <1>1, <1>2, <1>4 DEF advanceRecordAndPersist, a
<1> HIDE DEF p
<1>6. Reachable(p) BY <1>2, <1>4 DEF Reachable, SameRest, SameSockets
<1>7. /\ u.rec.state = "closed" /\ u.host = None
  BY <1>2, <1>3, <1>4, <1>5, <1>6, FinishClosedReached, FinishClosedCalm DEF Sound
<1>8. Sound(u) BY AdvanceKept DEF Settled
<1>9. advanceAndTell(o) = broadcastStatus(u) BY <1>1 DEF advanceAndTell
<1> HIDE DEF u
<1>10. broadcastStatus(u).rec.state = u.rec.state
  BY <1>7, <1>8, BroadcastReached DEF Reachable
<1> QED BY <1>7, <1>9, <1>10 DEF u

\* No socket is accepted, and the expiry stays unless a new session begins.
Final ==
  /\ ~Accepts
  /\ \/ obj'.rec.sessionExpiresAt = obj.rec.sessionExpiresAt
     \/ obj'.rec = createInitialSessionRecord("ready")

LEMMA ExpiryStep ==
  ASSUME SocketInv, [Next]_vars, obj.stored # None, Due(obj.rec.sessionExpiresAt),
         Reachable(obj)
  PROVE  Final
<1>0. now \in Nat /\ Settled(obj) /\ Saved(obj) /\ Kept(obj) /\ Covered(obj)
  BY DEF SocketInv, SavedInv
<1>1. ASSUME NEW p, Narrows(obj, p), obj' = p,
             p.rec.sessionExpiresAt = obj.rec.sessionExpiresAt
      PROVE  Final
  BY <1>1 DEF Narrows, Accepts, Final
<1>2. obj' = obj => Final
  BY DEF Accepts, Final
<1>3. Heard.rec.state = "closed" /\ advanceRecordAndPersist(obj).rec.state = "closed"
  BY <1>0, ExpiredCloses DEF Heard
<1>4. obj' = Heard => Final
  BY <1>0, <1>1, HeardKept DEF Calm
<1>5. obj' = advanceRecordAndPersist(obj) => Final
  BY <1>0, <1>1, AdvanceKept DEF Calm
<1>6. CASE InitSession
  BY <1>0, <1>6, InitSessionOutcome DEF Accepts, Final
<1>7. CASE GetStatus BY <1>5, <1>7 DEF GetStatus
<1>8. ASSUME NEW h \in HostSock, ConnectHost(h) PROVE Final
  BY <1>3, <1>5, <1>8 DEF ConnectHost
<1>9. ASSUME NEW h \in HostSock, NEW handled, HostFrame(h, handled) PROVE Final
  BY <1>3, <1>4, <1>9 DEF HostFrame, FromHost
<1>10. ASSUME NEW v \in ViewerSock, NEW id \in Viewer, ConnectViewer(v, id) PROVE Final
  BY <1>3, <1>5, <1>10 DEF ConnectViewer
<1>11. ASSUME NEW v \in ViewerSock, NEW handled, ViewerFrame(v, handled) PROVE Final
  BY <1>3, <1>4, <1>11 DEF ViewerFrame, FromViewer
<1>12. ASSUME NEW v \in ViewerSock, ViewerTypes(v) PROVE Final
  BY <1>3, <1>4, <1>12 DEF ViewerTypes, FromViewer
<1>13. ASSUME NEW s \in Socket, UnknownFrame(s) PROVE Final
  BY <1>4, <1>13 DEF UnknownFrame
<1>14. ASSUME NEW s \in Socket, PeerGone(s) PROVE Final
  <2>1. obj' = Shut(obj, {s}) BY <1>14 DEF PeerGone
  <2>2. Mild(obj, obj') /\ obj'.rec = obj.rec
    BY <1>0, <2>1, ShutMild DEF Settled, Sound, Valid
  <2> QED BY <1>1, <2>2 DEF Mild, Calm
<1>15. ASSUME NEW s \in Socket, CloseEvent(s) PROVE Final
  BY <1>0, <1>1, <1>15, CloseEventMild DEF Mild, Calm
<1>16. ASSUME NEW h \in HostSock \cup {None}, NEW viewers \in SUBSET ViewerSock,
              Restart(h, viewers)
       PROVE  Final
  BY <1>0, <1>1, <1>16, RestartOutcome
<1>17. CASE AlarmFires BY <1>0, <1>1, <1>17, AlarmOutcome
<1>18. CASE Tick \/ UNCHANGED vars BY <1>2, <1>18 DEF Tick, vars
<1>19. CASE Event
  <2>1. ASSUME NEW h \in HostSock,
               \/ HostEnds(h)
               \/ \E v \in ViewerSock : HostSnapshot(h, v)
               \/ \E id \in Viewer, ask \in LeaseAsks \cup {None} : HostApproves(h, id, ask)
               \/ \E id \in Viewer : HostRejects(h, id)
               \/ HostRevokes(h)
               \/ \E d \in Details, new \in BOOLEAN : HostDetail(h, d, new)
               \/ HostOutput(h)
               \/ HostBadFrame(h)
        PROVE  Final
    BY <1>9, <2>1 DEF HostEnds, HostSnapshot, HostApproves, HostRejects, HostRevokes,
                      HostDetail, HostOutput, HostBadFrame
  <2>2. ASSUME NEW v \in ViewerSock,
               \/ ViewerBadFrame(v)
               \/ ViewerReleases(v)
               \/ \E ask \in LeaseAsks \cup {None} : ViewerRequestsControl(v, ask)
               \/ ViewerAsksDetails(v)
        PROVE  Final
    BY <1>11, <2>2 DEF ViewerBadFrame, ViewerReleases, ViewerRequestsControl,
                       ViewerAsksDetails
  <2> QED BY <1>6, <1>7, <1>8, <1>10, <1>12, <1>13, <1>14, <1>15, <1>16, <1>19, <2>1, <2>2
          DEF Event
<1> QED BY <1>17, <1>18, <1>19 DEF Next

\* Once its expiry has passed and as long as its host can be reached, a session
\* accepts nobody and is not renewed: what comes next closes it, and only a new
\* session has a new expiry (advanceRecord, touchSession, fetch, initSession).
THEOREM ExpiryFinal == Spec => ExpiryIsFinal
<1>1. SocketInv /\ [Next]_vars =>
        [ /\ obj.stored # None
          /\ Due(obj.rec.sessionExpiresAt)
          /\ obj.host # None => obj.sock[obj.host] = "open"
          => /\ ~Accepts
             /\ \/ obj'.rec.sessionExpiresAt = obj.rec.sessionExpiresAt
                \/ obj'.rec = createInitialSessionRecord("ready") ]_vars
  BY ExpiryStep DEF Final, Reachable
<1> QED BY <1>1, SocketInvariance, PTL DEF Spec, ExpiryIsFinal
==============================================================================
