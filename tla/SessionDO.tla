----------------------------- MODULE SessionDO -----------------------------
(***************************************************************************)
(* The session object (Durable Object TTYSession,                          *)
(* apps/web/src/worker/session-do.ts): the pairing code's lifecycle, the   *)
(* host's and the viewers' WebSockets, and the control permission.         *)
(*                                                                         *)
(* An action is one event the runtime delivers: a request, a WebSocket     *)
(* message, a close notification, an alarm, or the object's construction   *)
(* from storage after a hibernation or an eviction.  A handler is a chain  *)
(* of operators o -> o' on the object's state, in the order of the code's  *)
(* statements; each operator has the name of the method it stands for.     *)
(* A handler is one step because the runtime delivers no event while a     *)
(* storage operation is under way, and the handlers await nothing else.    *)
(***************************************************************************)
EXTENDS Integers, FiniteSetsExt

CONSTANTS
  HostSock,             \* server ends of the WebSockets hosts open
  ViewerSock,           \* server ends of the WebSockets viewers open
  Viewer,               \* viewer identities (a token and the id it stands for)
  Details,              \* terminal metadata the object caches: size, profile
  LeaseAsks,            \* the numbers of seconds a frame may ask for
  None,                 \* null

  PendingTimeout,       \* PENDING_REQUEST_TIMEOUT_MS
  MinLease,             \* 60 s
  MaxLease,             \* DEFAULT_CONTROL_LEASE_SECONDS
  HostGrace,            \* HOST_DISCONNECT_GRACE_MS
  IdleTTL,              \* SESSION_IDLE_TTL_MS
  MaxTTL,               \* SESSION_MAX_TTL_MS
  RenewThreshold,       \* SESSION_RENEW_THRESHOLD_MS

  MaxTime,              \* bound: the clock stops here
  MaxGeneration         \* bound: host connections of one session

Socket == HostSock \cup ViewerSock

ASSUME SocketAssumption ==
  /\ HostSock \cap ViewerSock = {}
  /\ None \notin Socket \cup Viewer

ASSUME TimingAssumption ==
  /\ {PendingTimeout, MinLease, MaxLease, HostGrace, IdleTTL, MaxTTL} \subseteq Nat \ {0}
  /\ MinLease <= MaxLease
  /\ IdleTTL <= MaxTTL
  /\ RenewThreshold \in Nat
  /\ LeaseAsks \subseteq Int
  /\ None \notin Int

ASSUME BoundAssumption == MaxTime \in Nat /\ MaxGeneration \in Nat

VARIABLES
  now,      \* Date.now()
  obj,      \* the object: its memory, its storage and its sockets
  typed     \* the viewer whose input the last step forwarded to the host, or None

vars == <<now, obj, typed>>

----------------------------------------------------------------------------
(* The types.                                                              *)

State == {"idle", "ready", "active", "ended", "closed"}
HostStates == {"waiting", "online", "reconnecting", "offline"}
EndReasons == {"host ended", "host disconnected", "session expired"}

Deadline == Nat \cup {None}
ControlRequest == [viewerId : Viewer, leaseSeconds : MinLease .. MaxLease]

\* A request or a lease in force, as the abstract specification sees it.
Claim == [viewer : Viewer, until : Nat]

SessionRecord ==
  [ state                  : State,
    currentControllerId    : Viewer \cup {None},
    controlLeaseExpiresAt  : Deadline,
    pendingRequest         : ControlRequest \cup {None},
    pendingRequestExpiresAt: Deadline,
    viewerIdentities       : SUBSET Viewer,
    maxExpiresAt           : Nat,
    sessionExpiresAt       : Nat,
    hostDisconnectDeadline : Deadline,
    endReason              : EndReasons \cup {None},
    generation             : Nat ]

\* The part of a session.status message the properties are about.
Status ==
  [ state                : State,
    hostState            : HostStates,
    generation           : Nat,
    controllerViewerId   : Viewer \cup {None},
    pendingControlRequest: ControlRequest \cup {None} ]

ASSUME RecordAssumption == None \notin ControlRequest \cup SessionRecord \cup Claim \cup Status

Object ==
  [ rec          : SessionRecord,               \* this.record
    host         : HostSock \cup {None},        \* this.host
    hostConnected: BOOLEAN,
    viewers      : SUBSET ViewerSock,           \* the keys of this.viewers
    details      : SUBSET Details,              \* hostTerminalSize, hostTerminalProfile
    stored       : SessionRecord \cup {None},   \* the record in storage
    alarm        : Deadline,                    \* the alarm in storage
    \* A socket is "closing" from the moment sends to it fail until its
    \* close notification has been delivered.
    sock         : [Socket -> {"free", "open", "closing"}],
    ident        : [ViewerSock -> Viewer \cup {None}],  \* its attachment
    told         : [Socket -> Status \cup {None}] ]     \* last status sent on it

\* A deadline that is set and has passed.
Due(d) == d # None /\ d <= now

createInitialSessionRecord(state) ==
  [ state |-> state,
    currentControllerId |-> None, controlLeaseExpiresAt |-> None,
    pendingRequest |-> None, pendingRequestExpiresAt |-> None,
    viewerIdentities |-> {},
    maxExpiresAt |-> now + MaxTTL,
    sessionExpiresAt |-> Min({now + IdleTTL, now + MaxTTL}),
    hostDisconnectDeadline |-> None, endReason |-> None, generation |-> 0 ]

Init ==
  /\ now = 0
  /\ typed = None
  /\ obj = [ rec |-> createInitialSessionRecord("idle"),
             host |-> None, hostConnected |-> FALSE, viewers |-> {}, details |-> {},
             stored |-> None, alarm |-> None,
             sock |-> [s \in Socket |-> "free"],
             ident |-> [v \in ViewerSock |-> None],
             told |-> [s \in Socket |-> None] ]

----------------------------------------------------------------------------
(* Storage.                                                                *)

persistRecord(o) == [o EXCEPT !.stored = o.rec]

\* The deadlines still to come; one that has already passed is left out.
FutureDeadlines(r) ==
  { d \in { r.sessionExpiresAt, r.hostDisconnectDeadline,
            r.pendingRequestExpiresAt, r.controlLeaseExpiresAt } : d # None /\ ~Due(d) }

\* Mutant: wakes up at the last deadline instead of the first.
scheduleNextAlarm_last(o) ==
  LET deadlines == FutureDeadlines(o.rec) IN
  [o EXCEPT !.alarm = IF deadlines = {} THEN None ELSE Max(deadlines)]

scheduleNextAlarm(o) ==
  LET deadlines == FutureDeadlines(o.rec) IN
  [o EXCEPT !.alarm =
     IF o.rec.state = "closed" \/ deadlines = {}
     THEN None
     ELSE Min(deadlines)]

\* Mutant: leaves the alarm as it is.
updateRecord_unscheduled(o) == persistRecord(o)

\* Every caller has applied its mutator to o.rec.
updateRecord(o) == scheduleNextAlarm(persistRecord(o))

----------------------------------------------------------------------------
(* Sends and closes.                                                       *)

\* socket.close(): the client is no longer told anything.
Shut(o, sockets) ==
  [o EXCEPT !.sock = [s \in Socket |->
                        IF s \in sockets /\ o.sock[s] = "open" THEN "closing" ELSE o.sock[s]],
            !.told = [s \in Socket |-> IF s \in sockets THEN None ELSE o.told[s]]]

hostState(o) ==
  CASE o.rec.state \in {"closed", "ended"}   -> "offline"
    [] o.rec.state \notin {"closed", "ended"} /\ o.hostConnected -> "online"
    [] OTHER -> IF o.rec.hostDisconnectDeadline # None THEN "reconnecting" ELSE "waiting"

\* The host sees every request, a viewer only its own.
snapshot(o, s) ==
  LET request == o.rec.pendingRequest IN
  [ state |-> o.rec.state,
    hostState |-> hostState(o),
    generation |-> o.rec.generation,
    controllerViewerId |-> o.rec.currentControllerId,
    pendingControlRequest |->
      IF s \in ViewerSock /\ request # None /\ o.ident[s] # request.viewerId
      THEN None ELSE request ]

withoutRequest(o) ==
  [o EXCEPT !.rec.pendingRequest = None, !.rec.pendingRequestExpiresAt = None]

withoutLease(o) ==
  [o EXCEPT !.rec.currentControllerId = None, !.rec.controlLeaseExpiresAt = None]

\* The socket's viewer leaves this.viewers and its request is withdrawn.  For
\* a socket that is not tracked both sides of the code's comparison are
\* undefined when nothing is pending: the record is then written unchanged.
removeViewers(o, gone) ==
  LET ids     == { IF v \in o.viewers THEN o.ident[v] ELSE None : v \in gone }
      asking  == IF o.rec.pendingRequest = None THEN None ELSE o.rec.pendingRequest.viewerId
      without == [o EXCEPT !.viewers = @ \ gone]
  IN IF asking \notin ids
     THEN without
     ELSE updateRecord(withoutRequest(without))

\* sendViewer on every viewer: whoever cannot be reached is dropped.
sendViewers(o) == removeViewers(o, {v \in o.viewers : o.sock[v] # "open"})

\* broadcastStatus, the part for the viewers.
tellViewers(o) ==
  sendViewers([o EXCEPT !.told = [s \in Socket |->
                 IF s \in o.viewers /\ o.sock[s] = "open" THEN snapshot(o, s) ELSE o.told[s]]])

withoutControl(o) == withoutLease(withoutRequest(o))

\* Mutant: keeps the terminal metadata of the lost host.
clearHost_keepsDetails(o) ==
  LET gone == [withoutControl(o) EXCEPT !.host = None,
                                        !.hostConnected = FALSE,
                                        !.rec.hostDisconnectDeadline = now + HostGrace,
                                        !.rec.state = "ready"]
  IN tellViewers(updateRecord(gone))

clearHost(o) ==
  LET gone == [withoutControl(o) EXCEPT !.host = None,
                                        !.hostConnected = FALSE,
                                        !.details = {},
                                        !.rec.hostDisconnectDeadline = now + HostGrace,
                                        !.rec.state = "ready"]
  IN tellViewers(updateRecord(gone))

\* A message to the host that finds its socket lost clears the host.  The
\* code does not wait for clearHost there; nothing after it in a handler
\* reads what the rest of clearHost writes (storage, alarm, messages).
sendHost(o) == IF o.host # None /\ o.sock[o.host] # "open" THEN clearHost(o) ELSE o

tellHost(o) ==
  IF o.host # None /\ o.sock[o.host] = "open"
  THEN [o EXCEPT !.told[o.host] = snapshot(o, o.host)]
  ELSE sendHost(o)

broadcastStatus(o) == tellViewers(tellHost(o))

----------------------------------------------------------------------------
(* Deadlines.                                                              *)

closeSession(o, reason) ==
  IF o.rec.state = "closed"
  THEN o
  ELSE [withoutControl(o) EXCEPT !.hostConnected = FALSE,
                                 !.rec.state = "closed",
                                 !.rec.endReason = reason,
                                 !.rec.hostDisconnectDeadline = None]

endSharing(o, reason) == [closeSession(o, reason) EXCEPT !.rec.state = "ended"]

expireRequest(o) ==
  IF Due(o.rec.pendingRequestExpiresAt) THEN withoutRequest(o) ELSE o

expireLease(o) ==
  IF Due(o.rec.controlLeaseExpiresAt) THEN withoutLease(o) ELSE o

\* The state follows the host's presence, except in an unused or a finished session.
followHost(o) ==
  [o EXCEPT !.rec.state =
     CASE @ \in {"closed", "ended"} -> @
       [] @ \notin {"closed", "ended"} /\ o.hostConnected -> "active"
       [] OTHER -> IF @ = "idle" THEN @ ELSE "ready"]

advanceRecord(o) ==
  LET expired == expireLease(expireRequest(o)) IN
  IF Due(o.rec.sessionExpiresAt) THEN closeSession(o, "session expired")
  ELSE IF ~o.hostConnected /\ Due(o.rec.hostDisconnectDeadline)
       THEN endSharing(expired, "host disconnected")
       ELSE followHost(expired)

\* What advanceRecord returns; for an expired session it is always true.
Advances(o) == Due(o.rec.sessionExpiresAt) \/ advanceRecord(o) # o

\* Mutant: ends the sharing without a word to the viewers.
finishSharing_silent(o) ==
  [Shut(o, {o.host}) EXCEPT !.hostConnected = FALSE, !.details = {}, !.host = None]

finishSharing(o) ==
  LET told == broadcastStatus([o EXCEPT !.hostConnected = FALSE, !.details = {}])
  IN [Shut(told, {told.host}) EXCEPT !.host = None]

finishClosedSession(o) ==
  LET told == broadcastStatus([o EXCEPT !.hostConnected = FALSE])
  IN [Shut(told, {told.host} \cup told.viewers)
        EXCEPT !.host = None, !.viewers = {}, !.details = {}]

\* Mutant: applies the deadlines in memory only.
advanceRecordAndPersist_unsaved(o) ==
  LET advanced == advanceRecord(o) IN
  IF ~Advances(o) THEN o
  ELSE IF advanced.rec.state = "closed" THEN finishClosedSession(advanced)
  ELSE IF advanced.rec.state = "ended" THEN finishSharing(advanced)
  ELSE advanced

advanceRecordAndPersist(o) ==
  LET advanced == persistRecord(advanceRecord(o)) IN
  IF ~Advances(o) THEN o
  ELSE IF advanced.rec.state = "closed" THEN finishClosedSession(advanced)
  ELSE IF advanced.rec.state = "ended" THEN finishSharing(advanced)
  ELSE advanced

\* Mutant: messages are handled before the deadlines are looked at.
advanceAndTell_skipped(o) == o

\* How alarms and messages start: the deadlines are applied and announced.
advanceAndTell(o) ==
  IF Advances(o) THEN broadcastStatus(advanceRecordAndPersist(o)) ELSE o

touchSession(o) ==
  LET next == Min({now + IdleTTL, o.rec.maxExpiresAt}) IN
  IF \/ o.rec.state = "closed"
     \/ o.rec.sessionExpiresAt - now > RenewThreshold
     \/ next <= o.rec.sessionExpiresAt
  THEN o
  ELSE updateRecord([o EXCEPT !.rec.sessionExpiresAt = next])

----------------------------------------------------------------------------
(* Requests.  A refused request (409, 410) changes nothing more.           *)

InitSession ==
  /\ obj.rec.state \in {"idle", "closed"}
  /\ obj' = updateRecord([obj EXCEPT !.rec = createInitialSessionRecord("ready")])
  /\ typed' = None
  /\ UNCHANGED now

\* The callers of GET /status learn the state; those connected are not told.
GetStatus ==
  /\ obj' = advanceRecordAndPersist(obj)
  /\ typed' = None
  /\ UNCHANGED now

\* Mutant: the host that is replaced is not closed.
acceptHost_keepsOld(o, h) ==
  LET joined == [withoutControl(touchSession(o)) EXCEPT
                   !.sock[h] = "open",
                   !.host = h,
                   !.hostConnected = TRUE,
                   !.details = {},
                   !.rec.hostDisconnectDeadline = None,
                   !.rec.endReason = None,
                   !.rec.generation = @ + 1,
                   !.rec.state = "active"]
  IN scheduleNextAlarm(broadcastStatus(updateRecord(joined)))

acceptHost(o, h) ==
  LET touched  == touchSession(o)
      replaced == Shut(touched, {touched.host})
      joined   == [withoutControl(replaced) EXCEPT
                     !.sock[h] = "open",
                     !.host = h,
                     !.hostConnected = TRUE,
                     !.details = {},
                     !.rec.hostDisconnectDeadline = None,
                     !.rec.endReason = None,
                     !.rec.generation = @ + 1,
                     !.rec.state = "active"]
  IN scheduleNextAlarm(broadcastStatus(updateRecord(joined)))

\* Mutant: a host gets in whatever the state.
ConnectHost_unchecked(h) ==
  /\ obj.sock[h] = "free"
  /\ obj.rec.generation < MaxGeneration
  /\ obj' = acceptHost(advanceRecordAndPersist(obj), h)
  /\ typed' = None
  /\ UNCHANGED now

ConnectHost(h) ==
  /\ obj.sock[h] = "free"
  /\ obj.rec.generation < MaxGeneration
  /\ LET o == advanceRecordAndPersist(obj) IN
     obj' = IF o.rec.state = "closed" THEN o ELSE acceptHost(o, h)
  /\ typed' = None
  /\ UNCHANGED now

\* A token the record knows keeps its identity; otherwise a new one is made.
resolveViewerIdentity(o, id) ==
  IF id \in o.rec.viewerIdentities THEN o
  ELSE updateRecord([o EXCEPT !.rec.viewerIdentities = @ \cup {id}])

\* Mutant: an older connection of the same identity stays.
replaceViewerConnection_keeps(o, v) == o

\* this.viewers without the older connections of the same identity.
replaceViewerConnection(o, v) ==
  LET older == {w \in o.viewers \ {v} : o.ident[w] = o.ident[v]}
  IN [Shut(o, older) EXCEPT !.viewers = @ \ older]

acceptViewer(o, v, id) ==
  LET known  == resolveViewerIdentity(touchSession(o), id)
      joined == [known EXCEPT !.sock[v] = "open",
                              !.ident[v] = id,
                              !.viewers = @ \cup {v}]
      \* the requests for the terminal's details and for a snapshot
      asked  == sendHost(replaceViewerConnection(joined, v))
  IN scheduleNextAlarm(broadcastStatus(asked))

\* A random identity is none that a record or a socket already holds.
UnusedIdentities(o) ==
  Viewer \ (o.rec.viewerIdentities \cup {o.ident[v] : v \in ViewerSock})

ConnectViewer(v, id) ==
  /\ obj.sock[v] = "free"
  /\ id \in obj.rec.viewerIdentities \cup UnusedIdentities(obj)
  /\ LET o == advanceRecordAndPersist(obj) IN
     obj' = IF o.rec.state = "closed" THEN o ELSE acceptViewer(o, v, id)
  /\ typed' = None
  /\ UNCHANGED now

----------------------------------------------------------------------------
(* Messages.  They are also delivered from a socket the object has closed  *)
(* or replaced and whose close notification is still to come.              *)

Delivers(s) == obj.sock[s] # "free"

\* What handleMessage finds after it has applied the deadlines.
Heard == advanceAndTell(obj)

FromHost(o, h) == o.rec.state # "closed" /\ o.host = h
FromViewer(o, v) == o.rec.state # "closed" /\ v \in o.viewers

\* The frame of host h makes of the heard state what `handled` says, unless
\* h is not the current host.
HostFrame(h, handled) ==
  /\ Delivers(h)
  /\ obj' = IF FromHost(Heard, h) THEN handled ELSE Heard
  /\ typed' = None
  /\ UNCHANGED now

ViewerFrame(v, handled) ==
  /\ Delivers(v)
  /\ obj' = IF FromViewer(Heard, v) THEN handled ELSE Heard
  /\ typed' = None
  /\ UNCHANGED now

HostEnds(h) ==
  HostFrame(h, scheduleNextAlarm(finishSharing(persistRecord(endSharing(Heard, "host ended")))))

\* The reply to a snapshot request goes to the one connection that asked.
HostSnapshot(h, v) ==
  HostFrame(h, IF v \in Heard.viewers /\ Heard.sock[v] # "open"
               THEN removeViewers(Heard, {v}) ELSE Heard)

\* Mutant: the asked duration is taken as it is.
normalizeLeaseSeconds_unclamped(ask, fallback) == IF ask = None THEN fallback ELSE ask

normalizeLeaseSeconds(ask, fallback) ==
  IF ask = None THEN fallback ELSE Max({MinLease, Min({ask, MaxLease})})

\* The host's decision names the viewer it is about; about any other it is ignored.
Pending(o, id) == o.rec.pendingRequest # None /\ o.rec.pendingRequest.viewerId = id

\* Mutant: approving the controller again renews its lease.
handleControlApprove_again(o, id, ask) ==
  IF ~Pending(o, id) /\ (id = None \/ o.rec.currentControllerId # id) THEN o
  ELSE broadcastStatus(updateRecord(
         [o EXCEPT !.rec.currentControllerId = id,
                   !.rec.controlLeaseExpiresAt = now + MaxLease,
                   !.rec.pendingRequest = None,
                   !.rec.pendingRequestExpiresAt = None]))

\* Mutant: a decision about an earlier request is taken for the present one.
handleControlApprove_anyone(o, id, ask) ==
  IF o.rec.pendingRequest = None THEN o
  ELSE broadcastStatus(updateRecord(
         [o EXCEPT !.rec.currentControllerId = id,
                   !.rec.controlLeaseExpiresAt = now + MaxLease,
                   !.rec.pendingRequest = None,
                   !.rec.pendingRequestExpiresAt = None]))

\* Mutant: the grant is not announced.
handleControlApprove_silent(o, id, ask) ==
  IF ~Pending(o, id) THEN o
  ELSE LET lease == normalizeLeaseSeconds(ask, o.rec.pendingRequest.leaseSeconds) IN
       updateRecord([o EXCEPT !.rec.currentControllerId = id,
                              !.rec.controlLeaseExpiresAt = now + lease,
                              !.rec.pendingRequest = None,
                              !.rec.pendingRequestExpiresAt = None])

handleControlApprove(o, id, ask) ==
  IF ~Pending(o, id) THEN o
  ELSE LET lease == normalizeLeaseSeconds(ask, o.rec.pendingRequest.leaseSeconds) IN
       broadcastStatus(updateRecord(
         [o EXCEPT !.rec.currentControllerId = id,
                   !.rec.controlLeaseExpiresAt = now + lease,
                   !.rec.pendingRequest = None,
                   !.rec.pendingRequestExpiresAt = None]))

HostApproves(h, id, ask) ==
  HostFrame(h, touchSession(handleControlApprove(Heard, id, ask)))

handleControlReject(o, id) ==
  IF Pending(o, id) THEN broadcastStatus(updateRecord(withoutRequest(o))) ELSE o

HostRejects(h, id) == HostFrame(h, touchSession(handleControlReject(Heard, id)))

handleControlRevoke(o) ==
  IF o.rec.currentControllerId = None THEN o
  ELSE broadcastStatus(updateRecord(withoutLease(o)))

HostRevokes(h) == HostFrame(h, touchSession(handleControlRevoke(Heard)))

\* handleHostTerminalSize and handleHostTerminalProfile: a new value is
\* announced, the one already cached and a malformed one are not.
HostDetail(h, d, new) ==
  HostFrame(h, touchSession(
    IF new THEN broadcastStatus([Heard EXCEPT !.details = @ \cup {d}]) ELSE Heard))

HostOutput(h) == HostFrame(h, sendViewers(touchSession(Heard)))

\* A binary frame that is not terminal output: the socket is closed and
\* stays this.host until its close notification or the next message to it.
HostBadFrame(h) == HostFrame(h, Shut(Heard, {h}))

canWrite(o, v) ==
  /\ o.rec.state = "active"
  /\ o.hostConnected
  /\ v \in o.viewers
  /\ o.ident[v] = o.rec.currentControllerId

\* Input (binary 0x02) goes to the host if the viewer is in control.
ViewerTypes(v) ==
  LET writes == FromViewer(Heard, v) /\ canWrite(Heard, v) IN
  /\ Delivers(v)
  /\ obj' = IF writes THEN sendHost(touchSession(Heard)) ELSE Heard
  /\ typed' = IF writes /\ Heard.sock[Heard.host] = "open" THEN Heard.ident[v] ELSE None
  /\ UNCHANGED now

ViewerBadFrame(v) == ViewerFrame(v, Shut(Heard, {v}))

ViewerReleases(v) ==
  ViewerFrame(v, IF canWrite(Heard, v) THEN handleControlRevoke(Heard) ELSE Heard)

\* Mutant: a request is taken although somebody is in control.
handleControlRequest_whileControlled(o, v, ask) ==
  IF v \notin o.viewers \/ ~o.hostConnected \/ o.rec.pendingRequest # None
  THEN broadcastStatus(o)
  ELSE broadcastStatus(sendHost(updateRecord(
         [o EXCEPT !.rec.pendingRequest = [viewerId |-> o.ident[v],
                                           leaseSeconds |-> normalizeLeaseSeconds(ask, MaxLease)],
                   !.rec.pendingRequestExpiresAt = now + PendingTimeout])))

handleControlRequest(o, v, ask) ==
  LET advanced  == advanceRecordAndPersist(o)
      requested == updateRecord(
        [advanced EXCEPT
           !.rec.pendingRequest = [viewerId |-> advanced.ident[v],
                                   leaseSeconds |-> normalizeLeaseSeconds(ask, MaxLease)],
           !.rec.pendingRequestExpiresAt = now + PendingTimeout])
  IN IF \/ v \notin advanced.viewers
        \/ ~advanced.hostConnected
        \/ advanced.rec.currentControllerId # None
        \/ advanced.rec.pendingRequest # None
     THEN broadcastStatus(advanced)
     ELSE broadcastStatus(sendHost(requested))

ViewerRequestsControl(v, ask) ==
  ViewerFrame(v, touchSession(handleControlRequest(Heard, v, ask)))

\* terminal.size.request and terminal.profile.request are passed to the host.
ViewerAsksDetails(v) == ViewerFrame(v, touchSession(sendHost(Heard)))

\* Any frame the object does not know.
UnknownFrame(s) == Delivers(s) /\ obj' = Heard /\ typed' = None /\ UNCHANGED now

----------------------------------------------------------------------------
(* Close notifications, the alarm, construction.                           *)

\* The client goes away, or the network loses it: sends fail from now on.
PeerGone(s) ==
  /\ obj.sock[s] = "open"
  /\ obj' = Shut(obj, {s})
  /\ typed' = None
  /\ UNCHANGED now

release(o, s) ==
  [o EXCEPT !.sock[s] = "free",
            !.ident = [v \in ViewerSock |-> IF v = s THEN None ELSE o.ident[v]]]

\* Mutant: the close notification of a replaced host counts as the host's.
handleClose_anyHost(o, s) ==
  IF s \in HostSock
  THEN scheduleNextAlarm(clearHost(o))
  ELSE scheduleNextAlarm(broadcastStatus(removeViewers(o, {s})))

handleClose(o, s) ==
  IF s \in HostSock
  THEN IF o.host = s THEN scheduleNextAlarm(clearHost(o)) ELSE o
  ELSE scheduleNextAlarm(broadcastStatus(removeViewers(o, {s})))

CloseEvent(s) ==
  /\ obj.sock[s] = "closing"
  /\ obj' = release(handleClose(obj, s), s)
  /\ typed' = None
  /\ UNCHANGED now

\* The alarm fires at its time or later; storage has dropped it by then.
AlarmDue == Due(obj.alarm)

\* Mutant: the next alarm is not scheduled.
AlarmFires_once ==
  /\ AlarmDue
  /\ obj' = advanceAndTell([obj EXCEPT !.alarm = None])
  /\ typed' = None
  /\ UNCHANGED now

AlarmFires ==
  /\ AlarmDue
  /\ obj' = scheduleNextAlarm(advanceAndTell([obj EXCEPT !.alarm = None]))
  /\ typed' = None
  /\ UNCHANGED now

\* The fields a new instance starts with, before restoreSockets.
blank ==
  [obj EXCEPT !.rec = IF obj.stored = None THEN createInitialSessionRecord("idle") ELSE obj.stored,
              !.host = None,
              !.hostConnected = FALSE,
              !.viewers = {},
              !.details = {}]

\* restoreSockets keeps one host and, per identity, one viewer connection of
\* those that are still open; the order of getWebSockets() is not known.
Keepable(h, viewers) ==
  LET hosts == {s \in HostSock : obj.sock[s] = "open"}
      open  == {v \in ViewerSock : obj.sock[v] = "open"}
  IN /\ IF hosts = {} THEN h = None ELSE h \in hosts
     /\ viewers \subseteq open
     /\ \A v \in open : \E w \in viewers : obj.ident[w] = obj.ident[v]
     /\ \A v, w \in viewers : obj.ident[v] = obj.ident[w] => v = w

restoreSockets(h, viewers) ==
  [Shut(blank, (Socket \ {h}) \ viewers) EXCEPT !.host = h,
                                                !.hostConnected = (h # None),
                                                !.viewers = viewers]

\* Mutant: a restart without the host starts no grace period.
reconcileRecordWithSockets_noGrace(o) ==
  IF o.hostConnected \/ o.rec.state # "active" THEN o
  ELSE updateRecord([withoutControl(o) EXCEPT !.rec.state = "ready"])

\* The record follows the sockets that survived; whether it is written back.
reconcileRecordWithSockets(o) ==
  IF o.hostConnected
  THEN IF o.rec.hostDisconnectDeadline = None /\ o.rec.state = "active" THEN o
       ELSE updateRecord([o EXCEPT !.rec.hostDisconnectDeadline = None,
                                   !.rec.state = "active"])
  ELSE IF o.viewers # {} /\ o.rec.state = "idle"
  THEN updateRecord([o EXCEPT !.rec.state = "ready"])
  ELSE IF o.rec.state = "active"
  THEN updateRecord([withoutControl(o) EXCEPT
                       !.rec.hostDisconnectDeadline = IF @ = None THEN now + HostGrace ELSE @,
                       !.rec.state = "ready"])
  ELSE o

Restart(h, viewers) ==
  /\ Keepable(h, viewers)
  /\ LET o == restoreSockets(h, viewers) IN
     obj' = CASE o.rec.state = "closed" -> finishClosedSession(o)
              [] o.rec.state = "ended"  -> finishSharing(o)
              [] OTHER -> reconcileRecordWithSockets(o)
  /\ typed' = None
  /\ UNCHANGED now

Tick ==
  /\ now < MaxTime
  /\ now' = now + 1
  /\ typed' = None
  /\ UNCHANGED obj

Event ==
  \/ InitSession
  \/ GetStatus
  \/ \E h \in HostSock :
       \/ ConnectHost(h)
       \/ HostEnds(h)
       \/ \E v \in ViewerSock : HostSnapshot(h, v)
       \/ \E id \in Viewer, ask \in LeaseAsks \cup {None} : HostApproves(h, id, ask)
       \/ \E id \in Viewer : HostRejects(h, id)
       \/ HostRevokes(h)
       \/ \E d \in Details, new \in BOOLEAN : HostDetail(h, d, new)
       \/ HostOutput(h)
       \/ HostBadFrame(h)
  \/ \E v \in ViewerSock :
       \/ \E id \in Viewer : ConnectViewer(v, id)
       \/ ViewerTypes(v)
       \/ ViewerBadFrame(v)
       \/ ViewerReleases(v)
       \/ \E ask \in LeaseAsks \cup {None} : ViewerRequestsControl(v, ask)
       \/ ViewerAsksDetails(v)
  \/ \E s \in Socket : UnknownFrame(s) \/ PeerGone(s) \/ CloseEvent(s)
  \/ \E h \in HostSock \cup {None}, viewers \in SUBSET ViewerSock : Restart(h, viewers)

Next == Event \/ AlarmFires \/ Tick

Spec == Init /\ [][Next]_vars

----------------------------------------------------------------------------
(* Safety.                                                                 *)

TypeOK ==
  /\ now \in 0 .. MaxTime
  /\ obj \in Object
  /\ typed \in Viewer \cup {None}

\* Memory and record agree on the host: a host is known exactly while the
\* session is active, the grace period runs only without one, and metadata
\* is cached only for the one that is there (updateRecord in acceptSocket
\* and clearHost, finishSharing, reconcileRecordWithSockets).
HostPresence ==
  /\ obj.hostConnected <=> obj.host # None
  /\ obj.hostConnected <=> obj.rec.state = "active"
  /\ obj.rec.hostDisconnectDeadline # None => ~obj.hostConnected
  /\ obj.details # {} => obj.hostConnected

\* Nobody is in control and nobody is asking without a host, nor both at
\* once, and both have a deadline (handleControlRequest, clearHost).
ControlNeedsHost ==
  LET r == obj.rec IN
  /\ r.currentControllerId # None \/ r.pendingRequest # None => obj.hostConnected
  /\ r.currentControllerId = None \/ r.pendingRequest = None
  /\ r.currentControllerId # None <=> r.controlLeaseExpiresAt # None
  /\ r.pendingRequest # None <=> r.pendingRequestExpiresAt # None

\* Input that has reached the host was typed by the viewer in control, within
\* the lease and while the host was connected, even when the lease ran out
\* between two events and nobody has looked since (canWrite, advanceRecord).
InputNeedsLease ==
  typed # None =>
    /\ obj.hostConnected
    /\ obj.rec.currentControllerId = typed
    /\ ~Due(obj.rec.controlLeaseExpiresAt)

\* Every open socket belongs to the host or a viewer the object knows, and
\* no identity has two: a connection that was replaced, dropped or left
\* behind by a hibernation is closed (replaceViewerConnection, restoreSockets).
NoOrphanSocket ==
  /\ \A h \in HostSock : obj.sock[h] = "open" => obj.host = h
  /\ \A v \in ViewerSock : obj.sock[v] = "open" => v \in obj.viewers
  /\ \A v, w \in obj.viewers : obj.ident[v] = obj.ident[w] => v = w

\* Whatever event comes next, a restart would find the record as it is in
\* memory; an object never written is an unused one (persistRecord).
StoredIsCurrent ==
  IF obj.stored = None
  THEN obj.rec.state = "idle" /\ obj.viewers = {}
  ELSE obj.stored = obj.rec

\* No deadline still to come is without an alarm at or before it, although
\* several handlers change deadlines and only some of them schedule
\* (scheduleNextAlarm and its callers).
AlarmCovers ==
  obj.stored # None /\ obj.rec.state # "closed" =>
    \A d \in FutureDeadlines(obj.rec) : obj.alarm # None /\ obj.alarm <= d

\* A session that has had a host and has none is counting down the grace
\* period, unless the sharing is over (clearHost, advanceRecord).
GraceRuns ==
  obj.rec.generation > 0 /\ ~obj.hostConnected =>
    \/ obj.rec.hostDisconnectDeadline # None
    \/ obj.rec.state \in {"ended", "closed"}

\* Control never is in force behind anybody's back: the host and every
\* connected viewer have been told who has it, and the host of the request
\* that waits for it (broadcastStatus in the control handlers).
ControlIsTold ==
  LET r == obj.rec
      told(s) == obj.told[s]
      connected == {s \in obj.viewers \cup {obj.host} : s # None /\ obj.sock[s] = "open"}
  IN \A s \in connected :
       /\ told(s) # None
       /\ told(s).generation = r.generation
       /\ r.currentControllerId # None => told(s).controllerViewerId = r.currentControllerId
       /\ s = obj.host => r.pendingRequest \in {None, told(s).pendingControlRequest}

\* When the sharing is over every connected viewer has been told so, and
\* when the code has expired no socket is left open (finishSharing,
\* finishClosedSession).
EndIsTold ==
  /\ obj.rec.state = "ended" =>
       \A v \in ViewerSock : obj.sock[v] = "open" => obj.told[v].hostState = "offline"
  /\ obj.rec.state = "closed" => \A s \in Socket : obj.sock[s] # "open"

----------------------------------------------------------------------------
(* Action properties and the abstract specification.                       *)

\* A grace period that runs is never started over: late close notifications,
\* restarts and dropped messages leave its end where it was (handleClose,
\* reconcileRecordWithSockets).
GraceNotExtended ==
  [][ LET d == obj.rec.hostDisconnectDeadline
          e == obj'.rec.hostDisconnectDeadline
      IN d # None /\ e # None => e = d ]_vars

\* A lease in force is never prolonged or cut: whoever stays in control over
\* a step keeps the deadline granted (handleControlApprove).
LeaseNotExtended ==
  [][ LET r == obj.rec
          n == obj'.rec
      IN r.currentControllerId # None /\ n.currentControllerId = r.currentControllerId
           => n.controlLeaseExpiresAt = r.controlLeaseExpiresAt ]_vars

Accepts == \E s \in Socket : obj.sock[s] = "free" /\ obj'.sock[s] = "open"

\* A pairing code that has expired refuses new connections.
ExpiredCodeRefuses ==
  [][obj.stored # None /\ Due(obj.rec.sessionExpiresAt) => ~Accepts]_vars

\* The same while the host, if there is one, can be reached; and then
\* neither traffic nor a restart revives the code: only /init does
\* (acceptSocket, touchSession, finishClosedSession).
ExpiryIsFinal ==
  [][ /\ obj.stored # None
      /\ Due(obj.rec.sessionExpiresAt)
      /\ obj.host # None => obj.sock[obj.host] = "open"
      => /\ ~Accepts
         /\ \/ obj'.rec.sessionExpiresAt = obj.rec.sessionExpiresAt
            \/ obj'.rec = createInitialSessionRecord("ready") ]_vars

\* Once the host's socket is gone and its close notification has been
\* handled, no connected viewer still believes the host to be online.
HostLossIsTold ==
  (\A h \in HostSock : obj.sock[h] = "free") =>
    \A v \in ViewerSock : obj.sock[v] = "open" => obj.told[v].hostState # "online"

\* The claim with this deadline: gone once its time is up.
claim(viewer, deadline) ==
  IF viewer # None /\ deadline # None /\ now < deadline
  THEN [viewer |-> viewer, until |-> deadline]
  ELSE None

askingViewer == IF obj.rec.pendingRequest = None THEN None ELSE obj.rec.pendingRequest.viewerId

Control == INSTANCE RemoteControl WITH
  Leases  <- MinLease .. MaxLease,
  hosting <- obj.hostConnected,
  request <- claim(askingViewer, obj.rec.pendingRequestExpiresAt),
  grant   <- claim(obj.rec.currentControllerId, obj.rec.controlLeaseExpiresAt)

\* The object implements the abstract permission protocol: requests, grants,
\* refusals, lapses and forwarded input are steps it allows, whatever the
\* sockets, restarts and late deadlines do in between.
ControlSpec == Control!Spec

----------------------------------------------------------------------------
(* Progress.                                                               *)

\* An alarm that is due fires some time.  This is weak fairness of
\* AlarmFires, which leaves no alarm due, written without its effect.
AlarmFairness == []<>~AlarmDue

\* The clock goes on, within its bound.
FairSpec == Spec /\ WF_vars(Tick) /\ AlarmFairness

\* The same with alarms that are never late: one that is due comes before
\* any other event.
PromptNext == IF AlarmDue THEN AlarmFires ELSE Next

PromptSpec == Init /\ [][PromptNext]_vars /\ WF_vars(~AlarmDue /\ Tick) /\ AlarmFairness

\* A session whose time is up is closed (or was renewed before), with the
\* delay of one grace period at most: the clock's bound leaves room for it.
SessionExpires ==
  \A d \in 1 .. (MaxTime - HostGrace) :
    (obj.stored # None /\ obj.rec.sessionExpiresAt = d)
      ~> (obj.rec.sessionExpiresAt # d \/ obj.rec.state = "closed")

\* No deadline of the record outlives its time: requests, leases and grace
\* periods end without anyone sending a message (alarm, scheduleNextAlarm).
DeadlinesTakeEffect ==
  \A d \in 1 .. MaxTime :
    /\ (obj.rec.pendingRequestExpiresAt = d) ~> (obj.rec.pendingRequestExpiresAt # d)
    /\ (obj.rec.controlLeaseExpiresAt = d) ~> (obj.rec.controlLeaseExpiresAt # d)
    /\ (obj.rec.hostDisconnectDeadline = d) ~> (obj.rec.hostDisconnectDeadline # d)
=============================================================================
