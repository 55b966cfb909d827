-------------------------- MODULE SessionDOProofs --------------------------
(***************************************************************************)
(* Proofs about SessionDO for every number of sockets, viewers and details *)
(* and for all durations.  Every operator a handler is made of has a lemma *)
(* saying what it keeps of the invariant; a handler's case then follows    *)
(* from the lemmas of its operators, in the order in which it applies them.*)
(***************************************************************************)
EXTENDS SessionDO, WellFoundedInduction, TLAPS

----------------------------------------------------------------------------
(* The invariant, as a predicate on the object.                            *)

\* What is true of the record whenever it may be written: control only while
\* a host is connected, with a deadline, and a request or a lease but not both;
\* a session that has had a host and has none counts down, or is over.
RecordOK(r) ==
  /\ r.currentControllerId # None \/ r.pendingRequest # None => r.state = "active"
  /\ r.currentControllerId = None \/ r.pendingRequest = None
  /\ r.currentControllerId # None <=> r.controlLeaseExpiresAt # None
  /\ r.pendingRequest # None <=> r.pendingRequestExpiresAt # None
  /\ r.hostDisconnectDeadline # None => r.state # "active"
  /\ r.generation > 0 /\ r.state # "active" =>
       r.hostDisconnectDeadline # None \/ r.state \in {"ended", "closed"}

\* Holds even of an object that is being restored.
Valid(o) ==
  /\ o \in Object
  /\ RecordOK(o.rec)
  /\ o.stored = None \/ RecordOK(o.stored)
  /\ \A v \in ViewerSock :
       v \in o.viewers \/ o.sock[v] = "open" => o.ident[v] # None

\* Holds between any two operators of a handler.
Sound(o) ==
  /\ Valid(o)
  /\ o.hostConnected <=> o.rec.state = "active"
  /\ o.hostConnected => o.host # None

\* A connected host's metadata is the only one cached.
Fresh(o) == o.details # {} => o.hostConnected

\* Holds at the end of every handler as well.
Settled(o) ==
  /\ Sound(o)
  /\ Fresh(o)
  /\ o.host # None => o.hostConnected

\* What messages, writes and closes do to an object: the host may be lost and
\* a request may be withdrawn, control stays where it is while there is a
\* host; and a record that is changed is written.
Follows(o, p) ==
  /\ p.hostConnected =>
       /\ o.hostConnected
       /\ p.rec.currentControllerId = o.rec.currentControllerId
       /\ p.rec.controlLeaseExpiresAt = o.rec.controlLeaseExpiresAt
       /\ \/ /\ p.rec.pendingRequest = o.rec.pendingRequest
             /\ p.rec.pendingRequestExpiresAt = o.rec.pendingRequestExpiresAt
          \/ /\ p.rec.pendingRequest = None
             /\ p.rec.pendingRequestExpiresAt = None
  /\ p.stored = p.rec \/ (p.stored = o.stored /\ p.rec = o.rec)

\* Nobody is in control and nobody asks.
Unclaimed(r) ==
  /\ r.currentControllerId = None /\ r.controlLeaseExpiresAt = None
  /\ r.pendingRequest = None /\ r.pendingRequestExpiresAt = None

SameClaims(r, q) ==
  /\ q.currentControllerId = r.currentControllerId
  /\ q.controlLeaseExpiresAt = r.controlLeaseExpiresAt
  /\ q.pendingRequest = r.pendingRequest
  /\ q.pendingRequestExpiresAt = r.pendingRequestExpiresAt

\* A restart would find the record as it is; an object never written is unused.
Saved(o) ==
  \/ o.stored = o.rec
  \/ /\ o.stored = None
     /\ o.rec.state = "idle" /\ o.rec.viewerIdentities = {} /\ o.viewers = {}

LEMMA FollowsTransitive ==
  ASSUME NEW o, NEW p, NEW q, Follows(o, p), Follows(p, q)
  PROVE  Follows(o, q)
BY DEF Follows

----------------------------------------------------------------------------
(* Storage.                                                                *)

LEMMA MinOfNaturals ==
  ASSUME NEW S \in SUBSET Nat, S # {}
  PROVE  Min(S) \in S /\ \A n \in S : Min(S) <= n
<1>1. \E x \in S : \A y \in S : ~(<<y, x>> \in OpToRel(<, Nat))
  BY WFMin, NatLessThanWellFounded
<1>2. PICK x \in S : \A y \in S : ~(y < x)
  BY <1>1 DEF OpToRel
<1>3. \A y \in S : x <= y
  BY <1>2
<1> QED BY <1>3 DEF Min

LEMMA PersistSound ==
  ASSUME NEW o, Sound(o)
  PROVE  /\ Sound(persistRecord(o))
         /\ persistRecord(o) = [o EXCEPT !.stored = o.rec]
BY DEF Sound, Valid, RecordOK, Object, persistRecord

LEMMA ScheduleSound ==
  ASSUME NEW o, Sound(o)
  PROVE  /\ Sound(scheduleNextAlarm(o))
         /\ \E d \in Deadline : scheduleNextAlarm(o) = [o EXCEPT !.alarm = d]
<1> DEFINE S == FutureDeadlines(o.rec)
<1>1. S \subseteq Nat
  BY DEF Sound, Valid, RecordOK, Object, SessionRecord, FutureDeadlines, Deadline
<1>2. S # {} => Min(S) \in Nat
  BY <1>1, MinOfNaturals
<1>3. PICK d \in Deadline : scheduleNextAlarm(o) = [o EXCEPT !.alarm = d]
  BY <1>2 DEF scheduleNextAlarm, Deadline
<1>4. Sound([o EXCEPT !.alarm = d])
  BY DEF Sound, Valid, RecordOK, Object
<1> QED BY <1>3, <1>4

LEMMA UpdateSound ==
  ASSUME NEW o, Sound(o)
  PROVE  LET p == updateRecord(o) IN
         /\ Sound(p)
         /\ p.rec = o.rec /\ p.host = o.host /\ p.hostConnected = o.hostConnected
         /\ p.viewers = o.viewers /\ p.details = o.details /\ p.sock = o.sock
         /\ p.stored = o.rec
         /\ p.ident = o.ident
<1>1. Sound(persistRecord(o)) BY PersistSound
<1> QED BY <1>1, PersistSound, ScheduleSound DEF updateRecord, Sound, Valid, RecordOK, Object

----------------------------------------------------------------------------
(* Sends and closes.                                                       *)

LEMMA ShutSound ==
  ASSUME NEW o, NEW sockets, Sound(o)
  PROVE  LET p == Shut(o, sockets) IN
         /\ Sound(p)
         /\ p.rec = o.rec /\ p.host = o.host /\ p.hostConnected = o.hostConnected
         /\ p.viewers = o.viewers /\ p.details = o.details
         /\ p.stored = o.stored /\ p.ident = o.ident
         /\ \A v \in ViewerSock : p.sock[v] = "open" => o.sock[v] = "open"
<1> DEFINE p == Shut(o, sockets)
<1>1. p \in Object
  BY DEF Sound, Valid, RecordOK, Object, Shut
<1>2. /\ p.rec = o.rec /\ p.host = o.host /\ p.hostConnected = o.hostConnected
      /\ p.viewers = o.viewers /\ p.details = o.details
      /\ p.stored = o.stored /\ p.ident = o.ident
      /\ \A s \in Socket : p.sock[s] = "open" => o.sock[s] = "open"
  BY DEF Sound, Valid, Object, Shut
<1> HIDE DEF p
<1>3. Sound(p)
  BY <1>1, <1>2 DEF Sound, Valid, Socket
<1> QED BY <1>2, <1>3 DEF p, Socket

LEMMA WithoutRequestSound ==
  ASSUME NEW o, Sound(o)
  PROVE  LET p == withoutRequest(o) IN
         /\ Sound(p)
         /\ p.host = o.host /\ p.hostConnected = o.hostConnected
         /\ p.viewers = o.viewers /\ p.details = o.details /\ p.sock = o.sock
         /\ p.ident = o.ident
         /\ p.rec.pendingRequest = None /\ p.rec.pendingRequestExpiresAt = None
         /\ p.rec.currentControllerId = o.rec.currentControllerId
         /\ p.rec.controlLeaseExpiresAt = o.rec.controlLeaseExpiresAt
         /\ p.rec.state = o.rec.state
         /\ p.rec.generation = o.rec.generation
         /\ p.rec.hostDisconnectDeadline = o.rec.hostDisconnectDeadline
<1>1. o.rec \in SessionRecord BY DEF Sound, Valid, RecordOK, Object
<1> DEFINE r == [o.rec EXCEPT !.pendingRequest = None, !.pendingRequestExpiresAt = None]
<1>2. r \in SessionRecord
  BY <1>1 DEF SessionRecord, Deadline
<1>3. withoutRequest(o) = [o EXCEPT !.rec = r]
  BY DEF Sound, Valid, RecordOK, Object, withoutRequest, SessionRecord
<1>4. /\ r.pendingRequest = None /\ r.pendingRequestExpiresAt = None
      /\ r.state = o.rec.state
      /\ r.currentControllerId = o.rec.currentControllerId
      /\ r.controlLeaseExpiresAt = o.rec.controlLeaseExpiresAt
      /\ r.hostDisconnectDeadline = o.rec.hostDisconnectDeadline
      /\ r.generation = o.rec.generation
  BY <1>1 DEF SessionRecord
<1> HIDE DEF r
<1>5. Sound([o EXCEPT !.rec = r])
  BY <1>2, <1>4 DEF Sound, Valid, RecordOK, Object
<1> QED BY <1>3, <1>4, <1>5 DEF Sound, Valid, RecordOK, Object

LEMMA WithoutLeaseSound ==
  ASSUME NEW o, Sound(o)
  PROVE  LET p == withoutLease(o) IN
         /\ Sound(p)
         /\ p.host = o.host /\ p.hostConnected = o.hostConnected
         /\ p.viewers = o.viewers /\ p.details = o.details /\ p.sock = o.sock
         /\ p.ident = o.ident
         /\ p.rec.currentControllerId = None /\ p.rec.controlLeaseExpiresAt = None
         /\ p.rec.pendingRequest = o.rec.pendingRequest
         /\ p.rec.pendingRequestExpiresAt = o.rec.pendingRequestExpiresAt
         /\ p.rec.state = o.rec.state
         /\ p.rec.generation = o.rec.generation
         /\ p.rec.hostDisconnectDeadline = o.rec.hostDisconnectDeadline
<1>1. o.rec \in SessionRecord BY DEF Sound, Valid, RecordOK, Object
<1> DEFINE r == [o.rec EXCEPT !.currentControllerId = None, !.controlLeaseExpiresAt = None]
<1>2. r \in SessionRecord
  BY <1>1 DEF SessionRecord, Deadline
<1>3. withoutLease(o) = [o EXCEPT !.rec = r]
  BY DEF Sound, Valid, RecordOK, Object, withoutLease, SessionRecord
<1>4. /\ r.currentControllerId = None /\ r.controlLeaseExpiresAt = None
      /\ r.state = o.rec.state
      /\ r.pendingRequest = o.rec.pendingRequest
      /\ r.pendingRequestExpiresAt = o.rec.pendingRequestExpiresAt
      /\ r.hostDisconnectDeadline = o.rec.hostDisconnectDeadline
      /\ r.generation = o.rec.generation
  BY <1>1 DEF SessionRecord
<1> HIDE DEF r
<1>5. Sound([o EXCEPT !.rec = r])
  BY <1>2, <1>4 DEF Sound, Valid, RecordOK, Object
<1> QED BY <1>3, <1>4, <1>5 DEF Sound, Valid, RecordOK, Object

LEMMA RemoveViewersSound ==
  ASSUME NEW o, NEW gone, Sound(o)
  PROVE  LET p == removeViewers(o, gone) IN
         /\ Sound(p)
         /\ p.host = o.host /\ p.hostConnected = o.hostConnected
         /\ p.details = o.details
         /\ p.rec.state = o.rec.state
         /\ p.viewers \subseteq o.viewers \ gone
         /\ Follows(o, p)
<1> DEFINE without == [o EXCEPT !.viewers = @ \ gone]
<1>1. /\ Sound(without)
      /\ without.host = o.host /\ without.hostConnected = o.hostConnected
      /\ without.details = o.details /\ without.rec = o.rec
      /\ without.viewers = o.viewers \ gone
      /\ without.stored = o.stored /\ without.ident = o.ident
  BY DEF Sound, Valid, RecordOK, Object
<1>2. removeViewers(o, gone) \in {without, updateRecord(withoutRequest(without))}
  BY DEF removeViewers
<1> HIDE DEF without
<1> DEFINE q == withoutRequest(without)
<1>3. /\ Sound(q)
      /\ q.host = o.host /\ q.hostConnected = o.hostConnected
      /\ q.details = o.details
      /\ q.rec.state = o.rec.state
      /\ q.viewers = o.viewers \ gone
      /\ q.ident = o.ident
      /\ q.rec.currentControllerId = o.rec.currentControllerId
      /\ q.rec.controlLeaseExpiresAt = o.rec.controlLeaseExpiresAt
      /\ q.rec.pendingRequest = None /\ q.rec.pendingRequestExpiresAt = None
  BY <1>1, WithoutRequestSound
<1> HIDE DEF q
<1>4. LET p == updateRecord(q) IN
      /\ Sound(p)
      /\ p.host = o.host /\ p.hostConnected = o.hostConnected
      /\ p.details = o.details
      /\ p.rec.state = o.rec.state
      /\ p.viewers = o.viewers \ gone
      /\ p.rec = q.rec /\ p.stored = q.rec
  BY <1>3, UpdateSound
<1>4a. Follows(o, updateRecord(q))
  BY <1>3, <1>4 DEF Follows
<1>5. Follows(o, without)
  BY <1>1 DEF Follows
<1> QED BY <1>1, <1>2, <1>4, <1>4a, <1>5 DEF q

LEMMA SendViewersSound ==
  ASSUME NEW o, Sound(o)
  PROVE  LET p == sendViewers(o) IN
         /\ Sound(p)
         /\ p.host = o.host /\ p.hostConnected = o.hostConnected
         /\ p.details = o.details
         /\ p.rec.state = o.rec.state
         /\ p.viewers \subseteq o.viewers
         /\ Follows(o, p)
BY RemoveViewersSound DEF sendViewers

LEMMA SnapshotType ==
  ASSUME NEW o \in Object, NEW s
  PROVE  snapshot(o, s) \in Status
<1>1. hostState(o) \in HostStates
  BY DEF hostState, HostStates
<1> QED BY <1>1 DEF snapshot, Status, Object, SessionRecord

LEMMA TellViewersSound ==
  ASSUME NEW o, Sound(o)
  PROVE  LET p == tellViewers(o) IN
         /\ Sound(p)
         /\ p.host = o.host /\ p.hostConnected = o.hostConnected
         /\ p.details = o.details
         /\ p.rec.state = o.rec.state
         /\ p.viewers \subseteq o.viewers
         /\ Follows(o, p)
<1> DEFINE t == [s \in Socket |-> IF s \in o.viewers /\ o.sock[s] = "open"
                                  THEN snapshot(o, s) ELSE o.told[s]]
           w == [o EXCEPT !.told = t]
<1>1. t \in [Socket -> Status \cup {None}]
  BY SnapshotType DEF Sound, Valid, RecordOK, Object
<1>2. tellViewers(o) = sendViewers(w)
  BY DEF tellViewers
<1> HIDE DEF t
<1>3. /\ Sound(w)
      /\ w.host = o.host
      /\ w.hostConnected = o.hostConnected
      /\ w.details = o.details
      /\ w.rec = o.rec
      /\ w.viewers = o.viewers
      /\ w.stored = o.stored /\ w.ident = o.ident
  BY <1>1 DEF Sound, Valid, RecordOK, Object
<1>4. Follows(o, w)
  BY <1>3 DEF Follows
<1> HIDE DEF w
<1> QED BY <1>2, <1>3, <1>4, SendViewersSound, FollowsTransitive

LEMMA WithoutControlSound ==
  ASSUME NEW o, Sound(o)
  PROVE  LET p == withoutControl(o) IN
         /\ Sound(p)
         /\ p.host = o.host /\ p.hostConnected = o.hostConnected
         /\ p.viewers = o.viewers /\ p.details = o.details /\ p.sock = o.sock
         /\ p.ident = o.ident
         /\ p.rec.pendingRequest = None /\ p.rec.pendingRequestExpiresAt = None
         /\ p.rec.currentControllerId = None /\ p.rec.controlLeaseExpiresAt = None
         /\ p.rec.state = o.rec.state
         /\ p.rec.generation = o.rec.generation
         /\ p.rec.hostDisconnectDeadline = o.rec.hostDisconnectDeadline
<1> DEFINE q == withoutRequest(o)
<1>1. /\ Sound(q)
      /\ q.host = o.host /\ q.hostConnected = o.hostConnected
      /\ q.viewers = o.viewers /\ q.details = o.details /\ q.sock = o.sock
      /\ q.ident = o.ident
      /\ q.rec.pendingRequest = None /\ q.rec.pendingRequestExpiresAt = None
      /\ q.rec.state = o.rec.state
      /\ q.rec.generation = o.rec.generation
      /\ q.rec.hostDisconnectDeadline = o.rec.hostDisconnectDeadline
  BY WithoutRequestSound
<1> HIDE DEF q
<1>2. withoutControl(o) = withoutLease(q)
  BY DEF withoutControl, q
<1> QED BY <1>1, <1>2, WithoutLeaseSound

\* What clearHost leaves: no host, and the grace period running.
LEMMA ClearHostSound ==
  ASSUME now \in Nat, NEW o, Sound(o)
  PROVE  LET p == clearHost(o) IN
         /\ Sound(p) /\ p.host = None /\ p.details = {} /\ p.rec.state = "ready"
         /\ p.viewers \subseteq o.viewers
         /\ Follows(o, p)
<1> DEFINE q == withoutControl(o)
           gone == [q EXCEPT !.host = None,
                             !.hostConnected = FALSE,
                             !.details = {},
                             !.rec.hostDisconnectDeadline = now + HostGrace,
                             !.rec.state = "ready"]
<1>1. /\ Sound(q) /\ q.viewers = o.viewers /\ q.ident = o.ident
      /\ q.rec.currentControllerId = None /\ q.rec.controlLeaseExpiresAt = None
      /\ q.rec.pendingRequest = None /\ q.rec.pendingRequestExpiresAt = None
  BY WithoutControlSound
<1>2. clearHost(o) = tellViewers(updateRecord(gone))
  BY DEF clearHost
<1> HIDE DEF q
<1>3. now + HostGrace \in Deadline
  BY TimingAssumption DEF Deadline
<1>3a. now + HostGrace # None
  BY TimingAssumption
<1>4. gone \in Object
  BY <1>1, <1>3 DEF Sound, Valid, RecordOK, Object, SessionRecord, State
<1>5. /\ gone.rec.hostDisconnectDeadline = now + HostGrace
      /\ gone.rec.state = "ready"
      /\ gone.rec.currentControllerId = None /\ gone.rec.controlLeaseExpiresAt = None
      /\ gone.rec.pendingRequest = None /\ gone.rec.pendingRequestExpiresAt = None
      /\ gone.host = None /\ gone.hostConnected = FALSE /\ gone.details = {}
      /\ gone.stored = q.stored /\ gone.viewers = q.viewers
      /\ gone.ident = q.ident /\ gone.sock = q.sock
  BY <1>1 DEF Sound, Valid, RecordOK, Object, SessionRecord
<1> HIDE DEF gone
<1>6. Sound(gone)
  BY <1>1, <1>3a, <1>4, <1>5 DEF Sound, Valid, RecordOK
<1> DEFINE u == updateRecord(gone)
<1>7. /\ Sound(u) /\ u.host = None /\ u.details = {} /\ u.rec.state = "ready"
      /\ u.viewers = o.viewers /\ u.ident = o.ident
      /\ u.stored = u.rec
      /\ ~u.hostConnected
  BY <1>1, <1>5, <1>6, UpdateSound
<1> HIDE DEF u
<1> DEFINE p == tellViewers(u)
<1>8. /\ Sound(p) /\ p.host = None /\ p.details = {} /\ p.rec.state = "ready"
      /\ p.viewers \subseteq o.viewers
      /\ ~p.hostConnected
      /\ Follows(u, p)
  BY <1>7, TellViewersSound
<1>8a. clearHost(o) = p
  BY <1>2 DEF u
<1> HIDE DEF p
<1>9. Follows(o, p)
  BY <1>7, <1>8 DEF Follows
<1> QED BY <1>8, <1>8a, <1>9

\* A broadcast or a message leaves the host as it is, or clears it.
Reaches(o, p) ==
  /\ Sound(p) /\ p.viewers \subseteq o.viewers
  /\ Follows(o, p)
  /\ \/ p.host = o.host /\ p.details = o.details /\ p.rec.state = o.rec.state
     \/ p.host = None /\ p.details = {} /\ p.rec.state = "ready"

LEMMA SendHostSound ==
  ASSUME now \in Nat, NEW o, Sound(o)
  PROVE  Reaches(o, sendHost(o))
BY ClearHostSound DEF sendHost, Reaches, Follows

LEMMA TellHostSound ==
  ASSUME now \in Nat, NEW o, Sound(o)
  PROVE  Reaches(o, tellHost(o))
<1>1. CASE o.host # None /\ o.sock[o.host] = "open"
  <2> DEFINE p == [o EXCEPT !.told[o.host] = snapshot(o, o.host)]
  <2>1. p \in Object /\ p.rec = o.rec /\ p.host = o.host /\ p.details = o.details
           /\ p.hostConnected = o.hostConnected /\ p.viewers = o.viewers
           /\ p.stored = o.stored /\ p.ident = o.ident
    BY <1>1, SnapshotType DEF Sound, Valid, RecordOK, Object, Socket
  <2>2. Sound(p)
    BY <2>1 DEF Sound, Valid, RecordOK
  <2>3. Follows(o, p)
    BY <2>1 DEF Follows
  <2> QED BY <1>1, <2>1, <2>2, <2>3 DEF tellHost, Reaches
<1>2. CASE ~(o.host # None /\ o.sock[o.host] = "open")
  BY <1>2, SendHostSound DEF tellHost
<1> QED BY <1>1, <1>2

LEMMA BroadcastSound ==
  ASSUME now \in Nat, NEW o, Sound(o)
  PROVE  Reaches(o, broadcastStatus(o))
BY TellHostSound, TellViewersSound, FollowsTransitive DEF broadcastStatus, Reaches

LEMMA ReachesSettled ==
  ASSUME NEW o, NEW p, Settled(o), Reaches(o, p)
  PROVE  Settled(p)
BY DEF Settled, Reaches, Sound, Valid, RecordOK, Fresh

LEMMA BroadcastSettled ==
  ASSUME now \in Nat, NEW o, Settled(o)
  PROVE  Settled(broadcastStatus(o))
BY BroadcastSound, ReachesSettled DEF Settled

----------------------------------------------------------------------------
(* Deadlines.                                                              *)

LEMMA CloseSessionSound ==
  ASSUME NEW o, Sound(o), NEW reason \in EndReasons
  PROVE  LET p == closeSession(o, reason) IN
         /\ Sound(p)
         /\ p.host = o.host
         /\ p.rec.state = "closed"
<1>1. CASE o.rec.state = "closed"
  BY <1>1 DEF closeSession
<1>2. CASE o.rec.state # "closed"
  <2> DEFINE q == withoutControl(o)
             p == [q EXCEPT !.hostConnected = FALSE,
                            !.rec.state = "closed",
                            !.rec.endReason = reason,
                            !.rec.hostDisconnectDeadline = None]
  <2>1. /\ Sound(q) /\ q.host = o.host
        /\ q.rec.currentControllerId = None /\ q.rec.controlLeaseExpiresAt = None
        /\ q.rec.pendingRequest = None /\ q.rec.pendingRequestExpiresAt = None
    BY WithoutControlSound
  <2>2. closeSession(o, reason) = p
    BY <1>2 DEF closeSession
  <2> HIDE DEF q
  <2>3a. q.rec \in SessionRecord
    BY <2>1 DEF Sound, Valid, RecordOK, Object
  <2>3b. [q.rec EXCEPT !.state = "closed", !.endReason = reason,
                       !.hostDisconnectDeadline = None] \in SessionRecord
    BY <2>3a DEF SessionRecord, State, Deadline
  <2>3. p \in Object
    BY <2>1, <2>3b DEF Sound, Valid, RecordOK, Object
  <2>4. /\ p.rec.state = "closed" /\ p.rec.hostDisconnectDeadline = None
        /\ p.rec.currentControllerId = None /\ p.rec.controlLeaseExpiresAt = None
        /\ p.rec.pendingRequest = None /\ p.rec.pendingRequestExpiresAt = None
        /\ p.host = o.host /\ p.hostConnected = FALSE /\ p.stored = q.stored /\ p.viewers = q.viewers
      /\ p.ident = q.ident /\ p.sock = q.sock
    BY <2>1 DEF Sound, Valid, RecordOK, Object, SessionRecord
  <2> HIDE DEF p
  <2>5. Sound(p)
    BY <2>1, <2>3, <2>4 DEF Sound, Valid, RecordOK
  <2> QED BY <2>2, <2>4, <2>5
<1> QED BY <1>1, <1>2

LEMMA EndSharingSound ==
  ASSUME NEW o, Sound(o), NEW reason \in EndReasons
  PROVE  LET p == endSharing(o, reason) IN
         /\ Sound(p)
         /\ p.host = o.host
         /\ p.rec.state = "ended"
<1> DEFINE q == closeSession(o, reason)
           p == [q EXCEPT !.rec.state = "ended"]
<1>1. Sound(q) /\ q.host = o.host /\ q.rec.state = "closed"
  BY CloseSessionSound
<1>2. endSharing(o, reason) = p
  BY DEF endSharing
<1> HIDE DEF q
<1>3. p \in Object
  BY <1>1 DEF Sound, Valid, RecordOK, Object, SessionRecord, State
<1>4. /\ p.rec.state = "ended" /\ p.host = o.host /\ p.stored = q.stored /\ p.viewers = q.viewers
      /\ p.ident = q.ident /\ p.sock = q.sock
      /\ p.hostConnected = q.hostConnected
      /\ p.rec.hostDisconnectDeadline = q.rec.hostDisconnectDeadline
      /\ p.rec.currentControllerId = q.rec.currentControllerId
      /\ p.rec.controlLeaseExpiresAt = q.rec.controlLeaseExpiresAt
      /\ p.rec.pendingRequest = q.rec.pendingRequest
      /\ p.rec.pendingRequestExpiresAt = q.rec.pendingRequestExpiresAt
  BY <1>1 DEF Sound, Valid, RecordOK, Object, SessionRecord
<1> HIDE DEF p
<1>5. Sound(p)
  BY <1>1, <1>3, <1>4 DEF Sound, Valid, RecordOK
<1> QED BY <1>2, <1>4, <1>5

\* What an operator keeps that only takes control away or moves the state.
SameMemory(o, p) ==
  p.host = o.host /\ p.hostConnected = o.hostConnected /\ p.details = o.details

LEMMA ExpireSound ==
  ASSUME NEW o, Sound(o)
  PROVE  LET p == expireLease(expireRequest(o)) IN
         Sound(p) /\ SameMemory(o, p)
<1> DEFINE q == expireRequest(o)
<1>1. Sound(q) /\ SameMemory(o, q)
  BY WithoutRequestSound DEF expireRequest, SameMemory
<1> HIDE DEF q
<1>2. Sound(expireLease(q)) /\ SameMemory(q, expireLease(q))
  BY <1>1, WithoutLeaseSound DEF expireLease, SameMemory
<1> QED BY <1>1, <1>2 DEF q, SameMemory

LEMMA FollowHostSound ==
  ASSUME NEW o, Sound(o)
  PROVE  LET p == followHost(o) IN
         /\ Sound(p) /\ SameMemory(o, p) /\ SameClaims(o.rec, p.rec)
         /\ o.hostConnected => p = o
<1> DEFINE st == CASE o.rec.state \in {"closed", "ended"} -> o.rec.state
                   [] o.rec.state \notin {"closed", "ended"} /\ o.hostConnected -> "active"
                   [] OTHER -> IF o.rec.state = "idle" THEN o.rec.state ELSE "ready"
           p == [o EXCEPT !.rec.state = st]
<1>0. followHost(o) = p
  BY DEF followHost
<1>1a. /\ o.rec.state \in State
       /\ o.hostConnected \in BOOLEAN
       /\ o.hostConnected <=> o.rec.state = "active"
  BY DEF Sound, Valid, RecordOK, Object, SessionRecord
<1>1. /\ st \in State
      /\ st = "active" <=> o.hostConnected
      /\ o.rec.state \in {"ended", "closed"} => st \in {"ended", "closed"}
  BY <1>1a DEF State
<1> HIDE DEF st
<1>2. p \in Object
  BY <1>1 DEF Sound, Valid, RecordOK, Object, SessionRecord
<1>3. /\ p.rec.state = st /\ p.stored = o.stored /\ p.viewers = o.viewers
      /\ p.ident = o.ident /\ p.sock = o.sock
      /\ p.host = o.host /\ p.hostConnected = o.hostConnected /\ p.details = o.details
      /\ p.rec.hostDisconnectDeadline = o.rec.hostDisconnectDeadline
      /\ p.rec.currentControllerId = o.rec.currentControllerId
      /\ p.rec.controlLeaseExpiresAt = o.rec.controlLeaseExpiresAt
      /\ p.rec.pendingRequest = o.rec.pendingRequest
      /\ p.rec.pendingRequestExpiresAt = o.rec.pendingRequestExpiresAt
      /\ p.rec.generation = o.rec.generation
  BY DEF Sound, Valid, RecordOK, Object, SessionRecord
<1> HIDE DEF p
<1>4. Sound(p)
  BY <1>1, <1>2, <1>3 DEF Sound, Valid, RecordOK
<1>5. ASSUME o.hostConnected PROVE p = o
  <2>1. st = o.rec.state
    BY <1>1, <1>1a, <1>5
  <2>2. o.rec = [o.rec EXCEPT !.state = o.rec.state]
    BY DEF Sound, Valid, Object, SessionRecord
  <2> QED BY <2>1, <2>2 DEF p, Sound, Valid, Object
<1> QED BY <1>0, <1>3, <1>4, <1>5 DEF SameMemory, SameClaims

LEMMA AdvanceRecordSound ==
  ASSUME NEW o, Settled(o)
  PROVE  LET p == advanceRecord(o) IN
         /\ Sound(p)
         /\ p.rec.state \in {"closed", "ended"} \/ Settled(p)
<1> DEFINE e == expireLease(expireRequest(o))
<1>1. Sound(e) /\ SameMemory(o, e)
  BY ExpireSound DEF Settled
<1> HIDE DEF e
<1>2. CASE advanceRecord(o) = closeSession(o, "session expired")
  BY <1>2, CloseSessionSound DEF EndReasons, Settled
<1>3. CASE advanceRecord(o) = endSharing(e, "host disconnected")
  BY <1>1, <1>3, EndSharingSound DEF EndReasons
<1>4. CASE advanceRecord(o) = followHost(e)
  BY <1>1, <1>4, FollowHostSound DEF Settled, Fresh, SameMemory
<1> QED BY <1>2, <1>3, <1>4 DEF advanceRecord, e

LEMMA FinishSharingSettled ==
  ASSUME now \in Nat, NEW o, Valid(o), o.rec.state \in {"closed", "ended"}
  PROVE  Settled(finishSharing(o)) /\ Follows(o, finishSharing(o)) /\ ~finishSharing(o).hostConnected
<1> DEFINE q == [o EXCEPT !.hostConnected = FALSE, !.details = {}]
           told == broadcastStatus(q)
           p == [Shut(told, {told.host}) EXCEPT !.host = None]
<1>1. /\ Sound(q) /\ q.details = {} /\ q.rec.state \in {"closed", "ended"}
      /\ Follows(o, q)
  BY DEF Sound, Valid, RecordOK, Object, Follows
<1> HIDE DEF q
<1>2. /\ Sound(told) /\ told.details = {} /\ told.rec.state # "active"
      /\ Follows(o, told)
  BY <1>1, BroadcastSound, FollowsTransitive DEF Reaches
<1> HIDE DEF told
<1>3. LET r == Shut(told, {told.host}) IN
      /\ Sound(r) /\ r.details = {} /\ r.rec.state # "active"
      /\ Follows(o, r)
  BY <1>2, ShutSound DEF Follows
<1>4. finishSharing(o) = p
  BY DEF finishSharing, told, q
<1>5. Settled(p)
  BY <1>3 DEF Settled, Sound, Valid, RecordOK, Object, Fresh
<1>6. Follows(o, p) /\ ~p.hostConnected
  BY <1>3 DEF Follows, Sound, Valid, Object
<1> QED BY <1>4, <1>5, <1>6

LEMMA FinishClosedSessionSettled ==
  ASSUME now \in Nat, NEW o, Valid(o), o.rec.state = "closed"
  PROVE  /\ Settled(finishClosedSession(o))
         /\ Follows(o, finishClosedSession(o))
         /\ ~finishClosedSession(o).hostConnected
<1> DEFINE q == [o EXCEPT !.hostConnected = FALSE]
           told == broadcastStatus(q)
           r == Shut(told, {told.host} \cup told.viewers)
           p == [r EXCEPT !.host = None, !.viewers = {}, !.details = {}]
<1>1. Sound(q) /\ q.rec.state = "closed" /\ Follows(o, q)
  BY DEF Sound, Valid, RecordOK, Object, Follows
<1> HIDE DEF q
<1>2. Sound(told) /\ told.rec.state # "active" /\ Follows(o, told)
  BY <1>1, BroadcastSound, FollowsTransitive DEF Reaches
<1> HIDE DEF told
<1>3. Sound(r) /\ r.rec.state # "active" /\ Follows(o, r)
  BY <1>2, ShutSound DEF Follows
<1>4. finishClosedSession(o) = p
  BY DEF finishClosedSession, told, q
<1> HIDE DEF r
<1>5. Settled(p)
  BY <1>3 DEF Settled, Sound, Valid, RecordOK, Object, Fresh
<1>6. Follows(o, p) /\ ~p.hostConnected
  BY <1>3 DEF Follows, Sound, Valid, Object
<1> QED BY <1>4, <1>5, <1>6

LEMMA AdvanceAndPersistSettled ==
  ASSUME now \in Nat, NEW o, Settled(o)
  PROVE  Settled(advanceRecordAndPersist(o))
<1> DEFINE a == advanceRecord(o)
           p == persistRecord(a)
<1>1. Sound(a) /\ (a.rec.state \in {"closed", "ended"} \/ Settled(a))
  BY AdvanceRecordSound
<1> HIDE DEF a
<1>2. Sound(p) /\ SameMemory(a, p) /\ p.rec = a.rec
  BY <1>1, PersistSound DEF Sound, Valid, RecordOK, Object, SameMemory
<1>3. a.rec.state \notin {"closed", "ended"} => Settled(p)
  BY <1>1, <1>2 DEF Settled, Fresh, SameMemory
<1> HIDE DEF p
<1>4. advanceRecordAndPersist(o) \in {o, finishClosedSession(p), finishSharing(p), p}
  BY DEF advanceRecordAndPersist, p, a
<1>5. CASE p.rec.state = "closed" /\ advanceRecordAndPersist(o) = finishClosedSession(p)
  BY <1>2, <1>5, FinishClosedSessionSettled DEF Sound
<1>6. CASE p.rec.state = "ended" /\ advanceRecordAndPersist(o) = finishSharing(p)
  BY <1>2, <1>6, FinishSharingSettled DEF Sound
<1>7. CASE p.rec.state \notin {"closed", "ended"} /\ advanceRecordAndPersist(o) = p
  BY <1>2, <1>3, <1>7
<1> QED BY <1>5, <1>6, <1>7 DEF advanceRecordAndPersist, p, a

LEMMA AdvanceAndTellSettled ==
  ASSUME now \in Nat, NEW o, Settled(o)
  PROVE  Settled(advanceAndTell(o))
BY AdvanceAndPersistSettled, BroadcastSettled DEF advanceAndTell

----------------------------------------------------------------------------
(* The same operators applied to a settled object.                         *)

LEMMA UpdateSettled ==
  ASSUME NEW o, Settled(o)
  PROVE  Settled(updateRecord(o))
BY UpdateSound DEF Settled, Fresh

\* A changed record that is written and announced.
LEMMA TellSettled ==
  ASSUME now \in Nat, NEW o, Settled(o)
  PROVE  LET p == broadcastStatus(updateRecord(o)) IN
         Settled(p) /\ Follows(o, p) /\ p.stored = p.rec
<1> DEFINE u == updateRecord(o)
           p == broadcastStatus(u)
<1>1. /\ Settled(u)
      /\ u.rec = o.rec /\ u.stored = o.rec /\ u.hostConnected = o.hostConnected
  BY UpdateSound, UpdateSettled DEF Settled
<1> HIDE DEF u
<1>2. Settled(p) /\ Follows(u, p)
  BY <1>1, BroadcastSettled, BroadcastSound DEF Settled, Reaches
<1> HIDE DEF p
<1>3. Follows(o, p) /\ p.stored = p.rec
  BY <1>1, <1>2 DEF Follows
<1> QED BY <1>2, <1>3 DEF p, u

LEMMA ScheduleSettled ==
  ASSUME NEW o, Settled(o)
  PROVE  LET p == scheduleNextAlarm(o) IN
         /\ Settled(p)
         /\ p.rec = o.rec /\ p.stored = o.stored /\ p.hostConnected = o.hostConnected
         /\ p.viewers = o.viewers
<1>1. PICK d \in Deadline : scheduleNextAlarm(o) = [o EXCEPT !.alarm = d]
  BY ScheduleSound DEF Settled
<1>2. LET p == [o EXCEPT !.alarm = d] IN
      /\ p.host = o.host /\ p.details = o.details /\ p.hostConnected = o.hostConnected
      /\ p.rec = o.rec /\ p.stored = o.stored /\ p.viewers = o.viewers
  BY DEF Settled, Sound, Valid, RecordOK, Object
<1> QED BY <1>1, <1>2, ScheduleSound DEF Settled, Fresh

LEMMA ShutSettled ==
  ASSUME NEW o, NEW sockets, Settled(o)
  PROVE  Settled(Shut(o, sockets))
BY ShutSound DEF Settled, Fresh

LEMMA SendHostSettled ==
  ASSUME now \in Nat, NEW o, Settled(o)
  PROVE  Settled(sendHost(o))
BY SendHostSound, ReachesSettled DEF Settled

LEMMA RemoveViewersSettled ==
  ASSUME NEW o, NEW gone, Settled(o)
  PROVE  Settled(removeViewers(o, gone))
BY RemoveViewersSound DEF Settled, Fresh

LEMMA WithoutRequestSettled ==
  ASSUME NEW o, Settled(o)
  PROVE  Settled(withoutRequest(o))
BY WithoutRequestSound DEF Settled, Fresh

LEMMA WithoutLeaseSettled ==
  ASSUME NEW o, Settled(o)
  PROVE  Settled(withoutLease(o))
BY WithoutLeaseSound DEF Settled, Fresh

LEMMA TouchSettled ==
  ASSUME now \in Nat, NEW o, Settled(o)
  PROVE  LET p == touchSession(o) IN
         /\ Settled(p) /\ Follows(o, p) /\ SameClaims(o.rec, p.rec)
         /\ p.host = o.host /\ p.hostConnected = o.hostConnected /\ p.sock = o.sock
         /\ p.viewers = o.viewers
         /\ p = o \/ p.stored = p.rec
<1> DEFINE next == Min({now + IdleTTL, o.rec.maxExpiresAt})
           p == [o EXCEPT !.rec.sessionExpiresAt = next]
<1>1. {now + IdleTTL, o.rec.maxExpiresAt} \subseteq Nat
  BY TimingAssumption DEF Settled, Sound, Valid, RecordOK, Object, SessionRecord
<1>2. next \in Nat
  BY <1>1, MinOfNaturals
<1>3. touchSession(o) \in {o, updateRecord(p)}
  BY DEF touchSession
<1> HIDE DEF next
<1>4. p \in Object
  BY <1>2 DEF Settled, Sound, Valid, RecordOK, Object, SessionRecord
<1>5. /\ p.host = o.host /\ p.hostConnected = o.hostConnected /\ p.details = o.details
      /\ p.stored = o.stored /\ p.viewers = o.viewers
      /\ p.ident = o.ident /\ p.sock = o.sock
      /\ p.rec.state = o.rec.state
      /\ p.rec.hostDisconnectDeadline = o.rec.hostDisconnectDeadline
      /\ p.rec.currentControllerId = o.rec.currentControllerId
      /\ p.rec.controlLeaseExpiresAt = o.rec.controlLeaseExpiresAt
      /\ p.rec.pendingRequest = o.rec.pendingRequest
      /\ p.rec.pendingRequestExpiresAt = o.rec.pendingRequestExpiresAt
      /\ p.rec.generation = o.rec.generation
  BY DEF Settled, Sound, Valid, RecordOK, Object, SessionRecord
<1> HIDE DEF p
<1>6. Settled(p)
  BY <1>4, <1>5 DEF Settled, Sound, Valid, RecordOK, Fresh
<1> DEFINE u == updateRecord(p)
<1>7. /\ Settled(u) /\ u.rec = p.rec /\ u.stored = p.rec
      /\ u.host = o.host /\ u.hostConnected = o.hostConnected /\ u.sock = o.sock
      /\ u.viewers = o.viewers
  BY <1>5, <1>6, UpdateSettled, UpdateSound DEF Settled
<1> HIDE DEF u
<1>8. Follows(o, u) /\ SameClaims(o.rec, u.rec)
  BY <1>5, <1>7 DEF Follows, SameClaims
<1>9. Follows(o, o) /\ SameClaims(o.rec, o.rec)
  BY DEF Follows, SameClaims
<1> QED BY <1>3, <1>7, <1>8, <1>9 DEF u

----------------------------------------------------------------------------
(* Handlers.                                                               *)

LEMMA AcceptHostSettled ==
  ASSUME now \in Nat, NEW o, Settled(o), NEW h \in HostSock
  PROVE  LET p == acceptHost(o, h) IN
         Settled(p) /\ p.stored = p.rec /\ Unclaimed(p.rec)
<1> DEFINE t == touchSession(o)
           r == Shut(t, {t.host})
           c == withoutControl(r)
           joined == [c EXCEPT !.sock[h] = "open",
                               !.host = h,
                               !.hostConnected = TRUE,
                               !.details = {},
                               !.rec.hostDisconnectDeadline = None,
                               !.rec.endReason = None,
                               !.rec.generation = @ + 1,
                               !.rec.state = "active"]
<1>1. Settled(t)
  BY TouchSettled
<1> HIDE DEF t
<1>2. Sound(r)
  BY <1>1, ShutSettled DEF Settled
<1> HIDE DEF r
<1>3. /\ Sound(c)
      /\ c.rec.currentControllerId = None /\ c.rec.controlLeaseExpiresAt = None
      /\ c.rec.pendingRequest = None /\ c.rec.pendingRequestExpiresAt = None
  BY <1>2, WithoutControlSound
<1> HIDE DEF c
<1>4. acceptHost(o, h) = scheduleNextAlarm(broadcastStatus(updateRecord(joined)))
  BY DEF acceptHost, c, r, t
<1>5a. c.rec \in SessionRecord
  BY <1>3 DEF Sound, Valid, Object
<1>5b. [c.rec EXCEPT !.hostDisconnectDeadline = None, !.endReason = None] \in SessionRecord
  BY <1>5a DEF SessionRecord, Deadline
<1>5c. c.rec.generation + 1 \in Nat
  BY <1>5a DEF SessionRecord
<1>5. [c.rec EXCEPT !.hostDisconnectDeadline = None, !.endReason = None,
                    !.generation = @ + 1, !.state = "active"] \in SessionRecord
  BY <1>5a, <1>5b, <1>5c DEF SessionRecord, State
<1>6. joined \in Object
  BY <1>3, <1>5 DEF Sound, Valid, RecordOK, Object, Socket
<1>7. /\ joined.stored = c.stored /\ joined.viewers = c.viewers
      /\ joined.ident = c.ident
      /\ joined.host = h /\ joined.hostConnected = TRUE /\ joined.details = {}
      /\ joined.rec.state = "active" /\ joined.rec.hostDisconnectDeadline = None
      /\ joined.rec.currentControllerId = None /\ joined.rec.controlLeaseExpiresAt = None
      /\ joined.rec.pendingRequest = None /\ joined.rec.pendingRequestExpiresAt = None
  BY <1>3 DEF Sound, Valid, RecordOK, Object, SessionRecord
<1>7a. \A v \in ViewerSock : joined.sock[v] = c.sock[v]
  BY <1>3, SocketAssumption DEF Sound, Valid, Object, Socket
<1> HIDE DEF joined
<1>8. h # None
  BY SocketAssumption DEF Socket
<1>9. Settled(joined)
  BY <1>3, <1>6, <1>7, <1>7a, <1>8 DEF Settled, Sound, Valid, RecordOK, Fresh
<1> DEFINE u == updateRecord(joined)
           b == broadcastStatus(u)
<1>10. Settled(u) /\ u.stored = u.rec /\ Unclaimed(u.rec)
  BY <1>7, <1>9, UpdateSound, UpdateSettled DEF Settled, Unclaimed
<1> HIDE DEF u
<1>11. Settled(b) /\ b.stored = b.rec /\ Unclaimed(b.rec)
  BY <1>10, BroadcastSettled, BroadcastSound DEF Reaches, Follows, Settled, Sound, Valid, RecordOK, Unclaimed
<1> HIDE DEF b
<1>12. LET p == scheduleNextAlarm(b) IN Settled(p) /\ p.rec = b.rec /\ p.stored = b.stored
  BY <1>11, ScheduleSettled
<1> QED BY <1>4, <1>11, <1>12 DEF u, b

LEMMA ResolveSettled ==
  ASSUME NEW o, Settled(o), NEW id \in Viewer
  PROVE  LET p == resolveViewerIdentity(o, id) IN
         /\ Settled(p) /\ Follows(o, p)
         /\ p.stored = p.rec \/ (p = o /\ id \in o.rec.viewerIdentities)
<1> DEFINE p == [o EXCEPT !.rec.viewerIdentities = @ \cup {id}]
<1>1. p \in Object
  BY DEF Settled, Sound, Valid, RecordOK, Object, SessionRecord
<1>2. /\ p.host = o.host /\ p.hostConnected = o.hostConnected /\ p.details = o.details
      /\ p.stored = o.stored /\ p.viewers = o.viewers
      /\ p.ident = o.ident /\ p.sock = o.sock
      /\ p.rec.state = o.rec.state
      /\ p.rec.hostDisconnectDeadline = o.rec.hostDisconnectDeadline
      /\ p.rec.currentControllerId = o.rec.currentControllerId
      /\ p.rec.controlLeaseExpiresAt = o.rec.controlLeaseExpiresAt
      /\ p.rec.pendingRequest = o.rec.pendingRequest
      /\ p.rec.pendingRequestExpiresAt = o.rec.pendingRequestExpiresAt
      /\ p.rec.generation = o.rec.generation
  BY DEF Settled, Sound, Valid, RecordOK, Object, SessionRecord
<1>3. resolveViewerIdentity(o, id) =
        IF id \in o.rec.viewerIdentities THEN o ELSE updateRecord(p)
  BY DEF resolveViewerIdentity
<1> HIDE DEF p
<1>4. Settled(p)
  BY <1>1, <1>2 DEF Settled, Sound, Valid, RecordOK, Fresh
<1> DEFINE u == updateRecord(p)
<1>5. /\ Settled(u) /\ u.rec = p.rec /\ u.stored = p.rec
      /\ u.hostConnected = o.hostConnected
  BY <1>2, <1>4, UpdateSettled, UpdateSound DEF Settled
<1> HIDE DEF u
<1>6. Follows(o, u)
  BY <1>2, <1>5 DEF Follows
<1>7. Follows(o, o)
  BY DEF Follows
<1> QED BY <1>3, <1>5, <1>6, <1>7 DEF u

\* Changes outside the record, the host and the metadata do not matter.
LEMMA SocketsSettled ==
  ASSUME NEW o, Settled(o), NEW p \in Object,
         p.rec = o.rec, p.stored = o.stored,
         \A v \in ViewerSock :
           v \in p.viewers \/ p.sock[v] = "open" => p.ident[v] # None,
         p.host = o.host, p.hostConnected = o.hostConnected,
         p.details \subseteq o.details
  PROVE  Settled(p)
BY DEF Settled, Sound, Valid, RecordOK, Fresh

LEMMA AcceptViewerSettled ==
  ASSUME now \in Nat, NEW o, Settled(o), NEW v \in ViewerSock, NEW id \in Viewer
  PROVE  LET p == acceptViewer(o, v, id) IN
         /\ Settled(p) /\ Follows(o, p)
         /\ Saved(o) => p.stored = p.rec
<1> DEFINE known == resolveViewerIdentity(touchSession(o), id)
           joined == [known EXCEPT !.sock[v] = "open",
                                   !.ident[v] = id,
                                   !.viewers = @ \cup {v}]
           older == {w \in joined.viewers \ {v} : joined.ident[w] = joined.ident[v]}
           shut == Shut(joined, older)
           alone == [shut EXCEPT !.viewers = @ \ older]
<1>1. Settled(known) /\ Follows(o, known)
  BY TouchSettled, ResolveSettled, FollowsTransitive
<1>1a. Saved(o) => known.stored = known.rec
  <2> DEFINE t == touchSession(o)
  <2>1. Settled(t) /\ (t = o \/ t.stored = t.rec)
    BY TouchSettled
  <2>2. known.stored = known.rec \/ (known = t /\ id \in t.rec.viewerIdentities)
    BY <2>1, ResolveSettled
  <2> HIDE DEF t, known
  <2> QED BY <2>1, <2>2 DEF Saved
<1> HIDE DEF known
<1>2. joined \in Object
  BY <1>1 DEF Settled, Sound, Valid, RecordOK, Object, Socket
<1>2a. /\ joined.rec = known.rec /\ joined.stored = known.stored
       /\ joined.host = known.host /\ joined.hostConnected = known.hostConnected
       /\ joined.details = known.details
  BY <1>1 DEF Settled, Sound, Valid, Object
<1>2b. \A w \in ViewerSock :
         w \in joined.viewers \/ joined.sock[w] = "open" => joined.ident[w] # None
  BY <1>1, SocketAssumption DEF Settled, Sound, Valid, Object
<1> HIDE DEF joined, older
<1>3. Settled(joined)
  BY <1>1, <1>2, <1>2a, <1>2b, SocketsSettled
<1>4. Settled(shut)
  BY <1>3, ShutSettled
<1> HIDE DEF shut
<1>5. alone \in Object
  BY <1>4 DEF Settled, Sound, Valid, RecordOK, Object
<1>5a. /\ alone.rec = shut.rec /\ alone.stored = shut.stored
       /\ alone.host = shut.host /\ alone.hostConnected = shut.hostConnected
       /\ alone.details = shut.details
       /\ \A w \in ViewerSock :
            w \in alone.viewers \/ alone.sock[w] = "open" => alone.ident[w] # None
  BY <1>4 DEF Settled, Sound, Valid, Object
<1> HIDE DEF alone
<1>6. Settled(alone)
  BY <1>4, <1>5, <1>5a, SocketsSettled
<1>7. acceptViewer(o, v, id) = scheduleNextAlarm(broadcastStatus(sendHost(alone)))
  BY DEF acceptViewer, replaceViewerConnection, known, joined, older, shut, alone
<1>8. shut.rec = joined.rec /\ shut.stored = joined.stored
      /\ shut.hostConnected = joined.hostConnected
  BY <1>3, ShutSound DEF Settled, shut
<1>9. Follows(o, alone) /\ (Saved(o) => alone.stored = alone.rec)
  BY <1>1, <1>1a, <1>2a, <1>5a, <1>8 DEF Follows
<1> DEFINE s == sendHost(alone)
           b == broadcastStatus(s)
<1>10. Settled(s) /\ Follows(alone, s)
  BY <1>6, SendHostSettled, SendHostSound DEF Settled, Reaches
<1> HIDE DEF s
<1>11. Settled(b) /\ Follows(s, b)
  BY <1>10, BroadcastSettled, BroadcastSound DEF Settled, Reaches
<1> HIDE DEF b
<1> DEFINE p == scheduleNextAlarm(b)
<1>12. Settled(p) /\ p.rec = b.rec /\ p.stored = b.stored /\ p.hostConnected = b.hostConnected
  BY <1>11, ScheduleSettled
<1>13. acceptViewer(o, v, id) = p
  BY <1>7 DEF b, s
<1> HIDE DEF p
<1>14. Follows(o, b)
  BY <1>9, <1>10, <1>11, FollowsTransitive
<1>15. Saved(o) => b.stored = b.rec
  BY <1>9, <1>10, <1>11 DEF Follows
<1>16. Follows(o, p)
  BY <1>12, <1>14 DEF Follows
<1> QED BY <1>12, <1>13, <1>15, <1>16

LEMMA EndsSettled ==
  ASSUME now \in Nat, NEW o, Settled(o), NEW reason \in EndReasons
  PROVE  LET p == scheduleNextAlarm(finishSharing(persistRecord(endSharing(o, reason)))) IN
         Settled(p) /\ p.stored = p.rec /\ ~p.hostConnected
<1> DEFINE e == endSharing(o, reason)
           p == persistRecord(e)
<1>1. Sound(e) /\ e.rec.state = "ended"
  BY EndSharingSound DEF Settled
<1> HIDE DEF e
<1>2. Sound(p) /\ p.rec = e.rec /\ p.stored = e.rec
  BY <1>1, PersistSound DEF Sound, Valid, Object
<1> HIDE DEF p
<1> DEFINE f == finishSharing(p)
<1>3. Settled(f) /\ f.stored = f.rec /\ ~f.hostConnected
  BY <1>1, <1>2, FinishSharingSettled DEF Sound, Follows
<1> HIDE DEF f
<1>4. LET q == scheduleNextAlarm(f) IN
      /\ Settled(q) /\ q.rec = f.rec /\ q.stored = f.stored
      /\ q.hostConnected = f.hostConnected
  BY <1>3, ScheduleSettled
<1> QED BY <1>3, <1>4 DEF f, p, e

\* A clamped duration is one a lease may have.
LEMMA NormalizedLease ==
  ASSUME NEW ask \in LeaseAsks \cup {None}, NEW fallback \in MinLease .. MaxLease
  PROVE  normalizeLeaseSeconds(ask, fallback) \in MinLease .. MaxLease
<1>1. \A a, b \in Int : Min({a, b}) = (IF a <= b THEN a ELSE b)
  BY DEF Min
<1>2. \A a, b \in Int : Max({a, b}) = (IF a <= b THEN b ELSE a)
  BY DEF Max
<1>3. MinLease \in Int /\ MaxLease \in Int /\ MinLease <= MaxLease
  BY TimingAssumption
<1>4. CASE ask = None
  BY <1>4 DEF normalizeLeaseSeconds
<1>5. CASE ask # None
  <2>1. ask \in Int
    BY <1>5, TimingAssumption
  <2> DEFINE m == Min({ask, MaxLease})
  <2>2. m \in Int /\ m <= MaxLease
    BY <1>1, <1>3, <2>1
  <2>3. normalizeLeaseSeconds(ask, fallback) = Max({MinLease, m})
    BY <1>5 DEF normalizeLeaseSeconds
  <2> HIDE DEF m
  <2>4. Max({MinLease, m}) = (IF MinLease <= m THEN m ELSE MinLease)
    BY <1>2, <1>3, <2>2
  <2> QED BY <1>3, <2>2, <2>3, <2>4
<1> QED BY <1>4, <1>5

WithPermission(o, controller, lease, request, expiry) ==
  [o EXCEPT !.rec.currentControllerId = controller,
            !.rec.controlLeaseExpiresAt = lease,
            !.rec.pendingRequest = request,
            !.rec.pendingRequestExpiresAt = expiry]

\* The permission fields of a record may be set to anything that RecordOK allows.
LEMMA PermissionSettled ==
  ASSUME NEW o, Settled(o), o.rec.state = "active",
         NEW controller \in Viewer \cup {None}, NEW lease \in Deadline,
         NEW request \in ControlRequest \cup {None}, NEW expiry \in Deadline,
         controller = None \/ request = None,
         controller # None <=> lease # None,
         request # None <=> expiry # None
  PROVE  LET q == WithPermission(o, controller, lease, request, expiry) IN
         /\ Settled(q)
         /\ q.rec.currentControllerId = controller /\ q.rec.controlLeaseExpiresAt = lease
         /\ q.rec.pendingRequest = request /\ q.rec.pendingRequestExpiresAt = expiry
         /\ q.hostConnected = o.hostConnected
<1> DEFINE r == [o.rec EXCEPT !.currentControllerId = controller,
                              !.controlLeaseExpiresAt = lease]
           s == [r EXCEPT !.pendingRequest = request,
                          !.pendingRequestExpiresAt = expiry]
           p == [o EXCEPT !.rec = s]
<1>1. o.rec \in SessionRecord
  BY DEF Settled, Sound, Valid, Object
<1>2. r \in SessionRecord
  BY <1>1 DEF SessionRecord
<1>3. s \in SessionRecord
  BY <1>2 DEF SessionRecord
<1>4. /\ s.currentControllerId = controller /\ s.controlLeaseExpiresAt = lease
      /\ s.pendingRequest = request /\ s.pendingRequestExpiresAt = expiry
      /\ s.state = o.rec.state /\ s.generation = o.rec.generation
      /\ s.hostDisconnectDeadline = o.rec.hostDisconnectDeadline
  BY <1>1 DEF SessionRecord
<1>5. p = WithPermission(o, controller, lease, request, expiry)
  BY <1>1 DEF WithPermission, Settled, Sound, Valid, Object
<1> HIDE DEF s
<1>6. /\ p \in Object /\ p.rec = s /\ p.stored = o.stored
      /\ p.host = o.host /\ p.hostConnected = o.hostConnected /\ p.details = o.details
      /\ p.viewers = o.viewers /\ p.ident = o.ident /\ p.sock = o.sock
  BY <1>3 DEF Settled, Sound, Valid, Object
<1> HIDE DEF p
<1>7. Settled(p)
  BY <1>4, <1>6 DEF Settled, Sound, Valid, RecordOK, Fresh
<1> QED BY <1>4, <1>5, <1>6, <1>7

\* What an approval changes, and that it changes nothing else of the permission.
Granted(p, id) ==
  \E lease \in MinLease .. MaxLease :
    /\ p.rec.currentControllerId = id /\ p.rec.controlLeaseExpiresAt = now + lease
    /\ p.rec.pendingRequest = None /\ p.rec.pendingRequestExpiresAt = None

LEMMA ApproveSettled ==
  ASSUME now \in Nat, NEW o, Settled(o),
         NEW id \in Viewer, NEW ask \in LeaseAsks \cup {None}
  PROVE  LET p == handleControlApprove(o, id, ask) IN
         /\ Settled(p)
         /\ IF Pending(o, id)
            THEN p.stored = p.rec /\ (p.hostConnected => o.hostConnected /\ Granted(p, id))
            ELSE p = o
<1>1. CASE ~Pending(o, id)
  BY <1>1 DEF handleControlApprove
<1>2. CASE Pending(o, id)
  <2> DEFINE lease == normalizeLeaseSeconds(ask, o.rec.pendingRequest.leaseSeconds)
             p == [o EXCEPT !.rec.currentControllerId = id,
                            !.rec.controlLeaseExpiresAt = now + lease,
                            !.rec.pendingRequest = None,
                            !.rec.pendingRequestExpiresAt = None]
  <2>1. o.rec.pendingRequest \in ControlRequest /\ o.rec.state = "active"
    BY <1>2 DEF Pending, Settled, Sound, Valid, RecordOK, Object, SessionRecord
  <2>2. lease \in MinLease .. MaxLease
    BY <2>1, NormalizedLease DEF ControlRequest
  <2>3. handleControlApprove(o, id, ask) = broadcastStatus(updateRecord(p))
    BY <1>2 DEF handleControlApprove
  <2> HIDE DEF lease
  <2>4. /\ now + lease \in Deadline /\ now + lease # None
        /\ id # None /\ None \in Deadline
    BY <2>2, TimingAssumption, SocketAssumption DEF Deadline
  <2>4a. p = WithPermission(o, id, now + lease, None, None)
    BY DEF WithPermission
  <2> HIDE DEF p
  <2>5. /\ Settled(p) /\ p.hostConnected = o.hostConnected
        /\ p.rec.currentControllerId = id /\ p.rec.controlLeaseExpiresAt = now + lease
        /\ p.rec.pendingRequest = None /\ p.rec.pendingRequestExpiresAt = None
    BY <2>1, <2>4, <2>4a, PermissionSettled
  <2> DEFINE b == broadcastStatus(updateRecord(p))
  <2>6. Settled(b) /\ Follows(p, b) /\ b.stored = b.rec
    BY <2>5, TellSettled
  <2> HIDE DEF b
  <2>7. b.hostConnected => o.hostConnected /\ Granted(b, id)
    BY <2>2, <2>5, <2>6 DEF Follows, Granted
  <2> QED BY <1>2, <2>3, <2>6, <2>7 DEF b
<1> QED BY <1>1, <1>2

LEMMA RejectSettled ==
  ASSUME now \in Nat, NEW o, Settled(o), NEW id
  PROVE  LET p == handleControlReject(o, id) IN
         /\ Settled(p)
         /\ p = o \/ (p.stored = p.rec /\ Follows(withoutRequest(o), p))
BY WithoutRequestSettled, TellSettled DEF handleControlReject

LEMMA RevokeSettled ==
  ASSUME now \in Nat, NEW o, Settled(o)
  PROVE  LET p == handleControlRevoke(o) IN
         /\ Settled(p)
         /\ p = o \/ (p.stored = p.rec /\ Follows(withoutLease(o), p))
BY WithoutLeaseSettled, TellSettled DEF handleControlRevoke

\* What a request changes: it waits, unless its viewer cannot be reached.
Asked(p, id) ==
  /\ p.rec.currentControllerId = None /\ p.rec.controlLeaseExpiresAt = None
  /\ \/ /\ p.rec.pendingRequest # None
        /\ p.rec.pendingRequest.viewerId = id
        /\ p.rec.pendingRequestExpiresAt = now + PendingTimeout
     \/ /\ p.rec.pendingRequest = None
        /\ p.rec.pendingRequestExpiresAt = None

LEMMA RequestSettled ==
  ASSUME now \in Nat, NEW o, Settled(o),
         NEW v \in ViewerSock, NEW ask \in LeaseAsks \cup {None}
  PROVE  LET a == advanceRecordAndPersist(o)
             p == handleControlRequest(o, v, ask)
         IN /\ Settled(p)
            /\ \/ Follows(a, p) /\ p.viewers \subseteq a.viewers
               \/ /\ Unclaimed(a.rec)
                  /\ p.stored = p.rec
                  /\ p.hostConnected =>
                       a.hostConnected /\ (\E id \in Viewer : Asked(p, id))
<1> DEFINE a == advanceRecordAndPersist(o)
           request == [viewerId |-> a.ident[v],
                       leaseSeconds |-> normalizeLeaseSeconds(ask, MaxLease)]
           p == [a EXCEPT !.rec.pendingRequest = request,
                          !.rec.pendingRequestExpiresAt = now + PendingTimeout]
           refused == \/ v \notin a.viewers
                      \/ ~a.hostConnected
                      \/ a.rec.currentControllerId # None
                      \/ a.rec.pendingRequest # None
<1>1. Settled(a)
  BY AdvanceAndPersistSettled
<1>2. handleControlRequest(o, v, ask) =
        IF refused THEN broadcastStatus(a) ELSE broadcastStatus(sendHost(updateRecord(p)))
  BY DEF handleControlRequest
<1> HIDE DEF a
<1>3. CASE refused
  BY <1>1, <1>2, <1>3, BroadcastSettled, BroadcastSound DEF Settled, Reaches, a
<1>4. CASE ~refused
  <2>1. MaxLease \in MinLease .. MaxLease
    BY TimingAssumption
  <2>2. request \in ControlRequest /\ request.viewerId \in Viewer
    BY <1>1, <1>4, <2>1, NormalizedLease DEF ControlRequest, Settled, Sound, Valid, Object
  <2>3. /\ now + PendingTimeout \in Deadline /\ now + PendingTimeout # None
        /\ None \in Deadline
    BY TimingAssumption DEF Deadline
  <2>4. /\ request # None
        /\ a.rec.state = "active"
        /\ a.rec.currentControllerId = None
        /\ a.rec.controlLeaseExpiresAt = None
        /\ Unclaimed(a.rec)
        /\ a.hostConnected
    BY <1>1, <1>4, <2>2, RecordAssumption DEF Settled, Sound, Valid, RecordOK, Unclaimed
  <2> HIDE DEF request
  <2>6. p = WithPermission(a, None, None, request, now + PendingTimeout)
    <3>1. /\ a.rec \in SessionRecord
          /\ a.rec.currentControllerId = None /\ a.rec.controlLeaseExpiresAt = None
      BY <1>1, <2>4 DEF Settled, Sound, Valid, Object
    <3>2. a.rec = [a.rec EXCEPT !.currentControllerId = None,
                                !.controlLeaseExpiresAt = None]
      BY <3>1 DEF SessionRecord
    <3>3. a = [a EXCEPT !.rec = a.rec]
      BY <1>1 DEF Settled, Sound, Valid, Object
    <3>4. a = [a EXCEPT !.rec.currentControllerId = None,
                        !.rec.controlLeaseExpiresAt = None]
      BY <1>1, <3>2, <3>3 DEF Settled, Sound, Valid, Object
    <3> QED BY <3>4 DEF WithPermission
  <2> HIDE DEF p
  <2>7. /\ Settled(p)
        /\ p.rec.currentControllerId = None /\ p.rec.controlLeaseExpiresAt = None
        /\ p.rec.pendingRequest = request
        /\ p.rec.pendingRequestExpiresAt = now + PendingTimeout
    BY <1>1, <2>2, <2>3, <2>4, <2>6, PermissionSettled
  <2> DEFINE u == updateRecord(p)
             h == sendHost(u)
             b == broadcastStatus(h)
  <2>8. Settled(u) /\ Follows(p, u) /\ u.stored = u.rec
    BY <2>7, UpdateSettled, UpdateSound DEF Settled, Follows
  <2> HIDE DEF u
  <2>9. Settled(h) /\ Follows(u, h)
    BY <2>8, SendHostSettled, SendHostSound DEF Settled, Reaches
  <2> HIDE DEF h
  <2>10. Settled(b) /\ Follows(h, b)
    BY <2>9, BroadcastSettled, BroadcastSound DEF Settled, Reaches
  <2> HIDE DEF b
  <2>11. Follows(p, b) /\ b.stored = b.rec
    BY <2>8, <2>9, <2>10, FollowsTransitive DEF Follows
  <2>12. b.hostConnected => Asked(b, request.viewerId)
    BY <2>4, <2>7, <2>11 DEF Follows, Asked
  <2>13. handleControlRequest(o, v, ask) = b
    BY <1>2, <1>4 DEF b, h, u
  <2> QED BY <2>2, <2>4, <2>10, <2>11, <2>12, <2>13 DEF a
<1> QED BY <1>3, <1>4

LEMMA DetailSettled ==
  ASSUME now \in Nat, NEW o, Settled(o), o.hostConnected, NEW d \in Details
  PROVE  LET p == broadcastStatus([o EXCEPT !.details = @ \cup {d}]) IN
         Settled(p) /\ Follows(o, p) /\ p.viewers \subseteq o.viewers
<1> DEFINE p == [o EXCEPT !.details = @ \cup {d}]
<1>1. /\ p \in Object /\ p.rec = o.rec /\ p.stored = o.stored
      /\ p.host = o.host /\ p.hostConnected = o.hostConnected
      /\ p.viewers = o.viewers /\ p.ident = o.ident /\ p.sock = o.sock
  BY DEF Settled, Sound, Valid, Object
<1> HIDE DEF p
<1>2. Settled(p)
  BY <1>1 DEF Settled, Sound, Valid, RecordOK, Fresh
<1> DEFINE b == broadcastStatus(p)
<1>3. Settled(b) /\ Follows(p, b) /\ b.viewers \subseteq p.viewers
  BY <1>2, BroadcastSettled, BroadcastSound DEF Settled, Reaches
<1> HIDE DEF b
<1>4. Follows(o, b)
  BY <1>1, <1>3 DEF Follows
<1> QED BY <1>1, <1>3, <1>4 DEF p, b

LEMMA CloseSettled ==
  ASSUME now \in Nat, NEW o, Settled(o), NEW s \in Socket
  PROVE  LET p == handleClose(o, s) IN
         /\ Settled(p) /\ (s \in ViewerSock => s \notin p.viewers)
         /\ Follows(o, p) /\ p.viewers \subseteq o.viewers
<1>0. Follows(o, o)
  BY DEF Follows
<1>1. CASE s \in HostSock
  <2> DEFINE c == clearHost(o)
             p == scheduleNextAlarm(c)
  <2>1. Settled(c) /\ Follows(o, c) /\ c.viewers \subseteq o.viewers
    BY ClearHostSound DEF Settled, Sound, Valid, RecordOK, Fresh
  <2>2. s \notin ViewerSock
    BY <1>1, SocketAssumption
  <2>3. handleClose(o, s) = IF o.host = s THEN p ELSE o
    BY <1>1 DEF handleClose
  <2> HIDE DEF c
  <2>4. /\ Settled(p) /\ p.viewers = c.viewers
        /\ p.rec = c.rec /\ p.stored = c.stored /\ p.hostConnected = c.hostConnected
    BY <2>1, ScheduleSettled
  <2> HIDE DEF p
  <2>5. Follows(o, p)
    BY <2>1, <2>4 DEF Follows
  <2> QED BY <1>0, <2>1, <2>2, <2>3, <2>4, <2>5
<1>2. CASE s \notin HostSock
  <2> DEFINE r == removeViewers(o, {s})
             b == broadcastStatus(r)
             p == scheduleNextAlarm(b)
  <2>1. /\ Settled(r) /\ s \notin r.viewers
        /\ Follows(o, r) /\ r.viewers \subseteq o.viewers
    BY RemoveViewersSettled, RemoveViewersSound DEF Settled
  <2>2. handleClose(o, s) = scheduleNextAlarm(b)
    BY <1>2 DEF handleClose
  <2> HIDE DEF r
  <2>3. /\ Settled(b) /\ s \notin b.viewers
        /\ Follows(r, b) /\ b.viewers \subseteq r.viewers
    BY <2>1, BroadcastSettled, BroadcastSound DEF Settled, Reaches
  <2> HIDE DEF b
  <2>4. /\ Settled(p) /\ p.viewers = b.viewers
        /\ p.rec = b.rec /\ p.stored = b.stored /\ p.hostConnected = b.hostConnected
    BY <2>3, ScheduleSettled
  <2> HIDE DEF p
  <2>5. Follows(o, b)
    BY <2>1, <2>3, FollowsTransitive
  <2>6. Follows(o, p)
    BY <2>4, <2>5 DEF Follows
  <2>7. handleClose(o, s) = p
    BY <2>2 DEF p
  <2> QED BY <2>1, <2>3, <2>4, <2>6, <2>7
<1> QED BY <1>1, <1>2

LEMMA ReleaseSettled ==
  ASSUME NEW o, Settled(o), NEW s \in Socket, s \in ViewerSock => s \notin o.viewers
  PROVE  LET p == release(o, s) IN
         /\ Settled(p)
         /\ p.rec = o.rec /\ p.stored = o.stored /\ p.hostConnected = o.hostConnected
         /\ p.viewers = o.viewers
<1> DEFINE p == release(o, s)
<1>1. /\ p \in Object /\ p.rec = o.rec /\ p.stored = o.stored
      /\ p.host = o.host /\ p.hostConnected = o.hostConnected /\ p.details = o.details
      /\ p.viewers = o.viewers
  BY DEF release, Settled, Sound, Valid, Object
<1>2. \A v \in ViewerSock :
        v \in p.viewers \/ p.sock[v] = "open" => p.ident[v] # None
  BY DEF release, Settled, Sound, Valid, Object, Socket
<1> HIDE DEF p
<1>3. Settled(p)
  BY <1>1, <1>2, SocketsSettled
<1> QED BY <1>1, <1>3 DEF p

----------------------------------------------------------------------------
(* Construction.                                                           *)

LEMMA InitialRecordOK ==
  ASSUME now \in Nat, NEW state \in {"idle", "ready"}
  PROVE  LET r == createInitialSessionRecord(state) IN
         /\ r \in SessionRecord /\ RecordOK(r)
         /\ r.state = state /\ r.viewerIdentities = {} /\ Unclaimed(r)
<1> DEFINE expiry == Min({now + IdleTTL, now + MaxTTL})
<1>1. {now + IdleTTL, now + MaxTTL} \subseteq Nat
  BY TimingAssumption
<1>2. expiry \in Nat
  BY <1>1, MinOfNaturals
<1> HIDE DEF expiry
<1> DEFINE r == [ state |-> state,
                  currentControllerId |-> None, controlLeaseExpiresAt |-> None,
                  pendingRequest |-> None, pendingRequestExpiresAt |-> None,
                  viewerIdentities |-> {},
                  maxExpiresAt |-> now + MaxTTL,
                  sessionExpiresAt |-> expiry,
                  hostDisconnectDeadline |-> None, endReason |-> None,
                  generation |-> 0 ]
<1>3. createInitialSessionRecord(state) = r
  BY DEF createInitialSessionRecord, expiry
<1>4. r \in SessionRecord
  BY <1>1, <1>2 DEF SessionRecord, State, Deadline
<1>5. RecordOK(r) /\ r.state = state /\ r.viewerIdentities = {} /\ Unclaimed(r)
  BY DEF RecordOK, Unclaimed
<1> QED BY <1>3, <1>4, <1>5

\* What the constructor finds when it has looked at the sockets.
LEMMA RestoredValid ==
  ASSUME now \in Nat, Settled(obj),
         NEW h \in HostSock \cup {None}, NEW viewers \in SUBSET ViewerSock,
         Keepable(h, viewers)
  PROVE  LET o == restoreSockets(h, viewers) IN
         /\ Valid(o)
         /\ o.hostConnected <=> o.host # None
         /\ o.details = {}
         /\ o.stored = obj.stored
         /\ IF obj.stored = None
            THEN /\ o.rec.state = "idle" /\ o.rec.viewerIdentities = {}
                 /\ Unclaimed(o.rec)
            ELSE o.rec = obj.stored
<1> DEFINE r == IF obj.stored = None THEN createInitialSessionRecord("idle") ELSE obj.stored
           lost == (Socket \ {h}) \ viewers
           shut == Shut(blank, lost)
           o == [shut EXCEPT !.host = h, !.hostConnected = (h # None), !.viewers = viewers]
<1>1. r \in SessionRecord /\ RecordOK(r)
  BY InitialRecordOK DEF Settled, Sound, Valid, Object
<1>1a. IF obj.stored = None
       THEN r.state = "idle" /\ r.viewerIdentities = {} /\ Unclaimed(r)
       ELSE r = obj.stored
  BY InitialRecordOK
<1>2. /\ blank \in Object /\ blank.rec = r /\ blank.stored = obj.stored
      /\ blank.details = {} /\ blank.ident = obj.ident /\ blank.sock = obj.sock
  BY <1>1 DEF blank, Settled, Sound, Valid, Object
<1> HIDE DEF r
<1>3. /\ shut \in Object /\ shut.rec = r /\ shut.stored = obj.stored
      /\ shut.details = {} /\ shut.ident = obj.ident
      /\ \A s \in Socket : shut.sock[s] = "open" => obj.sock[s] = "open"
  BY <1>2 DEF Shut, Object
<1> HIDE DEF shut
<1>4. /\ o \in Object /\ o.rec = r /\ o.stored = obj.stored
      /\ o.details = {} /\ o.ident = obj.ident /\ o.sock = shut.sock
      /\ o.viewers = viewers /\ o.hostConnected = (h # None) /\ o.host = h
  BY <1>3 DEF Object
<1>5. \A v \in viewers : obj.sock[v] = "open"
  BY DEF Keepable
<1>6. \A v \in ViewerSock : v \in o.viewers \/ o.sock[v] = "open" => o.ident[v] # None
  BY <1>3, <1>4, <1>5 DEF Settled, Sound, Valid, Socket
<1>7. restoreSockets(h, viewers) = o
  BY DEF restoreSockets, shut
<1> HIDE DEF o
<1>8. Valid(o)
  BY <1>1, <1>4, <1>6 DEF Settled, Sound, Valid
<1> QED BY <1>1a, <1>4, <1>7, <1>8

LEMMA ReconcileSettled ==
  ASSUME now \in Nat, NEW o, Valid(o),
         o.hostConnected <=> o.host # None, o.details = {}
  PROVE  LET p == reconcileRecordWithSockets(o) IN
         /\ Settled(p)
         /\ \/ p.stored = p.rec
            \/ /\ p = o
               /\ o.rec.state = "idle" => ~o.hostConnected /\ o.viewers = {}
         /\ p.hostConnected => o.hostConnected /\ SameClaims(o.rec, p.rec)
<1>0. o \in Object /\ o.rec \in SessionRecord
  BY DEF Valid, Object
<1>1. ASSUME NEW r \in SessionRecord, RecordOK(r),
             o.hostConnected <=> r.state = "active"
      PROVE  LET p == updateRecord([o EXCEPT !.rec = r]) IN
             /\ Settled(p)
             /\ p.stored = p.rec /\ p.rec = r /\ p.hostConnected = o.hostConnected
  <2> DEFINE p == [o EXCEPT !.rec = r]
  <2>1. /\ p \in Object /\ p.rec = r /\ p.stored = o.stored
        /\ p.host = o.host /\ p.hostConnected = o.hostConnected /\ p.details = o.details
        /\ p.viewers = o.viewers /\ p.ident = o.ident /\ p.sock = o.sock
    BY <1>0 DEF Object
  <2> HIDE DEF p
  <2>2. Settled(p)
    BY <1>1, <2>1 DEF Settled, Sound, Valid, Fresh
  <2> QED BY <2>1, <2>2, UpdateSettled, UpdateSound DEF p, Settled
<1>2. CASE o.hostConnected
  <2> DEFINE r == [o.rec EXCEPT !.hostDisconnectDeadline = None, !.state = "active"]
  <2>1. r \in SessionRecord
    BY <1>0 DEF SessionRecord, State, Deadline
  <2>2. /\ r.state = "active" /\ r.hostDisconnectDeadline = None
        /\ r.currentControllerId = o.rec.currentControllerId
        /\ r.controlLeaseExpiresAt = o.rec.controlLeaseExpiresAt
        /\ r.pendingRequest = o.rec.pendingRequest
        /\ r.pendingRequestExpiresAt = o.rec.pendingRequestExpiresAt
    BY <1>0 DEF SessionRecord
  <2>3. [o EXCEPT !.rec.hostDisconnectDeadline = None, !.rec.state = "active"]
          = [o EXCEPT !.rec = r]
    BY <1>0 DEF Object
  <2>4. \/ reconcileRecordWithSockets(o) = updateRecord([o EXCEPT !.rec = r])
        \/ /\ reconcileRecordWithSockets(o) = o
           /\ o.rec.state = "active"
    BY <1>2, <2>3 DEF reconcileRecordWithSockets
  <2> HIDE DEF r
  <2> DEFINE p == updateRecord([o EXCEPT !.rec = r])
  <2>5. /\ Settled(p)
        /\ p.stored = p.rec /\ p.rec = r /\ p.hostConnected = o.hostConnected
    BY <1>1, <1>2, <2>1, <2>2 DEF Valid, RecordOK
  <2>6. o.rec.state = "active" => Settled(o)
    BY <1>2 DEF Settled, Sound, Fresh
  <2> HIDE DEF p
  <2>7. SameClaims(o.rec, p.rec) /\ SameClaims(o.rec, o.rec)
    BY <2>2, <2>5 DEF SameClaims
  <2> QED BY <1>2, <2>4, <2>5, <2>6, <2>7 DEF p
<1>3. CASE ~o.hostConnected /\ o.viewers # {} /\ o.rec.state = "idle"
  <2> DEFINE r == [o.rec EXCEPT !.state = "ready"]
  <2>1. /\ r \in SessionRecord
        /\ r.state = "ready" /\ r.hostDisconnectDeadline = o.rec.hostDisconnectDeadline
        /\ r.generation = o.rec.generation
        /\ r.currentControllerId = o.rec.currentControllerId
        /\ r.controlLeaseExpiresAt = o.rec.controlLeaseExpiresAt
        /\ r.pendingRequest = o.rec.pendingRequest
        /\ r.pendingRequestExpiresAt = o.rec.pendingRequestExpiresAt
    BY <1>0 DEF SessionRecord, State
  <2>2. reconcileRecordWithSockets(o) = updateRecord([o EXCEPT !.rec = r])
    BY <1>0, <1>3 DEF reconcileRecordWithSockets, Object
  <2> HIDE DEF r
  <2> DEFINE p == updateRecord([o EXCEPT !.rec = r])
  <2>3. /\ Settled(p)
        /\ p.stored = p.rec /\ p.hostConnected = o.hostConnected
    BY <1>1, <1>3, <2>1 DEF Valid, RecordOK
  <2> HIDE DEF p
  <2> QED BY <1>3, <2>2, <2>3 DEF p
<1>4. CASE ~o.hostConnected /\ o.rec.state = "active"
  <2> DEFINE deadline == IF o.rec.hostDisconnectDeadline = None
                         THEN now + HostGrace ELSE o.rec.hostDisconnectDeadline
             a == [o.rec EXCEPT !.pendingRequest = None, !.pendingRequestExpiresAt = None]
             b == [a EXCEPT !.currentControllerId = None, !.controlLeaseExpiresAt = None]
             r == [b EXCEPT !.hostDisconnectDeadline = deadline, !.state = "ready"]
  <2>1. deadline \in Deadline /\ deadline # None
    BY <1>0, TimingAssumption DEF SessionRecord, Deadline
  <2>2. a \in SessionRecord
    BY <1>0 DEF SessionRecord, Deadline
  <2>3. b \in SessionRecord
    BY <2>2 DEF SessionRecord, Deadline
  <2>4. /\ b.pendingRequest = None /\ b.pendingRequestExpiresAt = None
        /\ b.currentControllerId = None /\ b.controlLeaseExpiresAt = None
        /\ b.hostDisconnectDeadline = o.rec.hostDisconnectDeadline
    BY <1>0 DEF SessionRecord
  <2>5. withoutControl(o) = [o EXCEPT !.rec = b]
    BY <1>0 DEF withoutControl, withoutRequest, withoutLease, Object
  <2> HIDE DEF b
  <2>6. [[o EXCEPT !.rec = b] EXCEPT
           !.rec.hostDisconnectDeadline = IF @ = None THEN now + HostGrace ELSE @,
           !.rec.state = "ready"] = [o EXCEPT !.rec = r]
    BY <1>0, <2>3, <2>4 DEF Object
  <2>7. reconcileRecordWithSockets(o) = updateRecord([o EXCEPT !.rec = r])
    BY <1>4, <2>5, <2>6 DEF reconcileRecordWithSockets
  <2> HIDE DEF deadline
  <2>8. /\ r \in SessionRecord
        /\ r.state = "ready" /\ r.hostDisconnectDeadline = deadline
        /\ r.pendingRequest = None /\ r.pendingRequestExpiresAt = None
        /\ r.currentControllerId = None /\ r.controlLeaseExpiresAt = None
    BY <2>1, <2>3, <2>4 DEF SessionRecord, State
  <2> HIDE DEF r
  <2> DEFINE p == updateRecord([o EXCEPT !.rec = r])
  <2>9. /\ Settled(p)
        /\ p.stored = p.rec /\ p.hostConnected = o.hostConnected
    BY <1>1, <1>4, <2>1, <2>8 DEF RecordOK
  <2> HIDE DEF p
  <2> QED BY <1>4, <2>7, <2>9 DEF p
<1>5. CASE ~o.hostConnected /\ o.rec.state # "active" /\ ~(o.viewers # {} /\ o.rec.state = "idle")
  BY <1>5 DEF reconcileRecordWithSockets, Settled, Sound, Fresh
<1> QED BY <1>2, <1>3, <1>4, <1>5

LEMMA RestartSettled ==
  ASSUME now \in Nat, Settled(obj),
         NEW h \in HostSock \cup {None}, NEW viewers \in SUBSET ViewerSock,
         Restart(h, viewers)
  PROVE  /\ Settled(obj')
         /\ Saved(obj) => /\ Saved(obj')
                          /\ obj'.hostConnected => SameClaims(obj.rec, obj'.rec)
<1> DEFINE o == restoreSockets(h, viewers)
<1>1. Keepable(h, viewers)
  BY DEF Restart
<1>2. /\ Valid(o) /\ (o.hostConnected <=> o.host # None) /\ o.details = {}
      /\ o.stored = obj.stored
      /\ IF obj.stored = None
         THEN /\ o.rec.state = "idle" /\ o.rec.viewerIdentities = {}
              /\ Unclaimed(o.rec)
         ELSE o.rec = obj.stored
  BY <1>1, RestoredValid
<1>3. obj' = CASE o.rec.state = "closed" -> finishClosedSession(o)
               [] o.rec.state = "ended"  -> finishSharing(o)
               [] OTHER -> reconcileRecordWithSockets(o)
  BY DEF Restart
<1> HIDE DEF o
<1>4. Saved(obj) => SameClaims(obj.rec, o.rec)
  <2>1. obj.rec # None
    BY RecordAssumption DEF Settled, Sound, Valid, Object
  <2>2. obj.rec.state = "idle" => Unclaimed(obj.rec)
    BY DEF Settled, Sound, Valid, RecordOK, Unclaimed
  <2> QED BY <1>2, <2>1, <2>2 DEF Saved, SameClaims, Unclaimed
<1>5. CASE o.rec.state \in {"closed", "ended"}
  <2>1. Settled(obj') /\ Follows(o, obj') /\ ~obj'.hostConnected
    BY <1>2, <1>3, <1>5, FinishClosedSessionSettled, FinishSharingSettled
  <2>2. obj.stored # None /\ o.stored = o.rec
    BY <1>2, <1>5
  <2>3. obj'.stored = obj'.rec
    BY <2>1, <2>2 DEF Follows
  <2> QED BY <2>1, <2>3 DEF Saved
<1>6. CASE o.rec.state \notin {"closed", "ended"}
  <2>1. obj' = reconcileRecordWithSockets(o)
    BY <1>3, <1>6
  <2>2. /\ Settled(obj')
        /\ \/ obj'.stored = obj'.rec
           \/ /\ obj' = o
              /\ o.rec.state = "idle" => ~o.hostConnected /\ o.viewers = {}
        /\ obj'.hostConnected => SameClaims(o.rec, obj'.rec)
    BY <1>2, <2>1, ReconcileSettled
  <2>3. Saved(obj')
    BY <1>2, <2>2 DEF Saved
  <2> QED BY <1>4, <2>2, <2>3 DEF SameClaims
<1> QED BY <1>5, <1>6

----------------------------------------------------------------------------
(* The inductive invariant.                                                *)

IInv ==
  /\ now \in 0 .. MaxTime
  /\ Settled(obj)
  /\ typed \in Viewer \cup {None}

\* Nothing has happened yet: an unused record and no sockets.
LEMMA InitIInv ==
  ASSUME Init
  PROVE  IInv
<1>1. now \in Nat /\ now \in 0 .. MaxTime
  BY BoundAssumption DEF Init
<1>2. LET r == createInitialSessionRecord("idle") IN
      r \in SessionRecord /\ RecordOK(r) /\ r.state = "idle" /\ r.viewerIdentities = {}
  BY <1>1, InitialRecordOK
<1> DEFINE r == createInitialSessionRecord("idle")
<1> HIDE DEF r
<1>3. obj = [ rec |-> r,
              host |-> None, hostConnected |-> FALSE, viewers |-> {}, details |-> {},
              stored |-> None, alarm |-> None,
              sock |-> [s \in Socket |-> "free"],
              ident |-> [v \in ViewerSock |-> None],
              told |-> [s \in Socket |-> None] ]
  BY DEF Init, r
<1>4. obj \in Object
  BY <1>2, <1>3 DEF Object, Deadline, r
<1>5. Settled(obj)
  BY <1>2, <1>3, <1>4 DEF Settled, Sound, Valid, Fresh, Socket, r
<1> QED BY <1>1, <1>5 DEF IInv, Init

LEMMA HeardSettled ==
  ASSUME now \in Nat, Settled(obj)
  PROVE  Settled(Heard)
BY AdvanceAndTellSettled DEF Heard

LEMMA HostFrameSettled ==
  ASSUME now \in Nat, Settled(obj), NEW h \in HostSock,
         NEW handled, FromHost(Heard, h) => Settled(handled),
         HostFrame(h, handled)
  PROVE  Settled(obj')
BY HeardSettled DEF HostFrame

LEMMA ViewerFrameSettled ==
  ASSUME now \in Nat, Settled(obj), NEW v \in ViewerSock,
         NEW handled, Settled(handled),
         ViewerFrame(v, handled)
  PROVE  Settled(obj')
BY HeardSettled DEF ViewerFrame

LEMMA RequestActionsSettled ==
  ASSUME now \in Nat, Settled(obj)
  PROVE  /\ InitSession => Settled(obj')
         /\ GetStatus => Settled(obj')
         /\ \A h \in HostSock : ConnectHost(h) => Settled(obj')
         /\ \A v \in ViewerSock, id \in Viewer : ConnectViewer(v, id) => Settled(obj')
<1>1. ASSUME InitSession PROVE Settled(obj')
  <2> DEFINE r == createInitialSessionRecord("ready")
             p == [obj EXCEPT !.rec = r]
  <2>1. r \in SessionRecord /\ RecordOK(r) /\ r.state = "ready"
    BY InitialRecordOK
  <2> HIDE DEF r
  <2>2. /\ p \in Object /\ p.rec = r /\ p.stored = obj.stored
        /\ p.host = obj.host /\ p.hostConnected = obj.hostConnected
        /\ p.details = obj.details
        /\ p.viewers = obj.viewers /\ p.ident = obj.ident /\ p.sock = obj.sock
    BY <2>1 DEF Settled, Sound, Valid, Object
  <2>3. obj.rec.state # "active" /\ obj' = updateRecord(p)
    BY <1>1 DEF InitSession, r
  <2> HIDE DEF p
  <2>4. Settled(p)
    BY <2>1, <2>2, <2>3 DEF Settled, Sound, Valid, Fresh
  <2> QED BY <2>3, <2>4, UpdateSettled
<1>2. ASSUME GetStatus PROVE Settled(obj')
  BY <1>2, AdvanceAndPersistSettled DEF GetStatus
<1>3. ASSUME NEW h \in HostSock, ConnectHost(h) PROVE Settled(obj')
  BY <1>3, AdvanceAndPersistSettled, AcceptHostSettled DEF ConnectHost
<1>4. ASSUME NEW v \in ViewerSock, NEW id \in Viewer, ConnectViewer(v, id)
      PROVE Settled(obj')
  BY <1>4, AdvanceAndPersistSettled, AcceptViewerSettled DEF ConnectViewer
<1> QED BY <1>1, <1>2, <1>3, <1>4

LEMMA HostActionsSettled ==
  ASSUME now \in Nat, Settled(obj), NEW h \in HostSock
  PROVE  /\ HostEnds(h) => Settled(obj')
         /\ \A v \in ViewerSock : HostSnapshot(h, v) => Settled(obj')
         /\ \A id \in Viewer, ask \in LeaseAsks \cup {None} :
              HostApproves(h, id, ask) => Settled(obj')
         /\ \A id \in Viewer : HostRejects(h, id) => Settled(obj')
         /\ HostRevokes(h) => Settled(obj')
         /\ \A d \in Details, new \in BOOLEAN : HostDetail(h, d, new) => Settled(obj')
         /\ HostOutput(h) => Settled(obj')
         /\ HostBadFrame(h) => Settled(obj')
<1>0. Settled(Heard)
  BY HeardSettled
<1>1. ASSUME HostEnds(h) PROVE Settled(obj')
  <2>1. Settled(scheduleNextAlarm(finishSharing(persistRecord(
                  endSharing(Heard, "host ended")))))
    BY <1>0, EndsSettled DEF EndReasons
  <2> QED BY <1>1, <2>1, HostFrameSettled DEF HostEnds
<1>2. ASSUME NEW v \in ViewerSock, HostSnapshot(h, v) PROVE Settled(obj')
  BY <1>0, <1>2, RemoveViewersSettled DEF HostSnapshot, HostFrame
<1>3. ASSUME NEW id \in Viewer, NEW ask \in LeaseAsks \cup {None}, HostApproves(h, id, ask)
      PROVE Settled(obj')
  BY <1>0, <1>3, ApproveSettled, TouchSettled DEF HostApproves, HostFrame
<1>4. ASSUME NEW id \in Viewer, HostRejects(h, id) PROVE Settled(obj')
  BY <1>0, <1>4, RejectSettled, TouchSettled DEF HostRejects, HostFrame
<1>5. ASSUME HostRevokes(h) PROVE Settled(obj')
  BY <1>0, <1>5, RevokeSettled, TouchSettled DEF HostRevokes, HostFrame
<1>6. ASSUME NEW d \in Details, NEW new \in BOOLEAN, HostDetail(h, d, new)
      PROVE Settled(obj')
  <2>1. FromHost(Heard, h) => Heard.hostConnected
    BY <1>0, SocketAssumption DEF FromHost, Settled, Socket
  <2> DEFINE cached == IF new THEN broadcastStatus([Heard EXCEPT !.details = @ \cup {d}])
                       ELSE Heard
  <2>2. FromHost(Heard, h) => Settled(cached)
    BY <1>0, <2>1, DetailSettled
  <2>3. HostFrame(h, touchSession(cached))
    BY <1>6 DEF HostDetail
  <2> HIDE DEF cached
  <2>4. FromHost(Heard, h) => Settled(touchSession(cached))
    BY <2>2, TouchSettled
  <2> QED BY <2>3, <2>4, HostFrameSettled
<1>7. ASSUME HostOutput(h) PROVE Settled(obj')
  BY <1>0, <1>7, TouchSettled, RemoveViewersSettled DEF HostOutput, HostFrame, sendViewers
<1>8. ASSUME HostBadFrame(h) PROVE Settled(obj')
  BY <1>0, <1>8, ShutSettled DEF HostBadFrame, HostFrame
<1> QED BY <1>1, <1>2, <1>3, <1>4, <1>5, <1>6, <1>7, <1>8

LEMMA ViewerActionsSettled ==
  ASSUME now \in Nat, Settled(obj), NEW v \in ViewerSock
  PROVE  /\ ViewerTypes(v) => Settled(obj') /\ typed' \in Viewer \cup {None}
         /\ ViewerBadFrame(v) => Settled(obj')
         /\ ViewerReleases(v) => Settled(obj')
         /\ \A ask \in LeaseAsks \cup {None} :
              ViewerRequestsControl(v, ask) => Settled(obj')
         /\ ViewerAsksDetails(v) => Settled(obj')
<1>0. Settled(Heard)
  BY HeardSettled
<1>1. ASSUME ViewerTypes(v) PROVE Settled(obj') /\ typed' \in Viewer \cup {None}
  <2>1. Settled(sendHost(touchSession(Heard)))
    BY <1>0, TouchSettled, SendHostSettled
  <2>2. Heard.ident[v] \in Viewer \cup {None}
    BY <1>0 DEF Settled, Sound, Valid, Object
  <2> QED BY <1>0, <1>1, <2>1, <2>2 DEF ViewerTypes
<1>2. ASSUME ViewerBadFrame(v) PROVE Settled(obj')
  BY <1>0, <1>2, ShutSettled, ViewerFrameSettled DEF ViewerBadFrame
<1>3. ASSUME ViewerReleases(v) PROVE Settled(obj')
  BY <1>0, <1>3, RevokeSettled DEF ViewerReleases, ViewerFrame
<1>4. ASSUME NEW ask \in LeaseAsks \cup {None}, ViewerRequestsControl(v, ask)
      PROVE Settled(obj')
  BY <1>0, <1>4, RequestSettled, TouchSettled, ViewerFrameSettled DEF ViewerRequestsControl
<1>5. ASSUME ViewerAsksDetails(v) PROVE Settled(obj')
  BY <1>0, <1>5, SendHostSettled, TouchSettled, ViewerFrameSettled DEF ViewerAsksDetails
<1> QED BY <1>1, <1>2, <1>3, <1>4, <1>5

LEMMA SocketActionsSettled ==
  ASSUME now \in Nat, Settled(obj), NEW s \in Socket
  PROVE  /\ UnknownFrame(s) => Settled(obj')
         /\ PeerGone(s) => Settled(obj')
         /\ CloseEvent(s) => Settled(obj')
<1>1. ASSUME UnknownFrame(s) PROVE Settled(obj')
  BY <1>1, HeardSettled DEF UnknownFrame
<1>2. ASSUME PeerGone(s) PROVE Settled(obj')
  BY <1>2, ShutSettled DEF PeerGone
<1>3. ASSUME CloseEvent(s) PROVE Settled(obj')
  <2>1. Settled(handleClose(obj, s))
        /\ (s \in ViewerSock => s \notin handleClose(obj, s).viewers)
    BY CloseSettled
  <2> QED BY <1>3, <2>1, ReleaseSettled DEF CloseEvent
<1> QED BY <1>1, <1>2, <1>3

LEMMA AlarmSettled ==
  ASSUME now \in Nat, Settled(obj), AlarmFires
  PROVE  Settled(obj')
<1> DEFINE o == [obj EXCEPT !.alarm = None]
<1>1. /\ o \in Object /\ o.rec = obj.rec /\ o.stored = obj.stored
      /\ o.host = obj.host /\ o.hostConnected = obj.hostConnected
      /\ o.details = obj.details
      /\ o.viewers = obj.viewers /\ o.ident = obj.ident /\ o.sock = obj.sock
  BY DEF Settled, Sound, Valid, Object, Deadline
<1>2. obj' = scheduleNextAlarm(advanceAndTell(o))
  BY DEF AlarmFires
<1> HIDE DEF o
<1>3. Settled(o)
  BY <1>1 DEF Settled, Sound, Valid, Fresh
<1> QED BY <1>2, <1>3, AdvanceAndTellSettled, ScheduleSettled

\* One step of the specification: an event, the alarm, the clock, or nothing.
LEMMA StepIInv ==
  ASSUME IInv, [Next]_vars
  PROVE  IInv'
<1>1. now \in Nat /\ Settled(obj)
  BY BoundAssumption DEF IInv
<1>2. CASE Event
  <2>1. now' = now
    BY <1>2 DEF Event, InitSession, GetStatus, ConnectHost, HostEnds, HostSnapshot,
                HostApproves, HostRejects, HostRevokes, HostDetail, HostOutput, HostBadFrame,
                HostFrame, ConnectViewer, ViewerTypes, ViewerBadFrame, ViewerReleases,
                ViewerRequestsControl, ViewerAsksDetails, ViewerFrame, UnknownFrame,
                PeerGone, CloseEvent, Restart
  <2>2. CASE InitSession \/ GetStatus
    BY <1>1, <2>1, <2>2, RequestActionsSettled DEF IInv, InitSession, GetStatus
  <2>3. ASSUME NEW h \in HostSock, ConnectHost(h) PROVE IInv'
    BY <1>1, <2>1, <2>3, RequestActionsSettled DEF IInv, ConnectHost
  <2>4. ASSUME NEW h \in HostSock,
               \/ HostEnds(h)
               \/ \E v \in ViewerSock : HostSnapshot(h, v)
               \/ \E id \in Viewer, ask \in LeaseAsks \cup {None} : HostApproves(h, id, ask)
               \/ \E id \in Viewer : HostRejects(h, id)
               \/ HostRevokes(h)
               \/ \E d \in Details, new \in BOOLEAN : HostDetail(h, d, new)
               \/ HostOutput(h)
               \/ HostBadFrame(h)
        PROVE  IInv'
    <3>1. Settled(obj')
      BY <1>1, <2>4, HostActionsSettled
    <3>2. typed' = None
      BY <2>4 DEF HostEnds, HostSnapshot, HostApproves, HostRejects, HostRevokes,
                  HostDetail, HostOutput, HostBadFrame, HostFrame
    <3> QED BY <2>1, <3>1, <3>2 DEF IInv
  <2>5. ASSUME NEW v \in ViewerSock, NEW id \in Viewer, ConnectViewer(v, id) PROVE IInv'
    BY <1>1, <2>1, <2>5, RequestActionsSettled DEF IInv, ConnectViewer
  <2>6. ASSUME NEW v \in ViewerSock, ViewerTypes(v) PROVE IInv'
    BY <1>1, <2>1, <2>6, ViewerActionsSettled DEF IInv
  <2>7. ASSUME NEW v \in ViewerSock,
               \/ ViewerBadFrame(v)
               \/ ViewerReleases(v)
               \/ \E ask \in LeaseAsks \cup {None} : ViewerRequestsControl(v, ask)
               \/ ViewerAsksDetails(v)
        PROVE  IInv'
    <3>1. Settled(obj')
      BY <1>1, <2>7, ViewerActionsSettled
    <3>2. typed' = None
      BY <2>7 DEF ViewerBadFrame, ViewerReleases, ViewerRequestsControl,
                  ViewerAsksDetails, ViewerFrame
    <3> QED BY <2>1, <3>1, <3>2 DEF IInv
  <2>8. ASSUME NEW s \in Socket, UnknownFrame(s) \/ PeerGone(s) \/ CloseEvent(s)
        PROVE  IInv'
    <3>1. Settled(obj')
      BY <1>1, <2>8, SocketActionsSettled
    <3>2. typed' = None
      BY <2>8 DEF UnknownFrame, PeerGone, CloseEvent
    <3> QED BY <2>1, <3>1, <3>2 DEF IInv
  <2>9. ASSUME NEW h \in HostSock \cup {None}, NEW viewers \in SUBSET ViewerSock,
               Restart(h, viewers)
        PROVE  IInv'
    BY <1>1, <2>1, <2>9, RestartSettled DEF IInv, Restart
  <2> QED BY <1>2, <2>2, <2>3, <2>4, <2>5, <2>6, <2>7, <2>8, <2>9 DEF Event
<1>3. CASE AlarmFires
  BY <1>1, <1>3, AlarmSettled DEF IInv, AlarmFires
<1>4. CASE Tick
  BY <1>1, <1>4, BoundAssumption DEF IInv, Tick
<1>5. CASE UNCHANGED vars
  BY <1>5 DEF IInv, vars
<1> QED BY <1>2, <1>3, <1>4, <1>5 DEF Next

THEOREM Invariance == Spec => []IInv
<1>1. Init => IInv
  BY InitIInv
<1>2. IInv /\ [Next]_vars => IInv'
  BY StepIInv
<1> QED BY <1>1, <1>2, PTL DEF Spec

----------------------------------------------------------------------------
(* The properties.                                                         *)

\* The state keeps its types: leases are clamped, deadlines are times,
\* senders of requests are viewers the object knows (normalizeLeaseSeconds,
\* handleControlRequest).
THEOREM TypeCorrect == Spec => []TypeOK
<1>1. IInv => TypeOK
  BY DEF IInv, TypeOK, Settled, Sound, Valid
<1> QED BY <1>1, Invariance, PTL

\* Memory and record agree on the host after every handler, restarts included
\* (acceptSocket, clearHost, finishSharing, reconcileRecordWithSockets).
THEOREM HostIsPresent == Spec => []HostPresence
<1>1. IInv => HostPresence
  BY SocketAssumption DEF IInv, HostPresence, Settled, Sound, Valid, RecordOK, Fresh
<1> QED BY <1>1, Invariance, PTL

\* No request and no control without a host, never both, and each with a
\* deadline (handleControlRequest, handleControlApprove, clearHost).
THEOREM ControlIsHosted == Spec => []ControlNeedsHost
<1>1. IInv => ControlNeedsHost
  BY DEF IInv, ControlNeedsHost, Settled, Sound, Valid, RecordOK
<1> QED BY <1>1, Invariance, PTL

\* A session that lost its host counts down to the end of the sharing
\* (clearHost, reconcileRecordWithSockets, advanceRecord).
THEOREM GraceIsRunning == Spec => []GraceRuns
<1>1. IInv => GraceRuns
  BY DEF IInv, GraceRuns, Settled, Sound, Valid, RecordOK
<1> QED BY <1>1, Invariance, PTL
=============================================================================
