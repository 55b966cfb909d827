-------------------------- MODULE SessionDOControl --------------------------
(***************************************************************************)
(* Proofs that the session object implements RemoteControl, that storage   *)
(* always holds the current record, and that forwarded input was covered   *)
(* by a lease.                                                             *)
(*                                                                         *)
(* The abstract specification sees claims that are still in force; the     *)
(* object keeps claims until it next looks at its deadlines.  So the proof *)
(* compares objects by their claims in force, and shows that what a        *)
(* handler finds after it has applied the deadlines is exactly that.       *)
(***************************************************************************)
EXTENDS SessionDOProofs

----------------------------------------------------------------------------
(* Claims in force.                                                        *)

\* What the abstract specification sees of an object.
asking(o) == IF o.rec.pendingRequest = None THEN None ELSE o.rec.pendingRequest.viewerId
asked(o) == claim(asking(o), o.rec.pendingRequestExpiresAt)
granted(o) == claim(o.rec.currentControllerId, o.rec.controlLeaseExpiresAt)

\* Claims may be dropped and the host may be lost, and nothing else.
Fewer(o, p) ==
  p.hostConnected =>
    /\ o.hostConnected
    /\ asked(p) \in {asked(o), None}
    /\ granted(p) \in {granted(o), None}

\* No claim is dropped while there is a host, and none is kept past its time.
Exact(o, p) ==
  p.hostConnected =>
    /\ o.hostConnected
    /\ asked(p) = asked(o)
    /\ granted(p) = granted(o)
    /\ ~Due(p.rec.pendingRequestExpiresAt)
    /\ ~Due(p.rec.controlLeaseExpiresAt)

LEMMA ClaimsOfSame ==
  ASSUME NEW o, NEW p, SameClaims(o.rec, p.rec)
  PROVE  asked(p) = asked(o) /\ granted(p) = granted(o)
BY DEF SameClaims, asked, granted, asking

LEMMA NoClaims ==
  ASSUME NEW o, Unclaimed(o.rec)
  PROVE  asked(o) = None /\ granted(o) = None
BY DEF Unclaimed, asked, granted, claim, asking

\* Without a host there is nothing to claim, and nobody can claim twice.
LEMMA SettledClaims ==
  ASSUME NEW o, Settled(o)
  PROVE  /\ ~o.hostConnected => Unclaimed(o.rec) /\ asked(o) = None /\ granted(o) = None
         /\ asked(o) = None \/ granted(o) = None
<1>1. /\ o.rec.currentControllerId = None \/ o.rec.pendingRequest = None
      /\ ~o.hostConnected => Unclaimed(o.rec)
  BY DEF Settled, Sound, Valid, RecordOK, Unclaimed
<1>2. /\ o.rec.currentControllerId = None => granted(o) = None
      /\ o.rec.pendingRequest = None => asked(o) = None
  BY DEF asked, granted, claim, asking
<1> QED BY <1>1, <1>2, NoClaims

LEMMA FollowsFewer ==
  ASSUME NEW o, NEW p, Follows(o, p)
  PROVE  /\ Fewer(o, p)
         /\ p.hostConnected => granted(p) = granted(o)
<1>1. ASSUME p.hostConnected
      PROVE  /\ granted(p) = granted(o)
             /\ asked(p) \in {asked(o), None}
             /\ o.hostConnected
  BY <1>1 DEF Follows, asked, granted, claim, asking
<1> QED BY <1>1 DEF Fewer

LEMMA FewerTransitive ==
  ASSUME NEW o, NEW p, NEW q, Fewer(o, p), Fewer(p, q)
  PROVE  Fewer(o, q)
BY DEF Fewer

LEMMA ExactFewer ==
  ASSUME NEW o, NEW p, Exact(o, p)
  PROVE  Fewer(o, p)
BY DEF Fewer, Exact

LEMMA WithoutRequestFewer ==
  ASSUME NEW o, Settled(o)
  PROVE  Fewer(o, withoutRequest(o))
<1> DEFINE p == withoutRequest(o)
<1>1. /\ p.hostConnected = o.hostConnected
      /\ p.rec.pendingRequest = None /\ p.rec.pendingRequestExpiresAt = None
      /\ p.rec.currentControllerId = o.rec.currentControllerId
      /\ p.rec.controlLeaseExpiresAt = o.rec.controlLeaseExpiresAt
  BY WithoutRequestSound DEF Settled
<1> HIDE DEF p
<1>2. Fewer(o, p)
  BY <1>1 DEF Fewer, asked, granted, claim, asking
<1> QED BY <1>2 DEF p

LEMMA WithoutLeaseFewer ==
  ASSUME NEW o, Settled(o)
  PROVE  Fewer(o, withoutLease(o))
<1> DEFINE p == withoutLease(o)
<1>1. /\ p.hostConnected = o.hostConnected
      /\ p.rec.currentControllerId = None /\ p.rec.controlLeaseExpiresAt = None
      /\ p.rec.pendingRequest = o.rec.pendingRequest
      /\ p.rec.pendingRequestExpiresAt = o.rec.pendingRequestExpiresAt
  BY WithoutLeaseSound DEF Settled
<1> HIDE DEF p
<1>2. Fewer(o, p)
  BY <1>1 DEF Fewer, asked, granted, claim, asking
<1> QED BY <1>2 DEF p

----------------------------------------------------------------------------
(* Deadlines: only claims whose time is up are dropped.                    *)

LEMMA ExpireExact ==
  ASSUME now \in Nat, NEW o, Settled(o)
  PROVE  LET e == expireLease(expireRequest(o)) IN
         /\ asked(e) = asked(o) /\ granted(e) = granted(o)
         /\ ~Due(e.rec.pendingRequestExpiresAt)
         /\ ~Due(e.rec.controlLeaseExpiresAt)
         /\ e = o \/ Unclaimed(e.rec)
<1>0. /\ o.rec.pendingRequestExpiresAt \in Deadline
      /\ o.rec.controlLeaseExpiresAt \in Deadline
      /\ o.rec.currentControllerId = None \/ o.rec.pendingRequest = None
      /\ o.rec.currentControllerId # None <=> o.rec.controlLeaseExpiresAt # None
      /\ o.rec.pendingRequest # None <=> o.rec.pendingRequestExpiresAt # None
  BY DEF Settled, Sound, Valid, RecordOK, Object, SessionRecord
<1>1. ~Due(None)
  BY DEF Due
<1>2. CASE Due(o.rec.pendingRequestExpiresAt)
  <2> DEFINE q == withoutRequest(o)
  <2>1. /\ q.rec.pendingRequest = None /\ q.rec.pendingRequestExpiresAt = None
        /\ q.rec.currentControllerId = o.rec.currentControllerId
        /\ q.rec.controlLeaseExpiresAt = o.rec.controlLeaseExpiresAt
    BY WithoutRequestSound DEF Settled
  <2>2. Unclaimed(q.rec)
    BY <1>0, <1>2, <2>1 DEF Due, Unclaimed
  <2> HIDE DEF q
  <2>3. expireLease(expireRequest(o)) = q
    BY <1>1, <1>2, <2>2 DEF expireLease, expireRequest, Unclaimed, q
  <2>4. asked(o) = None /\ granted(o) = None
    BY <1>0, <1>2 DEF Due, asked, granted, claim, asking, Deadline
  <2> QED BY <1>1, <2>2, <2>3, <2>4, NoClaims DEF Unclaimed
<1>3. CASE ~Due(o.rec.pendingRequestExpiresAt) /\ Due(o.rec.controlLeaseExpiresAt)
  <2> DEFINE q == withoutLease(o)
  <2>1. /\ q.rec.currentControllerId = None /\ q.rec.controlLeaseExpiresAt = None
        /\ q.rec.pendingRequest = o.rec.pendingRequest
        /\ q.rec.pendingRequestExpiresAt = o.rec.pendingRequestExpiresAt
    BY WithoutLeaseSound DEF Settled
  <2>2. Unclaimed(q.rec)
    BY <1>0, <1>3, <2>1 DEF Due, Unclaimed
  <2> HIDE DEF q
  <2>3. expireLease(expireRequest(o)) = q
    BY <1>3 DEF expireLease, expireRequest, q
  <2>4. asked(o) = None /\ granted(o) = None
    BY <1>0, <1>3 DEF Due, asked, granted, claim, asking, Deadline
  <2> QED BY <1>1, <2>2, <2>3, <2>4, NoClaims DEF Unclaimed
<1>4. CASE ~Due(o.rec.pendingRequestExpiresAt) /\ ~Due(o.rec.controlLeaseExpiresAt)
  BY <1>4 DEF expireLease, expireRequest
<1> QED BY <1>2, <1>3, <1>4

\* advanceRecordAndPersist keeps the claims in force, or ends everything; if
\* it changes anything and the host stays, nobody had a claim in force.
LEMMA PersistExact ==
  ASSUME now \in Nat, NEW o, Settled(o)
  PROVE  LET p == advanceRecordAndPersist(o) IN
         /\ Exact(o, p)
         /\ IF Advances(o)
            THEN p.stored = p.rec /\ (p.hostConnected => Unclaimed(p.rec))
            ELSE p = o
<1> DEFINE e == expireLease(expireRequest(o))
           a == advanceRecord(o)
           p1 == persistRecord(a)
           p == advanceRecordAndPersist(o)
<1>1. /\ asked(e) = asked(o) /\ granted(e) = granted(o)
      /\ ~Due(e.rec.pendingRequestExpiresAt)
      /\ ~Due(e.rec.controlLeaseExpiresAt)
      /\ e = o \/ Unclaimed(e.rec)
  BY ExpireExact
<1>2. Sound(e) /\ SameMemory(o, e)
  BY ExpireSound DEF Settled
<1> HIDE DEF e
<1>3. /\ Sound(followHost(e)) /\ SameMemory(e, followHost(e))
      /\ SameClaims(e.rec, followHost(e).rec)
      /\ e.hostConnected => followHost(e) = e
  BY <1>2, FollowHostSound
<1>4. \/ a.rec.state = "closed"
      \/ a.rec.state = "ended"
      \/ a = followHost(e) /\ ~Due(o.rec.sessionExpiresAt)
  <2>1. closeSession(o, "session expired").rec.state = "closed"
    BY CloseSessionSound DEF EndReasons, Settled
  <2>2. endSharing(e, "host disconnected").rec.state = "ended"
    BY <1>2, EndSharingSound DEF EndReasons
  <2> QED BY <2>1, <2>2 DEF advanceRecord, e
<1>5. Sound(a)
  BY AdvanceRecordSound
<1>6. CASE ~Advances(o)
  <2>1. p = o /\ a = o /\ ~Due(o.rec.sessionExpiresAt)
    BY <1>6 DEF advanceRecordAndPersist, Advances
  <2>2. ASSUME o.hostConnected
        PROVE  ~Due(o.rec.pendingRequestExpiresAt) /\ ~Due(o.rec.controlLeaseExpiresAt)
    <3>1. o.rec.state = "active"
      BY <2>2 DEF Settled, Sound
    <3>2. o = followHost(e)
      BY <1>4, <2>1, <3>1
    <3> QED BY <1>1, <1>3, <3>2 DEF SameClaims
  <2> QED BY <1>6, <2>1, <2>2 DEF Exact
<1>7. CASE Advances(o)
  <2>1. Sound(p1) /\ p1.rec = a.rec /\ p1.stored = p1.rec /\ p1.hostConnected = a.hostConnected
    BY <1>5, PersistSound DEF Sound, Valid, Object
  <2>2. p = IF a.rec.state = "closed" THEN finishClosedSession(p1)
            ELSE IF a.rec.state = "ended" THEN finishSharing(p1) ELSE p1
    BY <1>7, <2>1 DEF advanceRecordAndPersist
  <2>2a. (a = o) => Due(o.rec.sessionExpiresAt)
    BY <1>7 DEF Advances
  <2> HIDE DEF p, p1, a
  <2>3. CASE a.rec.state \in {"closed", "ended"}
    <3>1. Follows(p1, p) /\ ~p.hostConnected
      BY <2>1, <2>2, <2>3, FinishClosedSessionSettled, FinishSharingSettled DEF Sound
    <3>2. p.stored = p.rec
      BY <2>1, <3>1 DEF Follows
    <3> QED BY <1>7, <3>1, <3>2 DEF Exact, p
  <2>4. CASE a.rec.state \notin {"closed", "ended"}
    <3>1. /\ p = p1 /\ a = followHost(e) /\ ~Due(o.rec.sessionExpiresAt)
          /\ SameClaims(e.rec, p.rec) /\ p.hostConnected = e.hostConnected
      BY <1>3, <1>4, <2>1, <2>2, <2>4 DEF SameMemory
    <3>2. asked(p) = asked(o) /\ granted(p) = granted(o)
      BY <1>1, <3>1, ClaimsOfSame
    <3>3. Exact(o, p)
      BY <1>1, <1>2, <3>1, <3>2 DEF Exact, SameClaims, SameMemory
    <3>4. ASSUME p.hostConnected PROVE Unclaimed(p.rec)
      <4>1. a = e
        BY <1>3, <3>1, <3>4
      <4>2. e # o
        BY <2>2a, <3>1, <4>1
      <4>3. Unclaimed(e.rec)
        BY <1>1, <4>2
      <4> QED BY <3>1, <4>3 DEF SameClaims, Unclaimed
    <3> QED BY <1>7, <2>1, <3>1, <3>3, <3>4 DEF p
  <2> QED BY <2>3, <2>4
<1> QED BY <1>6, <1>7

LEMMA TellExact ==
  ASSUME now \in Nat, NEW o, Settled(o)
  PROVE  LET p == advanceAndTell(o) IN
         /\ Exact(o, p)
         /\ p = o \/ p.stored = p.rec
<1> DEFINE q == advanceRecordAndPersist(o)
           b == broadcastStatus(q)
<1>1. /\ Settled(q)
      /\ Exact(o, q)
      /\ IF Advances(o)
         THEN q.stored = q.rec /\ (q.hostConnected => Unclaimed(q.rec))
         ELSE q = o
  BY AdvanceAndPersistSettled, PersistExact
<1>2. advanceAndTell(o) = IF Advances(o) THEN b ELSE o
  BY DEF advanceAndTell
<1> HIDE DEF q
<1>3. Settled(b) /\ Follows(q, b)
  BY <1>1, BroadcastSettled, BroadcastSound DEF Settled, Reaches
<1> HIDE DEF b
<1>4. CASE Advances(o)
  <2>1. b.stored = b.rec
    BY <1>1, <1>3, <1>4 DEF Follows
  <2>2. ASSUME b.hostConnected
        PROVE  Unclaimed(b.rec) /\ Unclaimed(q.rec) /\ q.hostConnected
    BY <1>1, <1>3, <1>4, <2>2 DEF Follows, Unclaimed
  <2>3. Exact(o, b)
    BY <1>1, <2>2, NoClaims DEF Exact, Unclaimed, Due
  <2> QED BY <1>2, <1>4, <2>1, <2>3
<1> QED BY <1>1, <1>2, <1>4

----------------------------------------------------------------------------
(* Handlers that at most drop claims.                                      *)

Quiet(o, p) == Fewer(o, p) /\ (Saved(o) => Saved(p))

LEMMA QuietTransitive ==
  ASSUME NEW o, NEW p, NEW q, Quiet(o, p), Quiet(p, q)
  PROVE  Quiet(o, q)
BY FewerTransitive DEF Quiet

LEMMA QuietReflexive ==
  ASSUME NEW o
  PROVE  Quiet(o, o)
BY DEF Quiet, Fewer

LEMMA FollowsQuiet ==
  ASSUME NEW o, NEW p, Follows(o, p), p.viewers \subseteq o.viewers
  PROVE  Quiet(o, p)
BY FollowsFewer DEF Quiet, Saved, Follows

LEMMA WrittenQuiet ==
  ASSUME NEW o, NEW p, Fewer(o, p), p.stored = p.rec
  PROVE  Quiet(o, p)
BY DEF Quiet, Saved

LEMMA TouchQuiet ==
  ASSUME now \in Nat, NEW o, Settled(o)
  PROVE  Settled(touchSession(o)) /\ Quiet(o, touchSession(o))
<1>1. /\ Settled(touchSession(o)) /\ Follows(o, touchSession(o))
      /\ touchSession(o).viewers \subseteq o.viewers
  BY TouchSettled
<1> QED BY <1>1, FollowsQuiet

LEMMA SendHostQuiet ==
  ASSUME now \in Nat, NEW o, Settled(o)
  PROVE  Settled(sendHost(o)) /\ Quiet(o, sendHost(o))
BY SendHostSettled, SendHostSound, FollowsQuiet DEF Settled, Reaches

LEMMA BroadcastQuiet ==
  ASSUME now \in Nat, NEW o, Settled(o)
  PROVE  Settled(broadcastStatus(o)) /\ Quiet(o, broadcastStatus(o))
BY BroadcastSettled, BroadcastSound, FollowsQuiet DEF Settled, Reaches

LEMMA RemoveViewersQuiet ==
  ASSUME NEW o, Settled(o), NEW gone
  PROVE  Settled(removeViewers(o, gone)) /\ Quiet(o, removeViewers(o, gone))
<1>1. /\ Settled(removeViewers(o, gone)) /\ Follows(o, removeViewers(o, gone))
      /\ removeViewers(o, gone).viewers \subseteq o.viewers
  BY RemoveViewersSettled, RemoveViewersSound DEF Settled
<1> QED BY <1>1, FollowsQuiet

LEMMA ShutQuiet ==
  ASSUME NEW o, Settled(o), NEW sockets
  PROVE  Settled(Shut(o, sockets)) /\ Quiet(o, Shut(o, sockets))
<1> DEFINE p == Shut(o, sockets)
<1>1. /\ Settled(p)
      /\ p.rec = o.rec /\ p.stored = o.stored /\ p.viewers = o.viewers
      /\ p.hostConnected = o.hostConnected
  BY ShutSettled, ShutSound DEF Settled
<1> HIDE DEF p
<1>2. Follows(o, p)
  BY <1>1 DEF Follows
<1>3. Quiet(o, p)
  BY <1>1, <1>2, FollowsQuiet
<1> QED BY <1>1, <1>3 DEF p

LEMMA RejectQuiet ==
  ASSUME now \in Nat, NEW o, Settled(o), NEW id
  PROVE  LET p == handleControlReject(o, id) IN Settled(p) /\ Quiet(o, p)
<1> DEFINE p == handleControlReject(o, id)
           w == withoutRequest(o)
<1>1. Settled(p) /\ (p = o \/ (p.stored = p.rec /\ Follows(w, p)))
  BY RejectSettled
<1>2. Fewer(o, w)
  BY WithoutRequestFewer
<1> HIDE DEF p, w
<1>3. Quiet(o, p)
  BY <1>1, <1>2, QuietReflexive, FollowsFewer, FewerTransitive, WrittenQuiet
<1> QED BY <1>1, <1>3 DEF p

LEMMA RevokeQuiet ==
  ASSUME now \in Nat, NEW o, Settled(o)
  PROVE  LET p == handleControlRevoke(o) IN Settled(p) /\ Quiet(o, p)
<1> DEFINE p == handleControlRevoke(o)
           w == withoutLease(o)
<1>1. Settled(p) /\ (p = o \/ (p.stored = p.rec /\ Follows(w, p)))
  BY RevokeSettled
<1>2. Fewer(o, w)
  BY WithoutLeaseFewer
<1> HIDE DEF p, w
<1>3. Quiet(o, p)
  BY <1>1, <1>2, QuietReflexive, FollowsFewer, FewerTransitive, WrittenQuiet
<1> QED BY <1>1, <1>3 DEF p

LEMMA HeardQuiet ==
  ASSUME now \in Nat, Settled(obj)
  PROVE  Settled(Heard) /\ Quiet(obj, Heard)
<1>1. Settled(Heard) /\ Exact(obj, Heard) /\ (Heard = obj \/ Heard.stored = Heard.rec)
  BY HeardSettled, TellExact DEF Heard
<1> QED BY <1>1, ExactFewer, QuietReflexive, WrittenQuiet

LEMMA PersistQuiet ==
  ASSUME now \in Nat, NEW o, Settled(o)
  PROVE  LET p == advanceRecordAndPersist(o) IN Settled(p) /\ Quiet(o, p) /\ Exact(o, p)
<1> DEFINE p == advanceRecordAndPersist(o)
<1>1. Settled(p) /\ Exact(o, p) /\ (p = o \/ p.stored = p.rec)
  BY AdvanceAndPersistSettled, PersistExact
<1> HIDE DEF p
<1>2. Quiet(o, p)
  BY <1>1, ExactFewer, QuietReflexive, WrittenQuiet
<1> QED BY <1>1, <1>2 DEF p

LEMMA HostActionsQuiet ==
  ASSUME now \in Nat, Settled(obj), NEW h \in HostSock
  PROVE  /\ HostEnds(h) => Quiet(obj, obj')
         /\ \A v \in ViewerSock : HostSnapshot(h, v) => Quiet(obj, obj')
         /\ \A id \in Viewer : HostRejects(h, id) => Quiet(obj, obj')
         /\ HostRevokes(h) => Quiet(obj, obj')
         /\ \A d \in Details, new \in BOOLEAN : HostDetail(h, d, new) => Quiet(obj, obj')
         /\ HostOutput(h) => Quiet(obj, obj')
         /\ HostBadFrame(h) => Quiet(obj, obj')
<1>0. Settled(Heard) /\ Quiet(obj, Heard)
  BY HeardQuiet
<1>1. ASSUME NEW handled, FromHost(Heard, h) => Quiet(Heard, handled), HostFrame(h, handled)
      PROVE  Quiet(obj, obj')
  BY <1>0, <1>1, QuietTransitive DEF HostFrame
<1>2. ASSUME HostEnds(h) PROVE Quiet(obj, obj')
  <2> DEFINE e == scheduleNextAlarm(finishSharing(persistRecord(endSharing(Heard, "host ended"))))
  <2>1. e.stored = e.rec /\ ~e.hostConnected
    BY <1>0, EndsSettled DEF EndReasons
  <2>2. HostFrame(h, e)
    BY <1>2 DEF HostEnds
  <2> HIDE DEF e
  <2>3. Quiet(Heard, e)
    BY <2>1, WrittenQuiet DEF Fewer
  <2> QED BY <1>1, <2>2, <2>3
<1>3. ASSUME NEW v \in ViewerSock, HostSnapshot(h, v) PROVE Quiet(obj, obj')
  BY <1>0, <1>1, <1>3, RemoveViewersQuiet, QuietReflexive DEF HostSnapshot
<1>4. ASSUME NEW id \in Viewer, HostRejects(h, id) PROVE Quiet(obj, obj')
  <2>1. Quiet(Heard, touchSession(handleControlReject(Heard, id)))
    BY <1>0, RejectQuiet, TouchQuiet, QuietTransitive
  <2> QED BY <1>1, <1>4, <2>1 DEF HostRejects
<1>5. ASSUME HostRevokes(h) PROVE Quiet(obj, obj')
  <2>1. Quiet(Heard, touchSession(handleControlRevoke(Heard)))
    BY <1>0, RevokeQuiet, TouchQuiet, QuietTransitive
  <2> QED BY <1>1, <1>5, <2>1 DEF HostRevokes
<1>6. ASSUME NEW d \in Details, NEW new \in BOOLEAN, HostDetail(h, d, new)
      PROVE Quiet(obj, obj')
  <2> DEFINE cached == IF new THEN broadcastStatus([Heard EXCEPT !.details = @ \cup {d}])
                       ELSE Heard
  <2>1. FromHost(Heard, h) => Heard.hostConnected
    BY <1>0, SocketAssumption DEF FromHost, Settled, Socket
  <2>2. FromHost(Heard, h) => Settled(cached) /\ Quiet(Heard, cached)
    BY <1>0, <2>1, DetailSettled, FollowsQuiet, QuietReflexive
  <2>3. HostFrame(h, touchSession(cached))
    BY <1>6 DEF HostDetail
  <2> HIDE DEF cached
  <2>4. FromHost(Heard, h) => Quiet(Heard, touchSession(cached))
    BY <2>2, TouchQuiet, QuietTransitive
  <2> QED BY <1>1, <2>3, <2>4
<1>7. ASSUME HostOutput(h) PROVE Quiet(obj, obj')
  <2>1. Quiet(Heard, sendViewers(touchSession(Heard)))
    BY <1>0, TouchQuiet, RemoveViewersQuiet, QuietTransitive DEF sendViewers
  <2> QED BY <1>1, <1>7, <2>1 DEF HostOutput
<1>8. ASSUME HostBadFrame(h) PROVE Quiet(obj, obj')
  BY <1>0, <1>1, <1>8, ShutQuiet DEF HostBadFrame
<1> QED BY <1>2, <1>3, <1>4, <1>5, <1>6, <1>7, <1>8

LEMMA ViewerActionsQuiet ==
  ASSUME now \in Nat, Settled(obj), NEW v \in ViewerSock
  PROVE  /\ ViewerTypes(v) => Quiet(obj, obj')
         /\ ViewerBadFrame(v) => Quiet(obj, obj')
         /\ ViewerReleases(v) => Quiet(obj, obj')
         /\ ViewerAsksDetails(v) => Quiet(obj, obj')
<1>0. Settled(Heard) /\ Quiet(obj, Heard)
  BY HeardQuiet
<1>1. ASSUME NEW handled, Quiet(Heard, handled), ViewerFrame(v, handled)
      PROVE  Quiet(obj, obj')
  BY <1>0, <1>1, QuietTransitive DEF ViewerFrame
<1>2. ASSUME ViewerTypes(v) PROVE Quiet(obj, obj')
  <2>1. Quiet(Heard, sendHost(touchSession(Heard)))
    BY <1>0, TouchQuiet, SendHostQuiet, QuietTransitive
  <2> QED BY <1>0, <1>2, <2>1, QuietTransitive DEF ViewerTypes
<1>3. ASSUME ViewerBadFrame(v) PROVE Quiet(obj, obj')
  BY <1>0, <1>1, <1>3, ShutQuiet DEF ViewerBadFrame
<1>4. ASSUME ViewerReleases(v) PROVE Quiet(obj, obj')
  BY <1>0, <1>1, <1>4, RevokeQuiet, QuietReflexive DEF ViewerReleases
<1>5. ASSUME ViewerAsksDetails(v) PROVE Quiet(obj, obj')
  <2>1. Quiet(Heard, touchSession(sendHost(Heard)))
    BY <1>0, SendHostQuiet, TouchQuiet, QuietTransitive
  <2> QED BY <1>1, <1>5, <2>1 DEF ViewerAsksDetails
<1> QED BY <1>2, <1>3, <1>4, <1>5

LEMMA OtherActionsQuiet ==
  ASSUME now \in Nat, Settled(obj)
  PROVE  /\ InitSession => Quiet(obj, obj')
         /\ GetStatus => Quiet(obj, obj')
         /\ \A v \in ViewerSock, id \in Viewer :
              ConnectViewer(v, id) => Quiet(obj, obj')
         /\ \A s \in Socket : UnknownFrame(s) \/ PeerGone(s) \/ CloseEvent(s) => Quiet(obj, obj')
         /\ AlarmFires => Quiet(obj, obj')
<1>1. ASSUME InitSession PROVE Quiet(obj, obj')
  <2> DEFINE p == [obj EXCEPT !.rec = createInitialSessionRecord("ready")]
  <2>1. /\ createInitialSessionRecord("ready") \in SessionRecord
        /\ RecordOK(createInitialSessionRecord("ready"))
        /\ createInitialSessionRecord("ready").state = "ready"
    BY InitialRecordOK
  <2>2. /\ p \in Object /\ p.rec = createInitialSessionRecord("ready") /\ p.stored = obj.stored
        /\ p.host = obj.host /\ p.hostConnected = obj.hostConnected
        /\ p.details = obj.details
        /\ p.viewers = obj.viewers /\ p.ident = obj.ident /\ p.sock = obj.sock
    BY <2>1 DEF Settled, Sound, Valid, Object
  <2>3. obj.rec.state # "active" /\ obj' = updateRecord(p)
    BY <1>1 DEF InitSession
  <2> HIDE DEF p
  <2>4. Sound(p) /\ ~p.hostConnected
    BY <2>1, <2>2, <2>3 DEF Settled, Sound, Valid
  <2>5. obj'.stored = obj'.rec /\ ~obj'.hostConnected
    BY <2>3, <2>4, UpdateSound
  <2> QED BY <2>5, WrittenQuiet DEF Fewer
<1>2. ASSUME GetStatus PROVE Quiet(obj, obj')
  BY <1>2, PersistQuiet DEF GetStatus
<1>3. ASSUME NEW v \in ViewerSock, NEW id \in Viewer, ConnectViewer(v, id)
      PROVE  Quiet(obj, obj')
  <2> DEFINE o == advanceRecordAndPersist(obj)
  <2>1. Settled(o) /\ Quiet(obj, o)
    BY PersistQuiet
  <2>2. obj' = IF o.rec.state = "closed" THEN o ELSE acceptViewer(o, v, id)
    BY <1>3 DEF ConnectViewer
  <2> HIDE DEF o
  <2>3. /\ Follows(o, acceptViewer(o, v, id))
        /\ Saved(o) => Saved(acceptViewer(o, v, id))
    BY <2>1, AcceptViewerSettled DEF Saved
  <2>4. Quiet(o, acceptViewer(o, v, id))
    BY <2>3, FollowsFewer DEF Quiet
  <2> QED BY <2>1, <2>2, <2>4, QuietTransitive
<1>4. ASSUME NEW s \in Socket, UnknownFrame(s) PROVE Quiet(obj, obj')
  BY <1>4, HeardQuiet DEF UnknownFrame
<1>5. ASSUME NEW s \in Socket, PeerGone(s) PROVE Quiet(obj, obj')
  BY <1>5, ShutQuiet DEF PeerGone
<1>6. ASSUME NEW s \in Socket, CloseEvent(s) PROVE Quiet(obj, obj')
  <2> DEFINE c == handleClose(obj, s)
  <2>1. /\ Settled(c) /\ (s \in ViewerSock => s \notin c.viewers)
        /\ Follows(obj, c) /\ c.viewers \subseteq obj.viewers
    BY CloseSettled
  <2>2. obj' = release(c, s)
    BY <1>6 DEF CloseEvent
  <2> HIDE DEF c
  <2>3. /\ obj'.rec = c.rec /\ obj'.stored = c.stored
        /\ obj'.hostConnected = c.hostConnected /\ obj'.viewers = c.viewers
    BY <2>1, <2>2, ReleaseSettled
  <2>4. Follows(obj, obj')
    BY <2>1, <2>3 DEF Follows
  <2> QED BY <2>1, <2>3, <2>4, FollowsQuiet
<1>7. ASSUME AlarmFires PROVE Quiet(obj, obj')
  <2> DEFINE o == [obj EXCEPT !.alarm = None]
             p == advanceAndTell(o)
  <2>1. /\ o \in Object /\ o.rec = obj.rec /\ o.stored = obj.stored
        /\ o.host = obj.host /\ o.hostConnected = obj.hostConnected
        /\ o.details = obj.details
        /\ o.viewers = obj.viewers /\ o.ident = obj.ident /\ o.sock = obj.sock
    BY DEF Settled, Sound, Valid, Object, Deadline
  <2>2. obj' = scheduleNextAlarm(p)
    BY <1>7 DEF AlarmFires
  <2> HIDE DEF o
  <2>3. Settled(o) /\ Quiet(obj, o)
    <3>1. Settled(o)
      BY <2>1 DEF Settled, Sound, Valid, Fresh
    <3>2. Follows(obj, o)
      BY <2>1 DEF Follows
    <3> QED BY <2>1, <3>1, <3>2, FollowsQuiet
  <2>4. Settled(p) /\ Exact(o, p) /\ (p = o \/ p.stored = p.rec)
    BY <2>3, AdvanceAndTellSettled, TellExact
  <2>5. Quiet(o, p)
    BY <2>4, ExactFewer, WrittenQuiet, QuietReflexive
  <2> HIDE DEF p
  <2>6. /\ obj'.rec = p.rec /\ obj'.stored = p.stored
        /\ obj'.hostConnected = p.hostConnected /\ obj'.viewers = p.viewers
    BY <2>2, <2>4, ScheduleSettled
  <2>7. Follows(p, obj')
    BY <2>6 DEF Follows
  <2> QED BY <2>3, <2>5, <2>6, <2>7, FollowsQuiet, QuietTransitive
<1> QED BY <1>1, <1>2, <1>3, <1>4, <1>5, <1>6, <1>7

----------------------------------------------------------------------------
(* What a step of the object is in the abstract specification.             *)

\* The abstract state before and after a step that takes no time.
LEMMA AbstractState ==
  /\ claim(askingViewer, obj.rec.pendingRequestExpiresAt) = asked(obj)
  /\ claim(obj.rec.currentControllerId, obj.rec.controlLeaseExpiresAt) = granted(obj)
  /\ now' = now =>
       /\ claim(askingViewer, obj.rec.pendingRequestExpiresAt)' = asked(obj')
       /\ claim(obj.rec.currentControllerId, obj.rec.controlLeaseExpiresAt)' = granted(obj')
BY DEF claim, askingViewer, asked, granted, asking

LEMMA LeaveStep ==
  ASSUME now' = now, typed' = None, Settled(obj'), ~obj'.hostConnected
  PROVE  Control!Next
<1>1. asked(obj') = None /\ granted(obj') = None
  BY SettledClaims
<1>2. obj'.hostConnected = FALSE
  BY DEF Settled, Sound, Valid, Object
<1> QED BY <1>1, <1>2, AbstractState DEF Control!Next, Control!HostLeaves

LEMMA JoinStep ==
  ASSUME now' = now, typed' = None, Settled(obj'), Unclaimed(obj'.rec)
  PROVE  Control!Next
<1>1. asked(obj') = None /\ granted(obj') = None
  BY NoClaims
<1>2. CASE obj'.hostConnected
  <2>1. obj'.hostConnected = TRUE
    BY <1>2 DEF Settled, Sound, Valid, Object
  <2> QED BY <1>1, <2>1, AbstractState DEF Control!Next, Control!HostJoins
<1> QED BY <1>2, LeaveStep

LEMMA DropStep ==
  ASSUME now' = now, typed' = None, Settled(obj), Settled(obj'), Fewer(obj, obj')
  PROVE  Control!Next
<1>1. CASE obj'.hostConnected
  <2>1. obj'.hostConnected = obj.hostConnected
    BY <1>1 DEF Fewer, Settled, Sound, Valid, Object
  <2>2. /\ asked(obj') \in {asked(obj), None}
        /\ granted(obj') \in {granted(obj), None}
        /\ asked(obj) = None \/ granted(obj) = None
    BY <1>1, SettledClaims DEF Fewer
  <2>3. CASE asked(obj') # asked(obj)
    BY <2>1, <2>2, <2>3, AbstractState DEF Control!Next, Control!Withdraw
  <2>4. CASE granted(obj') # granted(obj)
    BY <2>1, <2>2, <2>4, AbstractState DEF Control!Next, Control!Revoke
  <2>5. CASE asked(obj') = asked(obj) /\ granted(obj') = granted(obj)
    BY <2>1, <2>5, AbstractState DEF Control!Next, Control!Other
  <2> QED BY <2>3, <2>4, <2>5
<1> QED BY <1>1, LeaveStep

LEMMA TickStep ==
  ASSUME now \in Nat, Settled(obj), Tick
  PROVE  Control!Next
<1>1. now' = now + 1 /\ obj' = obj /\ typed' = None
  BY DEF Tick
<1>2. \A d \in Deadline : d # None => d \in Nat
  BY DEF Deadline
<1>3. /\ obj.rec.pendingRequestExpiresAt \in Deadline
      /\ obj.rec.controlLeaseExpiresAt \in Deadline
  BY DEF Settled, Sound, Valid, Object, SessionRecord
<1>4. ASSUME NEW viewer, NEW d \in Deadline
      PROVE  (IF viewer # None /\ d # None /\ now' < d
              THEN [viewer |-> viewer, until |-> d] ELSE None)
             = Control!Live(claim(viewer, d), now')
  BY <1>1, <1>2 DEF claim, Control!Live
<1>5. claim(askingViewer, obj.rec.pendingRequestExpiresAt)'
      = Control!Live(claim(askingViewer, obj.rec.pendingRequestExpiresAt), now')
  BY <1>1, <1>3, <1>4 DEF claim, askingViewer
<1>6. claim(obj.rec.currentControllerId, obj.rec.controlLeaseExpiresAt)'
      = Control!Live(claim(obj.rec.currentControllerId, obj.rec.controlLeaseExpiresAt), now')
  BY <1>1, <1>3, <1>4 DEF claim
<1> QED BY <1>1, <1>5, <1>6 DEF Control!Next, Control!Tick

LEMMA AskStep ==
  ASSUME now' = now, typed' = None, now \in Nat, NEW id \in Viewer,
         Settled(obj), Settled(obj'), obj.hostConnected, obj'.hostConnected,
         asked(obj) = None, granted(obj) = None, Asked(obj', id)
  PROVE  Control!Next
<1>1. obj'.hostConnected = obj.hostConnected
  BY DEF Settled, Sound, Valid, Object
<1>2. granted(obj') = None
  BY DEF Asked, granted, claim
<1>3. now + PendingTimeout # None /\ now < now + PendingTimeout /\ id # None
  BY TimingAssumption, SocketAssumption
<1>4. CASE obj'.rec.pendingRequest = None
  <2>1. asked(obj') = None
    BY <1>4 DEF asked, asking, claim
  <2> QED BY <1>2, <2>1, DropStep DEF Fewer
<1>5. CASE obj'.rec.pendingRequest # None
  <2>1. /\ asking(obj') = id
        /\ obj'.rec.pendingRequestExpiresAt = now + PendingTimeout
    BY <1>5 DEF Asked, asking
  <2>2. asked(obj') = [viewer |-> id, until |-> now + PendingTimeout]
    BY <1>3, <2>1 DEF asked, claim
  <2>3. Control!Ask(id)
    BY <1>1, <1>2, <2>2, AbstractState DEF Control!Ask
  <2> QED BY <2>3 DEF Control!Next
<1> QED BY <1>4, <1>5

LEMMA GrantStep ==
  ASSUME now' = now, typed' = None, now \in Nat, NEW id \in Viewer,
         Settled(obj), Settled(obj'), obj.hostConnected, obj'.hostConnected,
         asked(obj) # None, asked(obj).viewer = id, Granted(obj', id)
  PROVE  Control!Next
<1>1. obj'.hostConnected = obj.hostConnected
  BY DEF Settled, Sound, Valid, Object
<1>2. PICK lease \in MinLease .. MaxLease :
        /\ obj'.rec.currentControllerId = id
        /\ obj'.rec.controlLeaseExpiresAt = now + lease
        /\ obj'.rec.pendingRequest = None
  BY DEF Granted
<1>3. now + lease # None /\ now < now + lease /\ id # None
  BY TimingAssumption, SocketAssumption
<1>4. granted(obj') = [viewer |-> id, until |-> now + lease]
  BY <1>2, <1>3 DEF granted, claim
<1>5. asked(obj') = None
  BY <1>2 DEF asked, asking, claim
<1>6. Control!Grant(lease)
  BY <1>1, <1>4, <1>5, AbstractState DEF Control!Grant
<1> QED BY <1>6 DEF Control!Next

\* Input goes through while the sender's grant is in force.
LEMMA TypeStep ==
  ASSUME now' = now, Settled(obj), Settled(obj'), obj'.hostConnected, obj.hostConnected,
         asked(obj') = asked(obj), granted(obj') = granted(obj),
         granted(obj) # None, typed' = granted(obj).viewer
  PROVE  Control!Next
<1>1. obj'.hostConnected = obj.hostConnected
  BY DEF Settled, Sound, Valid, Object
<1>2. Control!Type
  BY <1>1, AbstractState DEF Control!Type
<1> QED BY <1>2 DEF Control!Next

----------------------------------------------------------------------------
(* The handlers that make a claim, or let input through.                   *)

LEMMA ConnectHostStep ==
  ASSUME now \in Nat, Settled(obj), NEW h \in HostSock, ConnectHost(h)
  PROVE  /\ Settled(obj')
         /\ Saved(obj) => Saved(obj')
         /\ Control!Next
<1> DEFINE o == advanceRecordAndPersist(obj)
<1>1. Settled(o) /\ Quiet(obj, o)
  BY PersistQuiet
<1>2. /\ obj' = IF o.rec.state = "closed" THEN o ELSE acceptHost(o, h)
      /\ typed' = None /\ now' = now
  BY DEF ConnectHost
<1> HIDE DEF o
<1>3. CASE o.rec.state = "closed"
  BY <1>1, <1>2, <1>3, DropStep DEF Quiet
<1>4. CASE o.rec.state # "closed"
  <2>1. Settled(obj') /\ obj'.stored = obj'.rec /\ Unclaimed(obj'.rec)
    BY <1>1, <1>2, <1>4, AcceptHostSettled
  <2> QED BY <1>2, <2>1, JoinStep DEF Saved
<1> QED BY <1>3, <1>4

LEMMA HostApprovesStep ==
  ASSUME now \in Nat, Settled(obj), NEW h \in HostSock, NEW id \in Viewer,
         NEW ask \in LeaseAsks \cup {None}, HostApproves(h, id, ask)
  PROVE  /\ Settled(obj')
         /\ Saved(obj) => Saved(obj')
         /\ Control!Next
<1> DEFINE p == handleControlApprove(Heard, id, ask)
           t == touchSession(p)
<1>1. Settled(Heard) /\ Quiet(obj, Heard) /\ Exact(obj, Heard)
  BY HeardQuiet, TellExact DEF Heard
<1>2. /\ Settled(p)
      /\ IF Pending(Heard, id)
         THEN p.stored = p.rec /\ (p.hostConnected => Heard.hostConnected /\ Granted(p, id))
         ELSE p = Heard
  BY <1>1, ApproveSettled
<1>3. /\ obj' = IF FromHost(Heard, h) THEN t ELSE Heard
      /\ typed' = None /\ now' = now
  BY DEF HostApproves, HostFrame
<1> HIDE DEF p
<1>4. /\ Settled(t) /\ Quiet(p, t) /\ SameClaims(p.rec, t.rec)
      /\ t.hostConnected = p.hostConnected
      /\ t = p \/ t.stored = t.rec
  BY <1>2, TouchSettled, TouchQuiet
<1> HIDE DEF t
<1>5. CASE ~FromHost(Heard, h) \/ ~Pending(Heard, id)
  <2>1. Settled(obj') /\ Quiet(obj, obj')
    BY <1>1, <1>2, <1>3, <1>4, <1>5, QuietTransitive
  <2> QED BY <1>3, <2>1, DropStep DEF Quiet
<1>6. CASE FromHost(Heard, h) /\ Pending(Heard, id)
  <2>1. Settled(obj') /\ Saved(obj')
    BY <1>2, <1>3, <1>4, <1>6 DEF Saved, Quiet
  <2>2. ASSUME obj'.hostConnected PROVE Control!Next
    <3>1. /\ Heard.hostConnected /\ Granted(p, id)
          /\ Granted(obj', id)
      BY <1>2, <1>3, <1>4, <1>6, <2>2 DEF Granted, SameClaims
    <3>2. /\ Heard.rec.pendingRequest # None /\ asking(Heard) = id
          /\ Heard.rec.pendingRequestExpiresAt # None
          /\ Heard.rec.pendingRequestExpiresAt \in Nat
      BY <1>1, <1>6 DEF Pending, asking, Settled, Sound, Valid, RecordOK, Object, SessionRecord, Deadline
    <3>3. now < Heard.rec.pendingRequestExpiresAt
      BY <1>1, <3>1, <3>2 DEF Exact, Due
    <3>4. asked(Heard) = [viewer |-> id, until |-> Heard.rec.pendingRequestExpiresAt]
      BY <3>2, <3>3, SocketAssumption DEF asked, claim
    <3>5. obj.hostConnected /\ asked(obj) = asked(Heard)
      BY <1>1, <3>1 DEF Exact
    <3>6. asked(obj).viewer = id
      BY <3>4, <3>5
    <3>7. asked(obj) # None
      BY <3>2, <3>4, <3>5, RecordAssumption DEF Claim
    <3> QED BY <1>3, <2>1, <2>2, <3>1, <3>5, <3>6, <3>7, GrantStep
  <2> QED BY <1>3, <2>1, <2>2, LeaveStep
<1> QED BY <1>5, <1>6

LEMMA ViewerRequestsStep ==
  ASSUME now \in Nat, Settled(obj), NEW v \in ViewerSock,
         NEW ask \in LeaseAsks \cup {None}, ViewerRequestsControl(v, ask)
  PROVE  /\ Settled(obj')
         /\ Saved(obj) => Saved(obj')
         /\ Control!Next
<1> DEFINE a == advanceRecordAndPersist(Heard)
           p == handleControlRequest(Heard, v, ask)
           t == touchSession(p)
<1>1. /\ Settled(Heard) /\ Quiet(obj, Heard) /\ Exact(obj, Heard)
      /\ Settled(a) /\ Quiet(Heard, a) /\ Exact(Heard, a)
  BY HeardQuiet, TellExact, PersistQuiet DEF Heard
<1>2. /\ Settled(p)
      /\ \/ Quiet(a, p)
         \/ /\ Unclaimed(a.rec)
            /\ p.stored = p.rec
            /\ p.hostConnected => a.hostConnected /\ (\E id \in Viewer : Asked(p, id))
  BY <1>1, RequestSettled, FollowsQuiet
<1>3. /\ obj' = IF FromViewer(Heard, v) THEN t ELSE Heard
      /\ typed' = None /\ now' = now
  BY DEF ViewerRequestsControl, ViewerFrame
<1> HIDE DEF p, a
<1>4. /\ Settled(t) /\ Quiet(p, t) /\ SameClaims(p.rec, t.rec)
      /\ t.hostConnected = p.hostConnected
      /\ t = p \/ t.stored = t.rec
  BY <1>2, TouchSettled, TouchQuiet
<1> HIDE DEF t
<1>5. CASE ~FromViewer(Heard, v)
  BY <1>1, <1>3, <1>5, DropStep DEF Quiet
<1>6. CASE FromViewer(Heard, v)
  <2>1. Settled(obj') /\ (Saved(obj) => Saved(obj'))
    BY <1>1, <1>2, <1>3, <1>4, <1>6 DEF Quiet, Saved
  <2>2. CASE Quiet(a, p)
    <3>1. Fewer(a, p)
      BY <2>2 DEF Quiet
    <3>2. Fewer(obj, obj')
      BY <1>1, <1>3, <1>4, <1>6, <3>1, FewerTransitive DEF Quiet
    <3> QED BY <1>3, <2>1, <3>2, DropStep
  <2>3. CASE ~Quiet(a, p)
    <3>1. ASSUME obj'.hostConnected PROVE Control!Next
      <4>1. PICK id \in Viewer : Asked(p, id)
        BY <1>2, <1>3, <1>4, <1>6, <2>3, <3>1
      <4>2. Asked(obj', id)
        BY <1>3, <1>4, <1>6, <4>1 DEF Asked, SameClaims
      <4>3. a.hostConnected /\ asked(a) = None /\ granted(a) = None
        BY <1>2, <1>3, <1>4, <1>6, <2>3, <3>1, NoClaims
      <4>4. obj.hostConnected /\ asked(obj) = None /\ granted(obj) = None
        BY <1>1, <4>3 DEF Exact
      <4> QED BY <1>3, <2>1, <3>1, <4>2, <4>4, AskStep
    <3> QED BY <1>3, <2>1, <3>1, LeaveStep
  <2> QED BY <2>2, <2>3
<1> QED BY <1>5, <1>6

LEMMA ViewerTypesStep ==
  ASSUME now \in Nat, Settled(obj), NEW v \in ViewerSock, ViewerTypes(v)
  PROVE  /\ Settled(obj')
         /\ Saved(obj) => Saved(obj')
         /\ Control!Next
         /\ InputNeedsLease'
<1> DEFINE writes == FromViewer(Heard, v) /\ canWrite(Heard, v)
           t == touchSession(Heard)
<1>1. Settled(Heard) /\ Exact(obj, Heard)
  BY HeardSettled, TellExact DEF Heard
<1>2. /\ obj' = IF writes THEN sendHost(t) ELSE Heard
      /\ typed' = IF writes /\ Heard.sock[Heard.host] = "open" THEN Heard.ident[v] ELSE None
      /\ now' = now
  BY DEF ViewerTypes
<1>3. Settled(obj') /\ Quiet(obj, obj')
  BY ViewerActionsSettled, ViewerActionsQuiet
<1>4. /\ Settled(t) /\ SameClaims(Heard.rec, t.rec)
      /\ t.host = Heard.host /\ t.hostConnected = Heard.hostConnected /\ t.sock = Heard.sock
  BY <1>1, TouchSettled
<1> HIDE DEF t
<1>5. CASE typed' = None
  BY <1>2, <1>3, <1>5, DropStep DEF Quiet, InputNeedsLease
<1>6. CASE typed' # None
  <2>1. /\ Heard.hostConnected
        /\ Heard.ident[v] = Heard.rec.currentControllerId
        /\ typed' = Heard.ident[v]
        /\ Heard.sock[Heard.host] = "open"
        /\ v \in Heard.viewers
    BY <1>2, <1>6 DEF canWrite
  <2>2. obj' = t
    BY <1>2, <1>4, <1>6 DEF sendHost
  <2>3. /\ Heard.rec.currentControllerId # None
        /\ Heard.rec.controlLeaseExpiresAt # None
        /\ Heard.rec.controlLeaseExpiresAt \in Nat
    BY <1>1, <1>6, <2>1 DEF Settled, Sound, Valid, RecordOK, Object, SessionRecord, Deadline
  <2>4. /\ obj.hostConnected
        /\ granted(Heard) = granted(obj) /\ asked(Heard) = asked(obj)
        /\ ~Due(Heard.rec.controlLeaseExpiresAt)
    BY <1>1, <2>1 DEF Exact
  <2>5. granted(Heard) = [viewer |-> typed', until |-> Heard.rec.controlLeaseExpiresAt]
    BY <2>1, <2>3, <2>4 DEF granted, claim, Due
  <2>6. typed' \in Viewer
    BY <1>1, <2>1, <1>6 DEF Settled, Sound, Valid, Object
  <2>7. granted(obj) # None /\ granted(obj).viewer = typed'
    BY <2>3, <2>4, <2>5, <2>6, RecordAssumption DEF Claim
  <2>8. granted(obj') = granted(obj) /\ asked(obj') = asked(obj)
    BY <1>4, <2>2, <2>4, ClaimsOfSame
  <2>9. obj'.hostConnected
    BY <1>4, <2>1, <2>2
  <2>10. Control!Next
    BY <1>2, <1>3, <2>4, <2>7, <2>8, <2>9, TypeStep
  <2>11. /\ obj'.rec.currentControllerId = typed'
         /\ obj'.rec.controlLeaseExpiresAt = Heard.rec.controlLeaseExpiresAt
    BY <1>4, <2>1, <2>2 DEF SameClaims
  <2>12. ~Due(obj.rec.controlLeaseExpiresAt)'
    BY <1>2, <2>4, <2>11 DEF Due
  <2>13. InputNeedsLease'
    BY <2>9, <2>11, <2>12 DEF InputNeedsLease
  <2> QED BY <1>3, <2>10, <2>13 DEF Quiet
<1> QED BY <1>5, <1>6

LEMMA RestartStep ==
  ASSUME now \in Nat, Settled(obj), Saved(obj),
         NEW h \in HostSock \cup {None}, NEW viewers \in SUBSET ViewerSock,
         Restart(h, viewers)
  PROVE  Settled(obj') /\ Saved(obj') /\ Control!Next
<1>1. /\ Settled(obj') /\ Saved(obj')
      /\ obj'.hostConnected => SameClaims(obj.rec, obj'.rec)
  BY RestartSettled
<1>2. now' = now /\ typed' = None
  BY DEF Restart
<1>3. CASE ~obj'.hostConnected
  BY <1>1, <1>2, <1>3, LeaveStep
<1>4. CASE obj'.hostConnected /\ obj.hostConnected
  BY <1>1, <1>2, <1>4, ClaimsOfSame, DropStep DEF Fewer
\* A host whose socket was accepted in a session that had none: it joins.
<1>5. CASE obj'.hostConnected /\ ~obj.hostConnected
  BY <1>1, <1>2, <1>5, SettledClaims, JoinStep DEF SameClaims, Unclaimed
<1> QED BY <1>1, <1>3, <1>4, <1>5

----------------------------------------------------------------------------
(* The theorems.                                                           *)

\* The invariant: a handler leaves the object settled and its record saved.
SavedInv == now \in Nat /\ Settled(obj) /\ Saved(obj)

LEMMA InitStep ==
  ASSUME Init
  PROVE  SavedInv /\ InputNeedsLease /\ Control!Init
<1>1. now \in Nat /\ Settled(obj)
  BY InitIInv, BoundAssumption DEF IInv
<1>2. /\ now = 0 /\ typed = None
      /\ obj.stored = None /\ obj.viewers = {} /\ obj.hostConnected = FALSE
      /\ obj.rec = createInitialSessionRecord("idle")
  BY DEF Init
<1>3. Saved(obj) /\ Unclaimed(obj.rec)
  BY <1>1, <1>2, InitialRecordOK DEF Saved
<1>4. Control!Init
  BY <1>2, <1>3, NoClaims, AbstractState DEF Control!Init
<1> QED BY <1>1, <1>2, <1>3, <1>4 DEF SavedInv, InputNeedsLease

\* A step that at most drops claims.
LEMMA QuietStep ==
  ASSUME SavedInv, now' = now, typed' = None, Settled(obj'), Quiet(obj, obj')
  PROVE  SavedInv' /\ InputNeedsLease' /\ Control!Next
<1>1. Control!Next
  BY DropStep DEF Quiet, SavedInv
<1> QED BY <1>1 DEF SavedInv, Quiet, InputNeedsLease

LEMMA Step ==
  ASSUME SavedInv, [Next]_vars
  PROVE  SavedInv' /\ (InputNeedsLease => InputNeedsLease') /\ [Control!Next]_(Control!vars)
<1>1. now \in Nat /\ Settled(obj) /\ Saved(obj)
  BY DEF SavedInv
<1>2. CASE InitSession \/ GetStatus
  <2>1. now' = now /\ typed' = None
    BY <1>2 DEF InitSession, GetStatus
  <2> QED BY <1>1, <1>2, <2>1, RequestActionsSettled, OtherActionsQuiet, QuietStep
<1>3. ASSUME NEW h \in HostSock, ConnectHost(h)
      PROVE  SavedInv' /\ InputNeedsLease' /\ Control!Next
  <2>1. now' = now /\ typed' = None
    BY <1>3 DEF ConnectHost
  <2> QED BY <1>1, <1>3, <2>1, ConnectHostStep DEF SavedInv, InputNeedsLease
<1>4. ASSUME NEW h \in HostSock,
             \/ HostEnds(h)
             \/ \E v \in ViewerSock : HostSnapshot(h, v)
             \/ \E id \in Viewer : HostRejects(h, id)
             \/ HostRevokes(h)
             \/ \E d \in Details, new \in BOOLEAN : HostDetail(h, d, new)
             \/ HostOutput(h)
             \/ HostBadFrame(h)
      PROVE  SavedInv' /\ InputNeedsLease' /\ Control!Next
  <2>1. now' = now /\ typed' = None
    BY <1>4 DEF HostEnds, HostSnapshot, HostRejects, HostRevokes, HostDetail,
                HostOutput, HostBadFrame, HostFrame
  <2> QED BY <1>1, <1>4, <2>1, HostActionsSettled, HostActionsQuiet, QuietStep
<1>5. ASSUME NEW h \in HostSock, NEW id \in Viewer, NEW ask \in LeaseAsks \cup {None},
             HostApproves(h, id, ask)
      PROVE  SavedInv' /\ InputNeedsLease' /\ Control!Next
  <2>1. now' = now /\ typed' = None
    BY <1>5 DEF HostApproves, HostFrame
  <2> QED BY <1>1, <1>5, <2>1, HostApprovesStep DEF SavedInv, InputNeedsLease
<1>6. ASSUME NEW v \in ViewerSock, NEW id \in Viewer, ConnectViewer(v, id)
      PROVE  SavedInv' /\ InputNeedsLease' /\ Control!Next
  <2>1. now' = now /\ typed' = None
    BY <1>6 DEF ConnectViewer
  <2> QED BY <1>1, <1>6, <2>1, RequestActionsSettled, OtherActionsQuiet, QuietStep
<1>7. ASSUME NEW v \in ViewerSock, ViewerTypes(v)
      PROVE  SavedInv' /\ InputNeedsLease' /\ Control!Next
  <2>1. now' = now
    BY <1>7 DEF ViewerTypes
  <2> QED BY <1>1, <1>7, <2>1, ViewerTypesStep DEF SavedInv
<1>8. ASSUME NEW v \in ViewerSock,
             ViewerBadFrame(v) \/ ViewerReleases(v) \/ ViewerAsksDetails(v)
      PROVE  SavedInv' /\ InputNeedsLease' /\ Control!Next
  <2>1. now' = now /\ typed' = None
    BY <1>8 DEF ViewerBadFrame, ViewerReleases, ViewerAsksDetails, ViewerFrame
  <2> QED BY <1>1, <1>8, <2>1, ViewerActionsSettled, ViewerActionsQuiet, QuietStep
<1>9. ASSUME NEW v \in ViewerSock, NEW ask \in LeaseAsks \cup {None},
             ViewerRequestsControl(v, ask)
      PROVE  SavedInv' /\ InputNeedsLease' /\ Control!Next
  <2>1. now' = now /\ typed' = None
    BY <1>9 DEF ViewerRequestsControl, ViewerFrame
  <2> QED BY <1>1, <1>9, <2>1, ViewerRequestsStep DEF SavedInv, InputNeedsLease
<1>10. ASSUME NEW s \in Socket, UnknownFrame(s) \/ PeerGone(s) \/ CloseEvent(s)
       PROVE  SavedInv' /\ InputNeedsLease' /\ Control!Next
  <2>1. now' = now /\ typed' = None
    BY <1>10 DEF UnknownFrame, PeerGone, CloseEvent
  <2> QED BY <1>1, <1>10, <2>1, SocketActionsSettled, OtherActionsQuiet, QuietStep
<1>11. ASSUME NEW h \in HostSock \cup {None}, NEW viewers \in SUBSET ViewerSock,
              Restart(h, viewers)
       PROVE  SavedInv' /\ InputNeedsLease' /\ Control!Next
  <2>1. now' = now /\ typed' = None
    BY <1>11 DEF Restart
  <2> QED BY <1>1, <1>11, <2>1, RestartStep DEF SavedInv, InputNeedsLease
<1>12. CASE AlarmFires
  <2>1. now' = now /\ typed' = None
    BY <1>12 DEF AlarmFires
  <2> QED BY <1>1, <1>12, <2>1, AlarmSettled, OtherActionsQuiet, QuietStep
<1>13. CASE Tick
  <2>1. now' = now + 1 /\ typed' = None /\ obj' = obj
    BY <1>13 DEF Tick
  <2> QED BY <1>1, <1>13, <2>1, TickStep DEF SavedInv, InputNeedsLease
<1>14. CASE UNCHANGED vars
  <2>1. SavedInv' /\ (InputNeedsLease => InputNeedsLease')
    BY <1>1, <1>14 DEF vars, SavedInv, InputNeedsLease, Due
  <2>2. UNCHANGED Control!vars
    BY <1>14 DEF vars, Control!vars, claim, askingViewer
  <2> QED BY <2>1, <2>2
<1> QED BY <1>2, <1>3, <1>4, <1>5, <1>6, <1>7, <1>8, <1>9, <1>10, <1>11, <1>12, <1>13, <1>14
        DEF Next, Event

THEOREM SavedInvariance == Spec => [](SavedInv /\ InputNeedsLease)
<1>1. Init => SavedInv /\ InputNeedsLease
  BY InitStep
<1>2. SavedInv /\ InputNeedsLease /\ [Next]_vars => (SavedInv /\ InputNeedsLease)'
  BY Step
<1> QED BY <1>1, <1>2, PTL DEF Spec

\* Whatever event comes next, a restart finds the record as it was in memory:
\* every handler that changes it writes it before it ends (persistRecord,
\* updateRecord, advanceRecordAndPersist).
THEOREM RecordIsStored == Spec => []StoredIsCurrent
<1>1. SavedInv => StoredIsCurrent
  BY RecordAssumption DEF SavedInv, Saved, StoredIsCurrent, Settled, Sound, Valid, Object
<1> QED BY <1>1, SavedInvariance, PTL

\* Input only ever reaches the host from the viewer in control, within its
\* lease, even when nobody has looked at the deadline since it passed
\* (handleMessage, canWrite, advanceRecord).
THEOREM InputIsCovered == Spec => []InputNeedsLease
BY SavedInvariance, PTL

\* The object implements the abstract permission protocol, for every number
\* of sockets and viewers and for all durations.
THEOREM Implements == Spec => ControlSpec
<1>1. Init => SavedInv /\ Control!Init
  BY InitStep
<1>2. SavedInv /\ [Next]_vars => SavedInv' /\ [Control!Next]_(Control!vars)
  BY Step
<1> QED BY <1>1, <1>2, PTL DEF Spec, ControlSpec, Control!Spec
=============================================================================
