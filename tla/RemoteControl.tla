--------------------------- MODULE RemoteControl ---------------------------
(***************************************************************************)
(* What the session object promises about who may type into the shared     *)
(* shell, without sockets, storage, alarms or restarts: nobody types until *)
(* the connected host grants a viewer's request, one viewer at a time, and *)
(* a request or a grant is over the moment its deadline passes, whether or *)
(* not the server has looked at its clock.                                 *)
(*                                                                         *)
(* SessionDO is shown to implement this specification.                     *)
(***************************************************************************)
EXTENDS Naturals

CONSTANTS
  Viewer,          \* viewer identities
  None,            \* no request, no grant, no input
  Leases,          \* the lease lengths a host can grant
  PendingTimeout   \* how long a request waits for the host

VARIABLES
  now,       \* the time
  hosting,   \* a host is connected
  request,   \* the request waiting for the host, or None
  grant,     \* the grant in force, or None
  typed      \* the viewer whose input reached the host in the last step, or None

vars == <<now, hosting, request, grant, typed>>

\* A claim (request or grant) says whose it is and the first instant it is over;
\* this is what is left of claim c at time t.
Live(c, t) == IF c # None /\ t < c.until THEN c ELSE None

Init ==
  /\ now = 0
  /\ hosting = FALSE
  /\ request = None
  /\ grant = None
  /\ typed = None

----------------------------------------------------------------------------

Tick ==
  /\ now' = now + 1
  /\ request' = Live(request, now')
  /\ grant' = Live(grant, now')
  /\ typed' = None
  /\ UNCHANGED hosting

\* A host connects, in place of the one that was connected if there was one.
HostJoins ==
  /\ hosting' = TRUE
  /\ request' = None
  /\ grant' = None
  /\ typed' = None
  /\ UNCHANGED now

\* The host is lost, ends the sharing, or the session expires.
HostLeaves ==
  /\ hosting' = FALSE
  /\ request' = None
  /\ grant' = None
  /\ typed' = None
  /\ UNCHANGED now

Ask(v) ==
  /\ hosting
  /\ request = None
  /\ grant = None
  /\ request' = [viewer |-> v, until |-> now + PendingTimeout]
  /\ typed' = None
  /\ UNCHANGED <<now, hosting, grant>>

\* The host refuses, or the viewer that asked goes away.
Withdraw ==
  /\ request # None
  /\ request' = None
  /\ typed' = None
  /\ UNCHANGED <<now, hosting, grant>>

Grant(lease) ==
  /\ request # None
  /\ grant' = [viewer |-> request.viewer, until |-> now + lease]
  /\ request' = None
  /\ typed' = None
  /\ UNCHANGED <<now, hosting>>

\* The host revokes, or the controller releases.
Revoke ==
  /\ grant # None
  /\ grant' = None
  /\ typed' = None
  /\ UNCHANGED <<now, hosting, request>>

Type ==
  /\ grant # None
  /\ typed' = grant.viewer
  /\ UNCHANGED <<now, hosting, request, grant>>

\* Anything else the server does.
Other == typed' = None /\ UNCHANGED <<now, hosting, request, grant>>

Next ==
  \/ Tick
  \/ HostJoins
  \/ HostLeaves
  \/ \E v \in Viewer : Ask(v)
  \/ Withdraw
  \/ \E lease \in Leases : Grant(lease)
  \/ Revoke
  \/ Type
  \/ Other

Spec == Init /\ [][Next]_vars
=============================================================================
