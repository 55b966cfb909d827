---------------------------- MODULE MCSessionDO ----------------------------
(***************************************************************************)
(* Instances of SessionDO for TLC.  Durations keep the order they have in  *)
(* the code (request < lease, grace period < idle time < maximum lifetime) *)
(* at one unit of time or a few.                                           *)
(***************************************************************************)
EXTENDS SessionDO, TLC

\* Sockets of one role and identities are interchangeable.
SocketSymmetry ==
  Permutations(HostSock) \cup Permutations(ViewerSock) \cup Permutations(Viewer)
=============================================================================
