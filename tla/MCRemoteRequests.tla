-------------------------- MODULE MCRemoteRequests --------------------------
(***************************************************************************)
(* RemoteRequests for TLC.  Every instance is given by its configuration.  *)
(***************************************************************************)
EXTENDS RemoteRequests, TLC

\* Peer ids are interchangeable.
SamePeers == Permutations(Peers)

=============================================================================
