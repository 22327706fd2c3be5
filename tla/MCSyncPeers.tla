---------------------------- MODULE MCSyncPeers ----------------------------
(* Instances of SyncPeers for TLC.                                         *)
EXTENDS SyncPeers

=============================================================================
