----------------------------- MODULE MCHostStore -----------------------------
(* The host store, driven in recovery mode by its gestures, on a small instance. *)
EXTENDS RecoveryStore, TLC

PeerSymmetry == Permutations(Peer)
==============================================================================
