---------------------------- MODULE MCAcceptance ----------------------------
(* Instances of Acceptance for TLC. *)
EXTENDS Acceptance

(* Every program point a server may be killed at. *)
EveryPoint == ServerPC

(* Every one but the gap between clearing a journal and moving its task. *)
EveryPointButSettling == ServerPC \ {"apply"}
=============================================================================
