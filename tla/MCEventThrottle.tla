-------------------------- MODULE MCEventThrottle --------------------------
(* Instances of EventThrottle for TLC. *)
EXTENDS EventThrottle

CONSTANTS u1, u2
=============================================================================
