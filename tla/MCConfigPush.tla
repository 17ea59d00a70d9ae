---------------------------- MODULE MCConfigPush ----------------------------
(* Instances of ConfigPush, with its history, for TLC. *)
EXTENDS PushHistory, TLC

CONSTANTS u1, u2, s1, s2, a, b, broken

\* A bound of push_racing: of failures, crashes and restarts of servers, one.
OneFault == failures + crashes + restarts <= 1

\* The update goroutines are interchangeable.
UpdateSymmetry == Permutations(Updates)
=============================================================================
