---------------------------- MODULE MCDelegation ----------------------------
(* Instances of Delegation for TLC. *)
EXTENDS Delegation

CONSTANTS c1, c2, c3

TwoCalls == {c1, c2}
ThreeCalls == {c1, c2, c3}
=============================================================================
