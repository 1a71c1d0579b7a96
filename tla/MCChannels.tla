----------------------------- MODULE MCChannels -----------------------------
(* Instances of Channels for TLC. *)
EXTENDS Channels, TLC

CONSTANTS r1, r2, r3, r4

FourRequests == {r1, r2, r3, r4}
AllButAuto == {"text", "http", "job", "press", "resolve", "manual", "compact"}
SymmetricFour == Permutations(FourRequests)
=============================================================================
