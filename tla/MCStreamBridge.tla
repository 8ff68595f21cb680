--------------------------- MODULE MCStreamBridge ---------------------------
(* Model checking of StreamBridge.  Create calls are interchangeable, and   *)
(* so are delete calls.                                                     *)
EXTENDS StreamBridge, TLC

CallSymmetry == Permutations(Creates) \cup Permutations(Deletes)
=============================================================================
