----------------------------- MODULE MCLiveSession -----------------------------
(* Two create requests that compete for one slot, or share two.  The liveness *)
(* properties keep the requests distinguishable, so no symmetry is declared.  *)
EXTENDS LiveSession

CONSTANTS r1, r2

TwoRequests == {r1, r2}
===============================================================================
