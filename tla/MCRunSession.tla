----------------------------- MODULE MCRunSession -----------------------------
(* Two or three turns over two sessions, one of which the SessionStore can   *)
(* resume.                                                                   *)
EXTENDS RunSession

CONSTANTS s1, s2, r1, r2, r3

TwoSessions == {s1, s2}
OneSession  == {s1}
ThreeRuns   == {r1, r2, r3}
TwoRuns     == {r1, r2}
===============================================================================
