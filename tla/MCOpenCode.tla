------------------------------ MODULE MCOpenCode ------------------------------
(* Little of an OpenCode database, a scan and the watcher.                   *)
EXTENDS OpenCode

CONSTANTS q1, q2

OnePart == {<<"part", 1>>}
===============================================================================
