------------------------------ MODULE MCRunCancel ------------------------------
(* One run, cancelled by its watchdog, by one other caller (the server's own *)
(* timeout, a DELETE, or a client that left), by both or by neither.         *)
EXTENDS RunCancel

CONSTANT server

OneExternal == {server}
===============================================================================
