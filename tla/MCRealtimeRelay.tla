---- MODULE MCRealtimeRelay ----
(***************************************************************************)
(* Instances of RealtimeRelay for TLC, in units of ten seconds.            *)
(***************************************************************************)
EXTENDS RealtimeRelay
====
