------------------------ MODULE MCRealtimeScheduler ------------------------
(* The realtime scheduler on small instances.                              *)
EXTENDS RealtimeScheduler, TLC

CONSTANTS h1, null
=============================================================================
