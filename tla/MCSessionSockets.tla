---------------------------- MODULE MCSessionSockets ----------------------------
(* Three servers for one session: two may contend while a third has gone.  *)
EXTENDS SessionSockets
CONSTANTS s1, s2, s3
================================================================================
