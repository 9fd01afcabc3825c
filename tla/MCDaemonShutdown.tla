---------------------------- MODULE MCDaemonShutdown ----------------------------
(***************************************************************************)
(* Instances of DaemonShutdown for TLC: two Logstash instances, as many as *)
(* the pool holds, one of which may ignore SIGTERM, and two handlers.      *)
(***************************************************************************)
EXTENDS DaemonShutdown

CONSTANTS i1, i2, h1, h2

=================================================================================
