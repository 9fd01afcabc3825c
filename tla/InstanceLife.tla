------------------------------ MODULE InstanceLife ------------------------------
(***************************************************************************)
(* What the daemon relies on of one Logstash instance, from the call of    *)
(* the factory on: how its launch ends, what becomes of its process, and   *)
(* when it calls Done of the daemon's WaitGroup, which is the step to      *)
(* "reaped".  LogstashInstance implements this specification with its      *)
(* goroutines and channels, and DaemonShutdown allows each of its          *)
(* instances every step of it.                                             *)
(***************************************************************************)

CONSTANTS
  MayFail,   \* the launch may fail though the daemon does not kill
  MayCrash   \* Logstash may end unasked

VARIABLES
  launch,    \* "starting", then "started" or "failed"
  process,   \* "none", "running", "terminating", "dead", "reaped"
  heeds,     \* Logstash ends on SIGTERM
  killed     \* ctxKill is done

vars == <<launch, process, heeds, killed>>

Init ==
  /\ launch = "starting" /\ process = "none"
  /\ heeds \in BOOLEAN /\ killed = FALSE

\* No process is started once the daemon kills.
Spawn ==
  /\ launch = "starting" /\ process = "none" /\ ~killed
  /\ process' = "running" /\ UNCHANGED <<launch, heeds, killed>>

LaunchReturns ==
  /\ launch = "starting" /\ process # "none"
  /\ launch' = "started" /\ UNCHANGED <<process, heeds, killed>>

LaunchFails ==
  /\ launch = "starting"
  /\ MayFail \/ (killed /\ process = "none")
  /\ launch' = "failed" /\ UNCHANGED <<process, heeds, killed>>

\* Nobody stops the process of a launch that has failed.
SendTerm ==
  /\ launch = "started" /\ process = "running"
  /\ process' = "terminating" /\ UNCHANGED <<launch, heeds, killed>>

ProcessEnds ==
  /\ process \in {"running", "terminating"}
  /\ MayCrash \/ (process = "terminating" /\ heeds) \/ killed
  /\ process' = "dead" /\ UNCHANGED <<launch, heeds, killed>>

\* Once, after the end of the process, and only if the launch has succeeded.
Reap ==
  /\ launch = "started" /\ process = "dead"
  /\ process' = "reaped" /\ UNCHANGED <<launch, heeds, killed>>

KillAll == ~killed /\ killed' = TRUE /\ UNCHANGED <<launch, process, heeds>>

Next == Spawn \/ LaunchReturns \/ LaunchFails \/ SendTerm \/ ProcessEnds \/ Reap
        \/ KillAll

Spec == Init /\ [][Next]_vars

=================================================================================
