---------------------------------- MODULE Pool ----------------------------------
(***************************************************************************)
(* The pool of Logstash controllers, daemon/pool/pool.go.  Every operation *)
(* holds the pool's mutex throughout and is one action.  The slices are    *)
(* sets: which of several available instances Get takes is left open.      *)
(*                                                                         *)
(* Instances are numbered by the factory and never reused.  Their health   *)
(* changes behind the pool's back (the controller's state machine).        *)
(***************************************************************************)
EXTENDS Integers, FiniteSets

CONSTANTS
  Instance,         \* controllers the factory can make
  Nil,              \* the nil interface value of a failed factory call
  MaxControllers,   \* maxControllers, after New has raised it to 1
  FactoryMayFail,   \* whether the factory returns errors in this instance
  MaxFailures       \* bound: instances that become unhealthy

ASSUME PoolAssumption ==
  /\ Nil \notin Instance
  /\ MaxControllers \in Nat \ {0}
  /\ FactoryMayFail \in BOOLEAN
  /\ MaxFailures \in Nat

VARIABLES
  available,  \* availableControllers
  assigned,   \* assignedControllers
  health,     \* [Instance -> "unborn", "healthy" or "unhealthy"], IsHealthy
  alive       \* instances whose context is not cancelled: Logstash runs

poolVars == <<available, assigned, health, alive>>

PoolTypeOK ==
  /\ available \subseteq Instance \cup {Nil}
  /\ assigned \subseteq Instance
  /\ health \in [Instance -> {"unborn", "healthy", "unhealthy"}]
  /\ alive \subseteq Instance

\* New calls the factory once.
PoolInit ==
  \E i \in Instance :
    /\ available = {i} /\ assigned = {}
    /\ health = [j \in Instance |-> IF j = i THEN "healthy" ELSE "unborn"]
    /\ alive = {i}

Fresh     == {i \in Instance : health[i] = "unborn"}
Sick(set) == {i \in set \cap Instance : health[i] # "healthy"}

\* The call of logstashControllerFactory, which also launches the instance,
\* after the instances in killed were told to stop.
Launch(i, killed) ==
  /\ i \in Fresh
  /\ health' = [health EXCEPT ![i] = "healthy"]
  /\ alive' = (alive \ killed) \cup {i}

KillOnly(killed) == alive' = alive \ killed /\ UNCHANGED health

-----------------------------------------------------------------------------
\* IsHealthy of a nil instance panics, and the process ends.
Panics == Nil \in available

Usable == available \ Sick(available)

GetAvailable(i) ==
  /\ ~Panics
  /\ i \in Usable
  /\ available' = Usable \ {i} /\ assigned' = assigned \cup {i}
  /\ KillOnly(Sick(available))

GetNew(i) ==
  /\ ~Panics
  /\ Usable = {} /\ Cardinality(assigned) < MaxControllers
  /\ available' = {} /\ assigned' = assigned \cup {i}
  /\ Launch(i, Sick(available))

Get(i) == GetAvailable(i) \/ GetNew(i)

Exhausted == Usable = {} /\ Cardinality(assigned) >= MaxControllers

\* The factory's error, or "no instance available from pool".
GetFails ==
  /\ ~Panics
  /\ Usable = {} /\ (Exhausted \/ FactoryMayFail)
  /\ available' = {} /\ UNCHANGED assigned
  /\ KillOnly(Sick(available))

\* Faulty: it is not checked that the instance is still assigned.
ReturnUnchecked(i, clean) ==
  /\ assigned' = assigned \ {i}
  /\ available' = IF clean THEN available \cup {i} ELSE available
  /\ UNCHANGED <<health, alive>>

\* An instance that housekeeping has removed is not found, and dropped.
Return(i, clean) ==
  /\ assigned' = assigned \ {i}
  /\ available' = IF i \in assigned /\ clean THEN available \cup {i}
                                             ELSE available
  /\ UNCHANGED <<health, alive>>

\* One tick: unhealthy instances are removed from both slices, and if none is
\* left a new one is started; an error of the factory is only logged.
Housekeeping ==
  LET killed == Sick(available) \cup Sick(assigned) IN
  /\ ~Panics
  /\ assigned' = assigned \ killed
  /\ IF available \cup assigned \subseteq killed
       THEN \/ \E i \in Instance : available' = {i} /\ Launch(i, killed)
            \/ FactoryMayFail /\ available' = {Nil} /\ KillOnly(killed)
       ELSE available' = available \ killed /\ KillOnly(killed)

-----------------------------------------------------------------------------
\* The controller becomes unhealthy: after a crash, whose SignalCrash also
\* cancels its context, or by a timeout or an undefined transition.
Sicken(i) ==
  /\ health[i] = "healthy"
  /\ Cardinality({j \in Instance : health[j] = "unhealthy"}) < MaxFailures
  /\ health' = [health EXCEPT ![i] = "unhealthy"]
  /\ alive' \in {alive, alive \ {i}}
  /\ UNCHANGED <<available, assigned>>

PoolNext ==
  \/ \E i \in Instance : Get(i) \/ Sicken(i)
  \/ \E i \in Instance \ Fresh, clean \in BOOLEAN : Return(i, clean)
  \/ GetFails \/ Housekeeping

PoolSpec == PoolInit /\ [][PoolNext]_poolVars

-----------------------------------------------------------------------------
\* The pool never has more than maxControllers instances, and never one in
\* both slices (pool.go: Get, Return, housekeeping).
PoolBound ==
  /\ available \cap assigned = {}
  /\ Cardinality(available) + Cardinality(assigned) <= MaxControllers

\* housekeeping "removes unhealthy instances": a Logstash process the daemon
\* has given up is told to stop.  The code does not keep this: one returned with
\* clean = false leaves the pool without being killed, which happens whenever
\* the Teardown of an unhealthy controller comes before the next housekeeping.
UnhealthyIsStopped ==
  \A i \in Instance :
    (health[i] = "unhealthy" /\ i \in alive) ~> i \notin alive

\* housekeeping is to "ensure at least one running instance": it never puts
\* anything but an instance into the pool.  The code does not keep this: it
\* appends the nil result of a factory that failed.
HoldsInstances == available \subseteq Instance

=================================================================================
