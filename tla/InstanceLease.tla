----------------------------- MODULE InstanceLease -----------------------------
(***************************************************************************)
(* What the pool and the session controller promise together: a Logstash   *)
(* instance serves one session at a time, a session keeps its instance     *)
(* from its creation to its end, and an instance that has been given up is *)
(* never lent again.                                                       *)
(***************************************************************************)
CONSTANTS Client,     \* clients, each with at most one session at a time
          Instance,   \* Logstash instances
          Nil         \* no instance

VARIABLES uses,       \* [Client -> the instance of its session, or Nil]
          good,       \* instances not given up, in use or waiting for a session
          started     \* instances that have been started

vars == <<uses, good, started>>

Init == /\ uses = [c \in Client |-> Nil]
        /\ \E i \in Instance : good = {i} /\ started = {i}

InUse(i) == \E c \in Client : uses[c] = i

\* Instances that are found to be bad may be given up on the way.
Open(c, i) == /\ uses[c] = Nil /\ ~InUse(i)
              /\ i \in good \/ i \notin started
              /\ uses' = [uses EXCEPT ![c] = i]
              /\ good' \subseteq good \cup {i} /\ i \in good'
              /\ started' = started \cup {i}

Close(c) == /\ uses[c] # Nil
            /\ uses' = [uses EXCEPT ![c] = Nil]
            /\ good' \in {good, good \ {uses[c]}}
            /\ UNCHANGED started

GiveUp == good' \subseteq good /\ UNCHANGED <<uses, started>>

\* The last instance has been given up, and another one takes its place.
Replace(i) == /\ i \notin started
              /\ good' = {i} /\ started' = started \cup {i}
              /\ UNCHANGED uses

Next == \/ \E c \in Client : Close(c) \/ \E i \in Instance : Open(c, i)
        \/ GiveUp
        \/ \E i \in Instance : Replace(i)

Spec == Init /\ [][Next]_vars

=================================================================================
