-------------------------- MODULE MCSessionController --------------------------
(***************************************************************************)
(* Instances of SessionController for TLC: more clients than places for    *)
(* sessions, and enough instances that the failures of a behaviour do not  *)
(* exhaust the factory.                                                    *)
(***************************************************************************)
EXTENDS SessionController, TLC

CONSTANTS i1, i2, i3, i4, c1, c2, c3

\* Instances and clients are interchangeable (safety runs only).
Symmetry == Permutations(Instance) \cup Permutations(Client)

=================================================================================
