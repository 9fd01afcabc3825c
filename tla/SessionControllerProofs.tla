------------------------ MODULE SessionControllerProofs ------------------------
(***************************************************************************)
(* Proofs about SessionController for any number of clients and instances, *)
(* any size of the pool and any set of faults.  First those about Pool: it *)
(* is bounded, its two slices are disjoint, and a lemma for each of its    *)
(* operations.  The invariant of the sessions relates their map to the     *)
(* WaitGroup, to the control points of the handlers and to the slices of   *)
(* the pool.                                                               *)
(***************************************************************************)
EXTENDS SessionController, FiniteSetTheorems, TLAPS

-----------------------------------------------------------------------------
(* The pool *)

\* The slices are finite, and hold instances that were started.
PoolInv ==
  /\ PoolTypeOK
  /\ IsFiniteSet(available) /\ IsFiniteSet(assigned)
  /\ PoolBound
  /\ Fresh \cap (available \cup assigned) = {}

\* Started instances stay started.
StillStarted == Fresh' \subseteq Fresh

\* Removing elements of a finite set makes it no larger.
LEMMA SubsetCard ==
  ASSUME NEW S, NEW T, IsFiniteSet(S), T \subseteq S
  PROVE  /\ IsFiniteSet(T)
         /\ Cardinality(T) \in Nat /\ Cardinality(S) \in Nat
         /\ Cardinality(T) <= Cardinality(S)
BY FS_Subset, FS_CardinalityType

\* Moving an element from one slice to the other keeps the sum of their sizes.
LEMMA MoveCard ==
  ASSUME NEW S, NEW T, NEW x, IsFiniteSet(S), IsFiniteSet(T), x \in S, x \notin T
  PROVE  /\ IsFiniteSet(S \ {x}) /\ IsFiniteSet(T \cup {x})
         /\ Cardinality(S \ {x}) + Cardinality(T \cup {x})
              = Cardinality(S) + Cardinality(T)
<1>1. /\ IsFiniteSet(S \ {x})
      /\ Cardinality(S \ {x}) = Cardinality(S) - 1
  BY FS_RemoveElement
<1>2. /\ IsFiniteSet(T \cup {x})
      /\ Cardinality(T \cup {x}) = Cardinality(T) + 1
  BY FS_AddElement
<1>3. Cardinality(S) \in Nat /\ Cardinality(T) \in Nat
  BY FS_CardinalityType
<1> QED
  BY <1>1, <1>2, <1>3

\* The pool that New makes.
LEMMA InitPool == PoolInit => PoolInv
<1> SUFFICES ASSUME PoolInit PROVE PoolInv
  OBVIOUS
<1>1. PICK i \in Instance :
        /\ available = {i} /\ assigned = {}
        /\ health = [j \in Instance |-> IF j = i THEN "healthy" ELSE "unborn"]
        /\ alive = {i}
  BY DEF PoolInit
<1>2. /\ IsFiniteSet(available) /\ IsFiniteSet(assigned)
      /\ Cardinality(available) = 1 /\ Cardinality(assigned) = 0
  BY <1>1, FS_Singleton, FS_EmptySet
<1>3. PoolBound
  BY <1>1, <1>2, PoolAssumption DEF PoolBound
<1>4. PoolTypeOK /\ Fresh \cap (available \cup assigned) = {}
  BY <1>1 DEF PoolTypeOK, Fresh
<1> QED
  BY <1>2, <1>3, <1>4 DEF PoolInv

\* pool.Get hands out an instance that was available, or a fresh one.
LEMMA GetStep ==
  ASSUME PoolInv, NEW i \in Instance, Get(i)
  PROVE  /\ PoolInv' /\ StillStarted
         /\ available' \subseteq available \ {i}
         /\ assigned' = assigned \cup {i} /\ i \notin assigned
         /\ Fresh' = Fresh \ {i}
         /\ i \in available \cup Fresh
<1>1. CASE GetAvailable(i)
  <2>1. i \in available /\ i \notin Fresh /\ i \notin assigned
    BY <1>1 DEF GetAvailable, Usable, PoolInv, PoolBound
  <2>2. /\ available' \subseteq available \ {i}
        /\ assigned' = assigned \cup {i}
        /\ health' = health /\ alive' \subseteq alive
    BY <1>1 DEF GetAvailable, Usable, KillOnly
  <2>3. Fresh' = Fresh
    BY <2>2 DEF Fresh
  <2>4. /\ IsFiniteSet(available \ {i}) /\ IsFiniteSet(assigned')
        /\ Cardinality(available \ {i}) + Cardinality(assigned')
             = Cardinality(available) + Cardinality(assigned)
    BY <2>1, <2>2, MoveCard DEF PoolInv
  <2>5. /\ IsFiniteSet(available')
        /\ Cardinality(available') \in Nat
        /\ Cardinality(available \ {i}) \in Nat
        /\ Cardinality(available') <= Cardinality(available \ {i})
    BY <2>2, <2>4, SubsetCard
  <2>6. /\ Cardinality(assigned') \in Nat
        /\ Cardinality(available) \in Nat /\ Cardinality(assigned) \in Nat
    BY <2>4, FS_CardinalityType DEF PoolInv
  <2>7. Cardinality(available') + Cardinality(assigned') <= MaxControllers
    BY <2>4, <2>5, <2>6, PoolAssumption DEF PoolInv, PoolBound
  <2>8. PoolBound'
    BY <2>1, <2>2, <2>7 DEF PoolInv, PoolBound
  <2>9. PoolTypeOK'
    BY <2>2 DEF PoolTypeOK, PoolInv
  <2> QED
    BY <2>1, <2>2, <2>3, <2>4, <2>5, <2>8, <2>9 DEF PoolInv, StillStarted
<1>2. CASE GetNew(i)
  <2>1. i \in Fresh /\ i \notin assigned /\ i \notin available
    BY <1>2 DEF GetNew, Launch, PoolInv
  <2>2. /\ available' = {} /\ assigned' = assigned \cup {i}
        /\ health' = [health EXCEPT ![i] = "healthy"]
        /\ alive' \subseteq alive \cup {i}
    BY <1>2 DEF GetNew, Launch
  <2>3. Fresh' = Fresh \ {i}
    BY <2>2 DEF Fresh, PoolInv, PoolTypeOK
  <2>4. /\ IsFiniteSet(assigned')
        /\ Cardinality(assigned') = Cardinality(assigned) + 1
    BY <2>1, <2>2, FS_AddElement DEF PoolInv
  <2>5. IsFiniteSet(available') /\ Cardinality(available') = 0
    BY <2>2, FS_EmptySet
  <2>6. Cardinality(assigned) \in Nat
    BY FS_CardinalityType DEF PoolInv
  <2>7. Cardinality(available') + Cardinality(assigned') <= MaxControllers
    BY <1>2, <2>4, <2>5, <2>6, PoolAssumption DEF GetNew
  <2>8. PoolBound'
    BY <2>2, <2>7 DEF PoolBound
  <2>9. PoolTypeOK'
    BY <2>2 DEF PoolTypeOK, PoolInv
  <2> QED
    BY <2>1, <2>2, <2>3, <2>4, <2>5, <2>8, <2>9 DEF PoolInv, StillStarted
<1> QED
  BY <1>1, <1>2 DEF Get

\* A step that only removes instances from the slices, and starts none.
LEMMA ShrinkStep ==
  ASSUME PoolInv, available' \subseteq available, assigned' \subseteq assigned,
         Fresh' = Fresh, PoolTypeOK'
  PROVE  PoolInv' /\ StillStarted
<1>1. /\ IsFiniteSet(available') /\ IsFiniteSet(assigned')
      /\ Cardinality(available') \in Nat /\ Cardinality(available) \in Nat
      /\ Cardinality(assigned') \in Nat /\ Cardinality(assigned) \in Nat
      /\ Cardinality(available') <= Cardinality(available)
      /\ Cardinality(assigned') <= Cardinality(assigned)
  BY SubsetCard DEF PoolInv
<1>2. PoolBound'
  BY <1>1, PoolAssumption DEF PoolInv, PoolBound
<1> QED
  BY <1>1, <1>2 DEF PoolInv, StillStarted

\* A failed pool.Get.
LEMMA GetFailsStep ==
  ASSUME PoolInv, GetFails
  PROVE  /\ PoolInv' /\ StillStarted
         /\ available' = {} /\ assigned' = assigned /\ Fresh' = Fresh
<1>1. /\ available' = {} /\ assigned' = assigned /\ health' = health
      /\ alive' \subseteq alive
  BY DEF GetFails, KillOnly
<1>2. Fresh' = Fresh
  BY <1>1 DEF Fresh
<1>3. PoolTypeOK'
  BY <1>1 DEF PoolTypeOK, PoolInv
<1> QED
  BY <1>1, <1>2, <1>3, ShrinkStep

\* pool.Return of an instance that was started and is not available: it is in
\* the pool afterwards only if it was before, and clean.
LEMMA ReturnStep ==
  ASSUME PoolInv, NEW i \in Instance, NEW whole \in BOOLEAN, Return(i, whole),
         i \notin Fresh
  PROVE  /\ PoolInv' /\ StillStarted /\ Fresh' = Fresh
         /\ assigned' = assigned \ {i}
         /\ available' = IF i \in assigned /\ whole THEN available \cup {i}
                                                   ELSE available
<1>1. /\ assigned' = assigned \ {i}
      /\ available' = IF i \in assigned /\ whole THEN available \cup {i}
                                                ELSE available
      /\ health' = health /\ alive' = alive
  BY DEF Return
<1>2. Fresh' = Fresh
  BY <1>1 DEF Fresh
<1>3. PoolTypeOK'
  BY <1>1 DEF PoolTypeOK, PoolInv
<1>4. CASE i \in assigned /\ whole
  <2>1. i \notin available
    BY <1>4 DEF PoolInv, PoolBound
  <2>2. /\ IsFiniteSet(assigned') /\ IsFiniteSet(available')
        /\ Cardinality(assigned') + Cardinality(available')
             = Cardinality(assigned) + Cardinality(available)
    BY <1>1, <1>4, <2>1, MoveCard DEF PoolInv
  <2>3. /\ Cardinality(available') \in Nat /\ Cardinality(assigned') \in Nat
        /\ Cardinality(available) \in Nat /\ Cardinality(assigned) \in Nat
    BY <2>2, FS_CardinalityType DEF PoolInv
  <2>4. PoolBound'
    BY <1>1, <1>4, <2>2, <2>3 DEF PoolInv, PoolBound
  <2> QED
    BY <1>1, <1>2, <1>3, <1>4, <2>2, <2>4 DEF PoolInv, StillStarted
<1>5. CASE ~(i \in assigned /\ whole)
  BY <1>1, <1>2, <1>3, <1>5, ShrinkStep
<1> QED
  BY <1>1, <1>2, <1>4, <1>5

\* A tick of housekeeping removes instances, or replaces the last ones by one
\* fresh instance or by the nil of a failed factory.
LEMMA HousekeepingStep ==
  ASSUME PoolInv, Housekeeping
  PROVE  /\ PoolInv' /\ StillStarted
         /\ \/ \E i \in Fresh : /\ available' = {i} /\ assigned' = {}
                                /\ Fresh' = Fresh \ {i}
            \/ available' = {Nil} /\ assigned' = {} /\ Fresh' = Fresh
            \/ /\ available' \subseteq available /\ assigned' \subseteq assigned
               /\ Fresh' = Fresh
<1> DEFINE killed == Sick(available) \cup Sick(assigned)
<1>1. assigned' = assigned \ killed
  BY DEF Housekeeping
<1>2. CASE /\ available \cup assigned \subseteq killed
           /\ \E i \in Instance : available' = {i} /\ Launch(i, killed)
  <2>1. PICK i \in Instance : available' = {i} /\ Launch(i, killed)
    BY <1>2
  <2>2. /\ i \in Fresh /\ assigned' = {}
        /\ health' = [health EXCEPT ![i] = "healthy"]
        /\ alive' \subseteq alive \cup {i}
    BY <1>1, <1>2, <2>1 DEF Launch
  <2>3. Fresh' = Fresh \ {i}
    BY <2>2 DEF Fresh, PoolInv, PoolTypeOK
  <2>4. PoolTypeOK'
    BY <2>1, <2>2 DEF PoolTypeOK, PoolInv
  <2>5. /\ IsFiniteSet(available') /\ IsFiniteSet(assigned')
        /\ Cardinality(available') = 1 /\ Cardinality(assigned') = 0
    BY <2>1, <2>2, FS_Singleton, FS_EmptySet
  <2>6. PoolBound'
    BY <2>1, <2>2, <2>5, PoolAssumption DEF PoolBound
  <2> QED
    BY <2>1, <2>2, <2>3, <2>4, <2>5, <2>6 DEF PoolInv, StillStarted
<1>3. CASE /\ available \cup assigned \subseteq killed
           /\ available' = {Nil} /\ KillOnly(killed)
  <2>1. assigned' = {} /\ health' = health /\ alive' \subseteq alive
    BY <1>1, <1>3 DEF KillOnly
  <2>2. Fresh' = Fresh
    BY <2>1 DEF Fresh
  <2>3. PoolTypeOK'
    BY <1>3, <2>1 DEF PoolTypeOK, PoolInv
  <2>4. /\ IsFiniteSet(available') /\ IsFiniteSet(assigned')
        /\ Cardinality(available') = 1 /\ Cardinality(assigned') = 0
    BY <1>3, <2>1, FS_Singleton, FS_EmptySet
  <2>5. PoolBound'
    BY <1>3, <2>1, <2>4, PoolAssumption DEF PoolBound
  <2>6. Nil \notin Fresh
    BY PoolAssumption DEF Fresh
  <2> QED
    BY <1>3, <2>1, <2>2, <2>3, <2>4, <2>5, <2>6 DEF PoolInv, StillStarted
<1>4. CASE available' = available \ killed /\ KillOnly(killed)
  <2>1. /\ health' = health /\ alive' \subseteq alive
        /\ available' \subseteq available /\ assigned' \subseteq assigned
    BY <1>1, <1>4 DEF KillOnly
  <2>2. Fresh' = Fresh
    BY <2>1 DEF Fresh
  <2>3. PoolTypeOK'
    BY <2>1 DEF PoolTypeOK, PoolInv
  <2> QED
    BY <2>1, <2>2, <2>3, ShrinkStep
<1> QED
  BY <1>2, <1>3, <1>4 DEF Housekeeping

\* The health of an instance changes.
LEMMA SickenStep ==
  ASSUME PoolInv, NEW i \in Instance, Sicken(i)
  PROVE  PoolInv' /\ StillStarted /\ Fresh' = Fresh
<1>1. /\ available' = available /\ assigned' = assigned
      /\ health[i] = "healthy" /\ health' = [health EXCEPT ![i] = "unhealthy"]
      /\ alive' \subseteq alive
  BY DEF Sicken
<1>2. Fresh' = Fresh
  BY <1>1 DEF Fresh, PoolInv, PoolTypeOK
<1>3. PoolTypeOK'
  BY <1>1 DEF PoolTypeOK, PoolInv
<1> QED
  BY <1>1, <1>2, <1>3, ShrinkStep

\* The pool never has more than maxControllers instances, and none in both of
\* its slices, in whatever order Get, Return and housekeeping are called
\* (daemon/pool/pool.go).
THEOREM PoolIsBounded == PoolSpec => []PoolBound
<1>1. PoolInv /\ [PoolNext]_poolVars => PoolInv'
  <2> SUFFICES ASSUME PoolInv, [PoolNext]_poolVars PROVE PoolInv'
    OBVIOUS
  <2>1. ASSUME NEW i \in Instance, Get(i) PROVE PoolInv'
    BY <2>1, GetStep
  <2>2. ASSUME NEW i \in Instance, Sicken(i) PROVE PoolInv'
    BY <2>2, SickenStep
  <2>3. ASSUME NEW i \in Instance \ Fresh, NEW whole \in BOOLEAN,
               Return(i, whole)
        PROVE  PoolInv'
    BY <2>3, ReturnStep
  <2>4. CASE GetFails
    BY <2>4, GetFailsStep
  <2>5. CASE Housekeeping
    BY <2>5, HousekeepingStep
  <2>6. CASE UNCHANGED poolVars
    BY <2>6 DEF poolVars, PoolInv, PoolTypeOK, PoolBound, Fresh
  <2> QED
    BY <2>1, <2>2, <2>3, <2>4, <2>5, <2>6 DEF PoolNext
<1>2. PoolInv => PoolBound
  BY DEF PoolInv
<1> QED
  BY InitPool, <1>1, <1>2, PTL DEF PoolSpec

-----------------------------------------------------------------------------
(* The sessions *)

\* Where a handler can be, given the map of sessions and the wait list of the
\* condition variable: a session is in the map from Create's registration of
\* it to the end of its teardown.
Registered ==
  /\ \A c \in sessions : pc[c] \notin {"idle", "create", "parked", "woken"}
  /\ \A c \in Client :
       pc[c] \in {"setup", "abort teardown", "close teardown"} => c \in sessions
  /\ \A c \in queue : pc[c] = "parked"

\* The map of sessions is finite, and counted by the WaitGroup.
Counted == IsFiniteSet(sessions) /\ SessionsCounted

\* Sessions hold instances of their own that were started; what the pool takes
\* for assigned is held by a session.
Leased ==
  /\ \A c \in sessions : controller[c] \notin Fresh
  /\ ExclusiveUse
  /\ assigned \subseteq {controller[c] : c \in sessions}

SessionInv == TypeOK /\ PoolInv /\ Registered /\ Counted /\ Leased

LEMMA InitSessions == Init => SessionInv
<1> SUFFICES ASSUME Init PROVE SessionInv
  OBVIOUS
<1>1. PoolInv
  BY InitPool DEF Init
<1>2. TypeOK
  BY <1>1 DEF Init, TypeOK, PoolInv, Points
<1>3. Registered
  BY DEF Init, Registered
<1>4. Counted
  BY FS_EmptySet DEF Init, Counted, SessionsCounted
<1>5. Leased
  BY DEF Init, PoolInit, Leased, ExclusiveUse
<1> QED
  BY <1>1, <1>2, <1>3, <1>4, <1>5 DEF SessionInv

-----------------------------------------------------------------------------
(* Steps that touch neither the pool nor the map of sessions *)

LEMMA QuietStep ==
  ASSUME SessionInv, UNCHANGED <<poolVars, table>>, TypeOK', Registered'
  PROVE  SessionInv'
BY DEF SessionInv, poolVars, table, PoolInv, PoolBound, PoolTypeOK, Fresh,
       Counted, SessionsCounted, Leased, ExclusiveUse

LEMMA ControlStep ==
  ASSUME SessionInv, NEW c \in Client,
         \/ SetupTest(c) \/ CreateRejected(c) \/ CreateWaits(c)
         \/ SetupReturns(c) \/ ExecuteTest(c) \/ ExecuteReturns(c)
         \/ CloseSession(c) \/ DestroyFindsNothing(c) \/ DestroyStarts(c)
         \/ TeardownReturns(c) \/ Vanish(c)
  PROVE  SessionInv' /\ UNCHANGED <<poolVars, table>>
<1> USE DEF SessionInv, Registered, Goto, lock, table, ends
<1>1. UNCHANGED <<poolVars, table>>
  BY DEF SetupTest, CreateRejected, CreateWaits, SetupReturns, ExecuteTest,
         ExecuteReturns, CloseSession, DestroyFindsNothing, DestroyStarts,
         TeardownReturns, Vanish
<1>2. PoolTypeOK'
  BY <1>1 DEF poolVars, PoolTypeOK, PoolInv
<1>3. CASE SetupTest(c)
  BY <1>1, <1>2, <1>3, QuietStep DEF SetupTest, TypeOK, Points
<1>4. CASE CreateRejected(c)
  BY <1>1, <1>2, <1>4, QuietStep DEF CreateRejected, AtCreate, TypeOK, Points
<1>5. CASE CreateWaits(c)
  BY <1>1, <1>2, <1>5, QuietStep DEF CreateWaits, AtCreate, TypeOK, Points
<1>6. CASE SetupReturns(c)
  BY <1>1, <1>2, <1>6, QuietStep DEF SetupReturns, TypeOK, Points
<1>7. CASE ExecuteTest(c)
  BY <1>1, <1>2, <1>7, QuietStep DEF ExecuteTest, TypeOK, Points
<1>8. CASE ExecuteReturns(c)
  BY <1>1, <1>2, <1>8, QuietStep DEF ExecuteReturns, TypeOK, Points
<1>9. CASE CloseSession(c)
  BY <1>1, <1>2, <1>9, QuietStep DEF CloseSession, TypeOK, Points
<1>10. CASE DestroyFindsNothing(c)
  BY <1>1, <1>2, <1>10, QuietStep
     DEF DestroyFindsNothing, AfterDestroy, TypeOK, Points
<1>11. CASE DestroyStarts(c)
  BY <1>1, <1>2, <1>11, QuietStep DEF DestroyStarts, TypeOK, Points
<1>12. CASE TeardownReturns(c)
  BY <1>1, <1>2, <1>12, QuietStep DEF TeardownReturns, TypeOK, Points
<1>13. CASE Vanish(c)
  BY <1>1, <1>2, <1>13, QuietStep DEF Vanish, TypeOK, Points
<1> QED
  BY <1>1, <1>3, <1>4, <1>5, <1>6, <1>7, <1>8, <1>9, <1>10, <1>11, <1>12, <1>13

LEMMA ShutdownStep ==
  ASSUME SessionInv, ShutdownRPC \/ WaitFinish \/ Broadcast \/ Drained
  PROVE  SessionInv' /\ UNCHANGED <<poolVars, table>>
<1> USE DEF SessionInv, Registered, lock, table, ends
<1>1. UNCHANGED <<poolVars, table>>
  BY DEF ShutdownRPC, WaitFinish, Broadcast, Drained
<1>2. PoolTypeOK'
  BY <1>1 DEF poolVars, PoolTypeOK, PoolInv
<1>3. CASE ShutdownRPC
  BY <1>1, <1>2, <1>3, QuietStep DEF ShutdownRPC, TypeOK
<1>4. CASE WaitFinish
  BY <1>1, <1>2, <1>4, QuietStep DEF WaitFinish, TypeOK
<1>5. CASE Broadcast
  BY <1>1, <1>2, <1>5, QuietStep DEF Broadcast, TypeOK, Points
<1>6. CASE Drained
  BY <1>1, <1>2, <1>6, QuietStep DEF Drained, TypeOK
<1> QED
  BY <1>1, <1>3, <1>4, <1>5, <1>6

-----------------------------------------------------------------------------
(* Steps that do *)

\* A created session gets an instance that no session holds.
LEMMA CreateStep ==
  ASSUME SessionInv, NEW c \in Client, CreateGets(c), NEW i \in Instance, Get(i),
         controller' = [controller EXCEPT ![c] = i]
  PROVE  /\ SessionInv' /\ c \notin sessions
         /\ \A d \in sessions : controller[d] # i
<1>1. /\ PoolInv' /\ available' \subseteq available \ {i}
      /\ assigned' = assigned \cup {i} /\ Fresh' = Fresh \ {i}
      /\ i \in available \cup Fresh
  BY GetStep DEF SessionInv
<1>2. /\ sessions' = sessions \cup {c} /\ wg' = wg + 1
      /\ pc' = [pc EXCEPT ![c] = "setup"]
      /\ mutex' = c /\ UNCHANGED <<queue, clean, ends>>
      /\ pc[c] \in {"create", "woken"} /\ Cardinality(sessions) <= 1
  BY DEF CreateGets, Goto, AtCreate, MayCreate
<1>3. c \notin sessions /\ c \notin queue
  BY <1>2 DEF SessionInv, Registered
<1>4. \A d \in sessions : controller[d] # i
  BY <1>1 DEF SessionInv, Leased, ExclusiveUse
<1>5. TypeOK'
  <2>1. PoolTypeOK'
    BY <1>1 DEF PoolInv
  <2>2. /\ pc' \in [Client -> Points]
        /\ controller' \in [Client -> Instance \cup {Nil}]
    BY <1>2 DEF SessionInv, TypeOK, Points
  <2> QED
    BY <1>2, <2>1, <2>2 DEF SessionInv, TypeOK, ends
<1>6. Registered'
  BY <1>2, <1>3 DEF SessionInv, Registered, TypeOK
<1>7. Counted'
  <2>1. /\ IsFiniteSet(sessions')
        /\ Cardinality(sessions') = Cardinality(sessions) + 1
    BY <1>2, <1>3, FS_AddElement DEF SessionInv, Counted
  <2>2. Cardinality(sessions) \in Nat
    BY FS_CardinalityType DEF SessionInv, Counted
  <2> QED
    BY <1>2, <2>1, <2>2 DEF SessionInv, Counted, SessionsCounted
<1>8. Leased'
  <2>1. controller'[c] = i /\ \A d \in sessions : controller'[d] = controller[d]
    BY <1>3 DEF SessionInv, TypeOK
  <2>2. ExclusiveUse'
    BY <1>1, <1>2, <1>3, <1>4, <2>1 DEF SessionInv, Leased, ExclusiveUse
  <2> QED
    BY <1>1, <1>2, <2>1, <2>2 DEF SessionInv, Leased
<1> QED
  BY <1>1, <1>3, <1>4, <1>5, <1>6, <1>7, <1>8 DEF SessionInv

LEMMA CreateFailsStep ==
  ASSUME SessionInv, NEW c \in Client, CreateGetFails(c)
  PROVE  SessionInv'
<1>1. /\ PoolInv' /\ available' = {} /\ assigned' = assigned /\ Fresh' = Fresh
  BY GetFailsStep DEF SessionInv, CreateGetFails
<1>2. /\ pc' = [pc EXCEPT ![c] = "failed"] /\ UNCHANGED <<lock, table, ends>>
      /\ pc[c] \in {"create", "woken"}
  BY DEF CreateGetFails, Goto, AtCreate
<1>3. TypeOK'
  BY <1>1, <1>2 DEF SessionInv, TypeOK, PoolInv, Points, lock, table, ends
<1>4. Registered'
  BY <1>2 DEF SessionInv, Registered, TypeOK, lock, table
<1>5. Counted' /\ Leased'
  BY <1>1, <1>2 DEF SessionInv, Counted, SessionsCounted, Leased, ExclusiveUse,
                    table
<1> QED
  BY <1>1, <1>3, <1>4, <1>5 DEF SessionInv

\* A destroyed session gives back the instance that only it held.
LEMMA DestroyStep ==
  ASSUME SessionInv, NEW c \in Client, DestroyEnds(c)
  PROVE  /\ SessionInv'
         /\ c \in sessions /\ sessions' = sessions \ {c}
         /\ controller' = controller /\ Fresh' = Fresh
         /\ assigned' = assigned \ {controller[c]}
         /\ available' \in {available, available \cup ({controller[c]} \cap assigned)}
<1> DEFINE i == controller[c]
<1>1. /\ c \in sessions /\ i \in Instance \ available /\ i \notin Fresh
      /\ Return(i, clean = "yes")
  BY DEF SessionInv, Registered, DestroyEnds, Leased, ExclusiveUse
<1>2. /\ PoolInv' /\ Fresh' = Fresh /\ assigned' = assigned \ {i}
      /\ available' = IF i \in assigned /\ clean = "yes" THEN available \cup {i}
                                                         ELSE available
  BY <1>1, ReturnStep DEF SessionInv
<1>3. /\ sessions' = sessions \ {c} /\ wg' = wg - 1 /\ controller' = controller
      /\ mutex' = Nobody /\ clean' = "unknown" /\ UNCHANGED ends
      /\ pc[c] \in {"abort teardown", "close teardown"} /\ Signal(c)
  BY DEF DestroyEnds
<1>4. Counted'
  <2>1. /\ IsFiniteSet(sessions')
        /\ Cardinality(sessions') = Cardinality(sessions) - 1
    BY <1>1, <1>3, FS_RemoveElement DEF SessionInv, Counted
  <2>2. Cardinality(sessions) \in Nat /\ Cardinality(sessions') \in Nat
    BY <2>1, FS_CardinalityType DEF SessionInv, Counted
  <2>3. wg' = wg - 1 /\ Cardinality(sessions) <= 2 /\ wg = Cardinality(sessions)
    BY <1>3 DEF SessionInv, Counted, SessionsCounted
  <2> QED
    BY <2>1, <2>2, <2>3 DEF Counted, SessionsCounted
<1>5. wg' \in Nat
  BY <1>4, FS_CardinalityType DEF Counted, SessionsCounted
<1>6. PICK woken \in SUBSET queue :
        /\ pc' = [d \in Client |-> IF d \in woken THEN "woken"
                               ELSE IF d = c THEN AfterDestroy(c) ELSE pc[d]]
        /\ queue' = queue \ woken
  <2>1. c \notin queue
    BY <1>3 DEF SessionInv, Registered
  <2>2. CASE queue = {}
    BY <1>3, <2>2 DEF SessionInv, TypeOK, Signal, Goto
  <2>3. CASE queue # {}
    <3>1. PICK d \in queue :
            /\ pc' = [pc EXCEPT ![c] = AfterDestroy(c), ![d] = "woken"]
            /\ queue' = queue \ {d}
      BY <1>3, <2>3 DEF Signal
    <3>2. pc' = [e \in Client |-> IF e \in {d} THEN "woken"
                               ELSE IF e = c THEN AfterDestroy(c) ELSE pc[e]]
      BY <2>1, <3>1 DEF SessionInv, TypeOK
    <3> QED
      BY <3>1, <3>2
  <2> QED
    BY <2>2, <2>3
<1>7. AfterDestroy(c) \in {"close", "done"}
  BY DEF AfterDestroy
<1>8. TypeOK'
  <2>1. PoolTypeOK'
    BY <1>2 DEF PoolInv
  <2>2. pc' \in [Client -> Points]
    BY <1>6, <1>7 DEF SessionInv, TypeOK, Points
  <2> QED
    BY <1>3, <1>5, <1>6, <2>1, <2>2 DEF SessionInv, TypeOK, ends
<1>9. Registered'
  BY <1>3, <1>6, <1>7 DEF SessionInv, TypeOK, Registered
<1>10. Leased'
  <2>1. \A d \in sessions' : controller'[d] # i
    BY <1>1, <1>3 DEF SessionInv, Leased, ExclusiveUse
  <2>2. ExclusiveUse'
    BY <1>2, <1>3, <2>1 DEF SessionInv, Leased, ExclusiveUse
  <2>3. (assigned \subseteq {controller[d] : d \in sessions})'
    BY <1>2, <1>3 DEF SessionInv, Leased
  <2> QED
    BY <1>2, <1>3, <2>2, <2>3 DEF SessionInv, Leased
<1> QED
  BY <1>1, <1>2, <1>3, <1>4, <1>8, <1>9, <1>10 DEF SessionInv

\* Housekeeping and failures of instances leave the sessions alone.
LEMMA PoolStepInv ==
  ASSUME SessionInv, PoolStep
  PROVE  SessionInv' /\ UNCHANGED sessionVars
<1>1. UNCHANGED sessionVars
  BY DEF PoolStep
<1>2. /\ PoolInv' /\ Fresh' \subseteq Fresh /\ assigned' \subseteq assigned
      /\ available' \subseteq available \cup Fresh \cup {Nil}
  <2>1. CASE Housekeeping
    BY <2>1, HousekeepingStep DEF SessionInv, StillStarted
  <2>2. ASSUME NEW i \in Instance, Sicken(i)
        PROVE  /\ PoolInv' /\ Fresh' = Fresh
               /\ assigned' = assigned /\ available' = available
    BY <2>2, SickenStep DEF SessionInv, Sicken
  <2> QED
    BY <2>1, <2>2 DEF PoolStep
<1>3. TypeOK'
  BY <1>1, <1>2 DEF SessionInv, TypeOK, PoolInv, sessionVars, lock, table, ends
<1>4. Registered' /\ Counted'
  BY <1>1 DEF SessionInv, Registered, Counted, SessionsCounted, sessionVars,
              lock, table
<1>5. Leased'
  BY <1>1, <1>2, PoolAssumption
     DEF SessionInv, Leased, ExclusiveUse, sessionVars, table
<1> QED
  BY <1>1, <1>2, <1>3, <1>4, <1>5 DEF SessionInv

LEMMA NextInv == SessionInv /\ [Next]_vars => SessionInv'
<1> SUFFICES ASSUME SessionInv, [Next]_vars PROVE SessionInv'
  OBVIOUS
<1>1. ASSUME NEW c \in Client, HandlerStep(c) PROVE SessionInv'
  <2>1. CASE CreateGets(c)
    BY <2>1, CreateStep DEF CreateGets
  <2>2. CASE CreateGetFails(c)
    BY <2>2, CreateFailsStep
  <2>3. CASE DestroyEnds(c)
    BY <2>3, DestroyStep
  <2> QED
    BY <1>1, <2>1, <2>2, <2>3, ControlStep DEF HandlerStep
<1>2. ASSUME NEW c \in Client,
             SetupTest(c) \/ ExecuteTest(c) \/ CloseSession(c) \/ Vanish(c)
      PROVE  SessionInv'
  BY <1>2, ControlStep
<1>3. CASE PoolStep
  BY <1>3, PoolStepInv
<1>4. CASE ShutdownRPC \/ WaitFinish \/ Broadcast \/ Drained
  BY <1>4, ShutdownStep
<1>5. CASE UNCHANGED vars
  <2>1. UNCHANGED <<poolVars, table>> /\ TypeOK' /\ Registered'
    BY <1>5 DEF vars, sessionVars, poolVars, lock, table, ends, SessionInv,
                TypeOK, PoolTypeOK, Registered
  <2> QED
    BY <2>1, QuietStep
<1> QED
  BY <1>1, <1>2, <1>3, <1>4, <1>5 DEF Next

LEMMA SessionsInvariant == Spec => []SessionInv
BY InitSessions, NextInv, PTL DEF Spec

\* The variables have their types: the WaitGroup never goes below zero, where
\* wg.Done panics (session/controller.go: DestroyByID).
THEOREM SessionTypes == Spec => []TypeOK
<1>1. SessionInv => TypeOK
  BY DEF SessionInv
<1> QED
  BY <1>1, SessionsInvariant, PTL

\* No two sessions use the same instance, and none of them uses one that the
\* pool may hand out, although housekeeping removes instances under their feet
\* (session/controller.go: Create, DestroyByID; pool.go: Get, Return).
THEOREM Exclusive == Spec => []ExclusiveUse
<1>1. SessionInv => ExclusiveUse
  BY DEF SessionInv, Leased
<1> QED
  BY <1>1, SessionsInvariant, PTL

\* The WaitGroup counts the sessions, of which there are at most two.
THEOREM SessionCount == Spec => []SessionsCounted
<1>1. SessionInv => SessionsCounted
  BY DEF SessionInv, Counted
<1> QED
  BY <1>1, SessionsInvariant, PTL

\* The pool keeps its bound under the calls the sessions make.
THEOREM SessionPoolBound == Spec => []PoolBound
<1>1. SessionInv => PoolBound
  BY DEF SessionInv, PoolInv
<1> QED
  BY <1>1, SessionsInvariant, PTL

\* A pool of two or more is never asked for more than it has: the limit on the
\* sessions in Create fits every such pool (the TODO "Link this value to pool
\* size").
THEOREM PoolSuffices ==
  ASSUME MaxControllers >= 2
  PROVE  Spec => []NeverExhausted
<1>1. SessionInv => NeverExhausted
  <2> SUFFICES ASSUME SessionInv, NEW c \in Client, MayCreate(c)
               PROVE  ~Exhausted
    BY DEF NeverExhausted
  <2>1. IsFiniteSet(sessions) /\ Cardinality(sessions) <= 1
    BY DEF SessionInv, Counted, MayCreate
  <2> DEFINE held  == {controller[d] : d \in sessions}
             holds == [d \in sessions |-> controller[d]]
  <2>2. /\ IsFiniteSet(held)
        /\ Cardinality(held) <= Cardinality(sessions)
    <3>1. holds \in Surjection(sessions, held)
      BY DEF Surjection
    <3> QED
      BY <2>1, <3>1, FS_Surjection
  <2>3. assigned \subseteq held
    BY DEF SessionInv, Leased
  <2>4. Cardinality(assigned) <= Cardinality(held)
    BY <2>2, <2>3, SubsetCard
  <2>5. /\ Cardinality(sessions) \in Nat /\ Cardinality(assigned) \in Nat
        /\ Cardinality(held) \in Nat
    BY <2>1, <2>2, FS_CardinalityType DEF SessionInv, PoolInv
  <2>6. Cardinality(assigned) < MaxControllers
    BY <2>1, <2>2, <2>4, <2>5, PoolAssumption
  <2> QED
    BY <2>5, <2>6, PoolAssumption DEF Exhausted
<1> QED
  BY <1>1, SessionsInvariant, PTL

-----------------------------------------------------------------------------
(* Refinement.  Under the mapping of SessionController a session is a lease. *)

Uses == [c \in Client |-> IF c \in sessions THEN controller[c] ELSE Nil]
Good == (available \cup assigned) \ {Nil}

LEMMA InitLease == Init => Lease!Init
<1> SUFFICES ASSUME Init PROVE Lease!Init
  OBVIOUS
<1>1. PICK i \in Instance :
        /\ available = {i} /\ assigned = {}
        /\ health = [j \in Instance |-> IF j = i THEN "healthy" ELSE "unborn"]
  BY DEF Init, PoolInit
<1>2. Good = {i} /\ Instance \ Fresh = {i}
  BY <1>1, PoolAssumption DEF Good, Fresh
<1>3. Uses = [c \in Client |-> Nil]
  BY DEF Init, Uses
<1> QED
  BY <1>2, <1>3 DEF Lease!Init, Good, Uses

\* What the abstract state does not show.
LEMMA LeaseStutter ==
  ASSUME UNCHANGED <<sessions, controller>>, Fresh' = Fresh, Good' \subseteq Good
  PROVE  Lease!GiveUp
BY DEF Lease!GiveUp, Good

LEMMA OpenStep ==
  ASSUME SessionInv, NEW c \in Client, CreateGets(c)
  PROVE  \E i \in Instance : Lease!Open(c, i)
<1>1. PICK i \in Instance : /\ Get(i)
                            /\ controller' = [controller EXCEPT ![c] = i]
  BY DEF CreateGets
<1>2. /\ c \notin sessions /\ \A d \in sessions : controller[d] # i
      /\ sessions' = sessions \cup {c}
  BY <1>1, CreateStep DEF CreateGets
<1>3. /\ available' \subseteq available /\ assigned' = assigned \cup {i}
      /\ Fresh' = Fresh \ {i} /\ i \in available \cup Fresh
  BY <1>1, GetStep DEF SessionInv
<1>4. i # Nil
  BY PoolAssumption
<1>5. Uses' = [Uses EXCEPT ![c] = i]
  BY <1>1, <1>2 DEF SessionInv, TypeOK, Uses
<1>6. Uses[c] = Nil /\ ~\E d \in Client : Uses[d] = i
  BY <1>2, <1>4 DEF Uses
<1>7. /\ i \in Good \/ i \notin Instance \ Fresh
      /\ Good' \subseteq Good \cup {i} /\ i \in Good'
      /\ (Instance \ Fresh)' = (Instance \ Fresh) \cup {i}
  BY <1>3, <1>4 DEF Good
<1> QED
  BY <1>5, <1>6, <1>7 DEF Lease!Open, Lease!InUse, Uses, Good

LEMMA CloseStep ==
  ASSUME SessionInv, NEW c \in Client, DestroyEnds(c)
  PROVE  Lease!Close(c)
<1> DEFINE i == controller[c]
<1>1. /\ c \in sessions /\ sessions' = sessions \ {c}
      /\ controller' = controller /\ Fresh' = Fresh
      /\ assigned' = assigned \ {i}
      /\ available' \in {available, available \cup ({i} \cap assigned)}
  BY DestroyStep
<1>2. i \in Instance \ available /\ i # Nil
  BY <1>1, PoolAssumption DEF SessionInv, Leased, ExclusiveUse
<1>3. Uses[c] = i /\ Uses' = [Uses EXCEPT ![c] = Nil]
  BY <1>1 DEF Uses
<1>4. Good' \in {Good, Good \ {i}}
  <2>1. CASE available' = available
    BY <1>1, <1>2, <2>1 DEF Good
  <2>2. CASE available' = available \cup ({i} \cap assigned)
    <3>1. CASE i \in assigned
      BY <1>1, <1>2, <2>2, <3>1 DEF Good
    <3>2. CASE i \notin assigned
      BY <1>1, <1>2, <2>2, <3>2 DEF Good
    <3> QED
      BY <3>1, <3>2
  <2> QED
    BY <1>1, <2>1, <2>2
<1> QED
  BY <1>1, <1>2, <1>3, <1>4 DEF Lease!Close, Uses, Good

LEMMA PoolStepLease ==
  ASSUME SessionInv, PoolStep
  PROVE  Lease!GiveUp \/ \E i \in Instance : Lease!Replace(i)
<1>1. UNCHANGED <<sessions, controller>>
  BY DEF PoolStep, sessionVars, table
<1>2. CASE \E i \in Fresh : /\ available' = {i} /\ assigned' = {}
                            /\ Fresh' = Fresh \ {i}
  <2>1. PICK i \in Fresh : /\ available' = {i} /\ assigned' = {}
                           /\ Fresh' = Fresh \ {i}
    BY <1>2
  <2>2. i \in Instance /\ i # Nil
    BY PoolAssumption DEF Fresh
  <2>3. Good' = {i} /\ (Instance \ Fresh)' = (Instance \ Fresh) \cup {i}
    BY <2>1, <2>2 DEF Good
  <2> QED
    BY <1>1, <2>1, <2>2, <2>3 DEF Lease!Replace, Good
<1>3. CASE Fresh' = Fresh /\ Good' \subseteq Good
  BY <1>1, <1>3, LeaseStutter
<1>4. CASE Housekeeping
  <2>1. \/ \E i \in Fresh : /\ available' = {i} /\ assigned' = {}
                            /\ Fresh' = Fresh \ {i}
        \/ available' = {Nil} /\ assigned' = {} /\ Fresh' = Fresh
        \/ /\ available' \subseteq available /\ assigned' \subseteq assigned
           /\ Fresh' = Fresh
    BY <1>4, HousekeepingStep DEF SessionInv
  <2>2. ASSUME available' = {Nil}, assigned' = {} PROVE Good' \subseteq Good
    BY <2>2 DEF Good
  <2>3. ASSUME available' \subseteq available, assigned' \subseteq assigned
        PROVE  Good' \subseteq Good
    BY <2>3 DEF Good
  <2> QED
    BY <1>2, <1>3, <2>1, <2>2, <2>3
<1>5. ASSUME NEW i \in Instance, Sicken(i)
      PROVE  Fresh' = Fresh /\ Good' \subseteq Good
  BY <1>5, SickenStep DEF SessionInv, Sicken, Good
<1> QED
  BY <1>3, <1>4, <1>5 DEF PoolStep

\* The session controller and the pool together lend instances exclusively: a
\* session keeps its instance from Create to the end of DestroyByID, and an
\* instance once removed as unhealthy or returned unclean is not lent again, in
\* whatever order Get, Return and housekeeping find it.
THEOREM LeaseRefinement == Spec => ImplementsLease
<1>1. SessionInv /\ [Next]_vars => [Lease!Next]_Lease!vars
  <2> SUFFICES ASSUME SessionInv, [Next]_vars, ~UNCHANGED Lease!vars
               PROVE  Lease!Next
    OBVIOUS
  <2>1. ASSUME UNCHANGED <<poolVars, table>> PROVE FALSE
    BY <2>1 DEF Lease!vars, poolVars, table, Fresh
  <2>2. ASSUME NEW c \in Client, HandlerStep(c) PROVE Lease!Next
    <3>1. CASE CreateGets(c)
      BY <3>1, OpenStep DEF Lease!Next
    <3>2. CASE CreateGetFails(c)
      <4>1. available' = {} /\ assigned' = assigned /\ Fresh' = Fresh
        BY <3>2, GetFailsStep DEF SessionInv, CreateGetFails
      <4>2. UNCHANGED <<sessions, controller>> /\ Good' \subseteq Good
        BY <3>2, <4>1 DEF CreateGetFails, table, Good
      <4> QED
        BY <4>1, <4>2, LeaseStutter DEF Lease!Next
    <3>3. CASE DestroyEnds(c)
      BY <3>3, CloseStep DEF Lease!Next
    <3> QED
      BY <2>1, <2>2, <3>1, <3>2, <3>3, ControlStep DEF HandlerStep
  <2>3. ASSUME NEW c \in Client,
               SetupTest(c) \/ ExecuteTest(c) \/ CloseSession(c) \/ Vanish(c)
        PROVE  Lease!Next
    BY <2>1, <2>3, ControlStep
  <2>4. CASE PoolStep
    BY <2>4, PoolStepLease DEF Lease!Next
  <2>5. CASE ShutdownRPC \/ WaitFinish \/ Broadcast \/ Drained
    BY <2>1, <2>5, ShutdownStep
  <2>6. CASE UNCHANGED vars
    BY <2>1, <2>6 DEF vars, sessionVars
  <2> QED
    BY <2>2, <2>3, <2>4, <2>5, <2>6 DEF Next
<1> QED
  BY InitLease, SessionsInvariant, <1>1, PTL
     DEF Spec, ImplementsLease, Lease!Spec

=================================================================================
