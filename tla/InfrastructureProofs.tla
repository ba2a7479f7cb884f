------------------------ MODULE InfrastructureProofs ------------------------
(***************************************************************************)
(* Theorems about Infrastructure, for every set of compositions, of        *)
(* closers, of dispatchers and of failing operations.                      *)
(***************************************************************************)
EXTENDS Infrastructure, FiniteSetTheorems, WellFoundedInduction, TLAPS

-----------------------------------------------------------------------------
(* Types.                                                                  *)

\* Resources are counted.
LEMMA IndicesAreNumbers ==
  ASSUME NEW t \in Topologies
  PROVE  IsDeclaration(t) /\ ResourceIndices(t) \subseteq Nat
<1>1. IsDeclaration(t)
  BY InfrastructureAssumption
<1>2. DOMAIN t.resources = 1 .. Len(t.resources) /\ Len(t.resources) \in Nat
  BY <1>1 DEF IsDeclaration
<1> QED BY <1>1, <1>2 DEF ResourceIndices

\* The contexts of a resource are managed.
LEMMA OfManaged == ASSUME NEW r \in Resources PROVE Of(r) \subseteq Managed
BY DEF Of, Managed, Contexts, Resources

\* Every managed context belongs to a resource.
LEMMA ManagedByOne == ASSUME NEW c \in Managed PROVE \E r \in Resources : c \in Of(r)
BY DEF Of, Managed, Contexts, Resources

\* Resources are dealt with in one order.
LEMMA FirstIsUnique ==
  ASSUME TypeOK, NEW r \in Resources, NEW s \in Resources, First(r), First(s)
  PROVE  r = s
<1>1. Resources \subseteq Nat
  BY IndicesAreNumbers DEF TypeOK, Resources
<1>2. r <= s /\ s <= r
  BY DEF First
<1> QED BY <1>1, <1>2

\* The composition is fixed, and with it the resources and their contexts.
LEMMA FixedTopology ==
  ASSUME [Next]_vars
  PROVE  /\ topology' = topology
         /\ Resources' = Resources /\ Managed' = Managed
         /\ \A r : Of(r)' = Of(r) /\ Kind(r)' = Kind(r)
<1>1. topology' = topology
  <2>1. CASE AppStep
    BY <2>1
       DEF AppStep, BeginInitialize, CommitInitialization, BeginStart, PublishStarted,
           BeginRollback, PublishRollback, WakeStarted, DestroyAll, BeginFinalize,
           BeginTeardown, EndTeardownFailed, PublishShutdownComplete, WakeCompleted,
           InitializeResource, FailInitialization, StartResource, FindQuiescent, FindBusy,
           TerminateResource, DestroyResource, StartContext, FailStart, Joined, JoinFails
  <2>2. CASE \E x \in Closers : CloserStep(x)
    BY <2>2
       DEF CloserStep, BeginShutdown, PublishShuttingDown, EndShutdownSweep, StopResource
  <2>3. CASE \E d \in Dispatchers : DispatchStep(d)
    BY <2>3 DEF DispatchStep, PassGate, Admit, RecheckGate, Activate, GiveUp
  <2>4. CASE \E c \in Managed : Trampoline(c)
    BY <2>4
       DEF Trampoline, ReadLifecycle, LookForWork, WakeUp, CallableConsumesSignal,
           CallableReturns, BeginWait, WaitIsWoken, WaitEnds, WaitGoesOn, WaitTimesOut
  <2>5. CASE UNCHANGED vars
    BY <2>5 DEF vars
  <2> QED BY <2>1, <2>2, <2>3, <2>4, <2>5 DEF Next
<1> QED BY <1>1 DEF Resources, Managed, Of, Kind

\* Every step keeps the types.
LEMMA TypesHold == TypeOK /\ [Next]_vars => TypeOK'
<1> SUFFICES ASSUME TypeOK, [Next]_vars PROVE TypeOK'
  OBVIOUS
<1> USE FixedTopology DEF States, Phases, Running, Locations
<1>1. CASE BeginInitialize
  BY <1>1 DEF BeginInitialize, TypeOK, appVars, closerVars, workVars, waitVars
<1>2. CASE CommitInitialization
  BY <1>2 DEF CommitInitialization, TypeOK, appVars, closerVars, workVars, waitVars
<1>3. CASE BeginStart
  BY <1>3 DEF BeginStart, TypeOK, appVars, closerVars, workVars, waitVars
<1>4. CASE PublishStarted
  BY <1>4 DEF PublishStarted, TypeOK, appVars, closerVars, workVars, waitVars
<1>5. CASE BeginRollback
  BY <1>5 DEF BeginRollback, TypeOK, appVars, closerVars, workVars, waitVars
<1>6. CASE PublishRollback
  BY <1>6 DEF PublishRollback, TypeOK, appVars, closerVars, workVars, waitVars
<1>7. CASE WakeStarted
  BY <1>7, OfManaged
     DEF WakeStarted, StartedContexts, TypeOK, appVars, closerVars, workVars,
         waitVars
<1>8. CASE DestroyAll
  BY <1>8 DEF DestroyAll, Destroyed, TypeOK, appVars, closerVars, workVars, waitVars
<1>9. CASE BeginFinalize
  BY <1>9 DEF BeginFinalize, TypeOK, appVars, closerVars, workVars, waitVars
<1>10. CASE BeginTeardown
  BY <1>10 DEF BeginTeardown, TypeOK, appVars, closerVars, workVars, waitVars
<1>11. CASE EndTeardownFailed
  BY <1>11 DEF EndTeardownFailed, TypeOK, appVars, closerVars, workVars, waitVars
<1>12. CASE PublishShutdownComplete
  BY <1>12 DEF PublishShutdownComplete, TypeOK, appVars, closerVars, workVars, waitVars
<1>13. CASE WakeCompleted
  BY <1>13 DEF WakeCompleted, TypeOK, appVars, closerVars, workVars, waitVars
<1>14. ASSUME NEW r \in Resources, InitializeResource(r) PROVE TypeOK'
  BY <1>14 DEF InitializeResource, TypeOK, appVars, closerVars, workVars, waitVars
<1>15. ASSUME NEW r \in Resources, FailInitialization(r) PROVE TypeOK'
  BY <1>15 DEF FailInitialization, TypeOK, appVars, closerVars, workVars, waitVars
<1>16. ASSUME NEW r \in Resources, StartResource(r) PROVE TypeOK'
  BY <1>16 DEF StartResource, TypeOK, appVars, closerVars, workVars, waitVars
<1>17. ASSUME NEW r \in Resources, FindQuiescent(r) PROVE TypeOK'
  BY <1>17 DEF FindQuiescent, TypeOK, appVars, closerVars, workVars, waitVars
<1>18. ASSUME NEW r \in Resources, FindBusy(r) PROVE TypeOK'
  BY <1>18 DEF FindBusy, TypeOK, appVars, closerVars, workVars, waitVars
<1>19. ASSUME NEW r \in Resources, TerminateResource(r) PROVE TypeOK'
  BY <1>19, OfManaged
     DEF TerminateResource, Terminated, ToJoin, TypeOK, appVars, closerVars,
         workVars, waitVars
<1>20. ASSUME NEW r \in Resources, DestroyResource(r) PROVE TypeOK'
  BY <1>20
     DEF DestroyResource, Destroyed, TypeOK, appVars, closerVars, workVars, waitVars
<1>21. ASSUME NEW r \in Resources, NEW c \in Of(r), StartContext(r, c) PROVE TypeOK'
  BY <1>21 DEF StartContext, TypeOK, appVars, closerVars, workVars, waitVars
<1>22. ASSUME NEW r \in Resources, NEW c \in Of(r), FailStart(r, c) PROVE TypeOK'
  BY <1>22, OfManaged
     DEF FailStart, Created, TypeOK, appVars, closerVars, workVars, waitVars
<1>23. ASSUME NEW r \in Resources, NEW c \in Of(r), Joined(r, c) PROVE TypeOK'
  BY <1>23 DEF Joined, TypeOK, appVars, closerVars, workVars, waitVars
<1>24. ASSUME NEW r \in Resources, NEW c \in Of(r), JoinFails(r, c) PROVE TypeOK'
  BY <1>24, OfManaged DEF JoinFails, TypeOK, appVars, closerVars, workVars, waitVars
<1>25. ASSUME NEW x \in Closers, BeginShutdown(x) PROVE TypeOK'
  BY <1>25 DEF BeginShutdown, TypeOK, appVars, closerVars, workVars, waitVars
<1>26. ASSUME NEW x \in Closers, PublishShuttingDown(x) PROVE TypeOK'
  BY <1>26 DEF PublishShuttingDown, TypeOK, appVars, closerVars, workVars, waitVars
<1>27. ASSUME NEW x \in Closers, EndShutdownSweep(x) PROVE TypeOK'
  BY <1>27 DEF EndShutdownSweep, TypeOK, appVars, closerVars, workVars, waitVars
<1>28. ASSUME NEW x \in Closers, NEW r \in Resources, StopResource(x, r) PROVE TypeOK'
  BY <1>28, OfManaged DEF StopResource, TypeOK, appVars, closerVars, workVars, waitVars
<1>29. ASSUME NEW d \in Dispatchers, RecheckGate(d) PROVE TypeOK'
  BY <1>29 DEF RecheckGate, TypeOK, appVars, closerVars, workVars, waitVars
<1>30. ASSUME NEW d \in Dispatchers, Activate(d) PROVE TypeOK'
  BY <1>30, OfManaged DEF Activate, TypeOK, appVars, closerVars, workVars, waitVars
<1>31. ASSUME NEW d \in Dispatchers, GiveUp(d) PROVE TypeOK'
  BY <1>31 DEF GiveUp, TypeOK, appVars, closerVars, workVars, waitVars
<1>32. ASSUME NEW d \in Dispatchers, NEW r \in Resources, PassGate(d, r) PROVE TypeOK'
  BY <1>32 DEF PassGate, TypeOK, appVars, closerVars, workVars, waitVars
<1>33. ASSUME NEW d \in Dispatchers, NEW c \in Managed, Admit(d, c) PROVE TypeOK'
  BY <1>33 DEF Admit, TypeOK, appVars, closerVars, workVars, waitVars
<1>34. ASSUME NEW c \in Managed, ReadLifecycle(c) PROVE TypeOK'
  BY <1>34 DEF ReadLifecycle, Goes, TypeOK, appVars, closerVars, workVars, waitVars
<1>35. ASSUME NEW c \in Managed, LookForWork(c) PROVE TypeOK'
  BY <1>35 DEF LookForWork, Goes, TypeOK, appVars, closerVars, workVars, waitVars
<1>36. ASSUME NEW c \in Managed, WakeUp(c) PROVE TypeOK'
  BY <1>36 DEF WakeUp, Goes, TypeOK, appVars, closerVars, workVars, waitVars
<1>37. ASSUME NEW c \in Managed, CallableConsumesSignal(c) PROVE TypeOK'
  BY <1>37 DEF CallableConsumesSignal, TypeOK, appVars, closerVars, workVars, waitVars
<1>38. ASSUME NEW c \in Managed, CallableReturns(c) PROVE TypeOK'
  BY <1>38 DEF CallableReturns, Goes, TypeOK, appVars, closerVars, workVars, waitVars
<1>39. ASSUME NEW c \in Managed, BeginWait(c) PROVE TypeOK'
  BY <1>39 DEF BeginWait, Goes, TypeOK, appVars, closerVars, workVars, waitVars
<1>40. ASSUME NEW c \in Managed, WaitIsWoken(c) PROVE TypeOK'
  BY <1>40 DEF WaitIsWoken, Goes, TypeOK, appVars, closerVars, workVars, waitVars
<1>41. ASSUME NEW c \in Managed, WaitEnds(c) PROVE TypeOK'
  BY <1>41
     DEF WaitEnds, Goes, Unregistered, TypeOK, appVars, closerVars, workVars,
         waitVars
<1>42. ASSUME NEW c \in Managed, WaitGoesOn(c) PROVE TypeOK'
  BY <1>42 DEF WaitGoesOn, Goes, TypeOK, appVars, closerVars, workVars, waitVars
<1>43. ASSUME NEW c \in Managed, WaitTimesOut(c) PROVE TypeOK'
  BY <1>43
     DEF WaitTimesOut, Goes, Unregistered, TypeOK, appVars, closerVars, workVars,
         waitVars
<1>44. CASE UNCHANGED vars
  BY <1>44 DEF vars, TypeOK, appVars, closerVars, workVars, waitVars
<1> QED
  BY <1>1, <1>2, <1>3, <1>4, <1>5, <1>6, <1>7, <1>8, <1>9, <1>10, <1>11, <1>12, <1>13,
     <1>14, <1>15, <1>16, <1>17, <1>18, <1>19, <1>20, <1>21, <1>22, <1>23, <1>24, <1>25,
     <1>26, <1>27, <1>28, <1>29, <1>30, <1>31, <1>32, <1>33, <1>34, <1>35, <1>36, <1>37,
     <1>38, <1>39, <1>40, <1>41, <1>42, <1>43, <1>44
     DEF Next, AppStep, CloserStep, DispatchStep, Trampoline

-----------------------------------------------------------------------------
(* One lemma for each part of the invariant, one step for each action.     *)

\* The phases of the callers keep step with the lifecycle.
LEMMA PhasesHold == TypeOK /\ PublishedPhases /\ [Next]_vars => PublishedPhases'
<1> SUFFICES ASSUME TypeOK /\ PublishedPhases, [Next]_vars PROVE PublishedPhases'
  OBVIOUS
<1> USE FixedTopology DEF PublishedPhases
<1>1. CASE BeginInitialize
  BY <1>1 DEF BeginInitialize, TypeOK, appVars, closerVars, workVars, waitVars
<1>2. CASE CommitInitialization
  BY <1>2 DEF CommitInitialization, TypeOK, appVars, closerVars, workVars, waitVars
<1>3. CASE BeginStart
  BY <1>3 DEF BeginStart, MayStart, TypeOK, appVars, closerVars, workVars, waitVars
<1>4. CASE PublishStarted
  BY <1>4 DEF PublishStarted, TypeOK, appVars, closerVars, workVars, waitVars
<1>5. CASE BeginRollback
  BY <1>5 DEF BeginRollback, TypeOK, appVars, closerVars, workVars, waitVars
<1>6. CASE PublishRollback
  BY <1>6 DEF PublishRollback, TypeOK, appVars, closerVars, workVars, waitVars
<1>7. CASE WakeStarted
  BY <1>7 DEF WakeStarted, TypeOK, appVars, closerVars, workVars, waitVars
<1>8. CASE DestroyAll
  BY <1>8 DEF DestroyAll, TypeOK, appVars, closerVars, workVars, waitVars
<1>9. CASE BeginFinalize
  BY <1>9 DEF BeginFinalize, TypeOK, appVars, closerVars, workVars, waitVars
<1>10. CASE BeginTeardown
  BY <1>10 DEF BeginTeardown, TypeOK, appVars, closerVars, workVars, waitVars
<1>11. CASE EndTeardownFailed
  BY <1>11 DEF EndTeardownFailed, TypeOK, appVars, closerVars, workVars, waitVars
<1>12. CASE PublishShutdownComplete
  BY <1>12 DEF PublishShutdownComplete, TypeOK, appVars, closerVars, workVars, waitVars
<1>13. CASE WakeCompleted
  BY <1>13 DEF WakeCompleted, TypeOK, appVars, closerVars, workVars, waitVars
<1>14. ASSUME NEW r \in Resources, InitializeResource(r) PROVE PublishedPhases'
  BY <1>14 DEF InitializeResource, TypeOK, appVars, closerVars, workVars, waitVars
<1>15. ASSUME NEW r \in Resources, FailInitialization(r) PROVE PublishedPhases'
  BY <1>15 DEF FailInitialization, TypeOK, appVars, closerVars, workVars, waitVars
<1>16. ASSUME NEW r \in Resources, StartResource(r) PROVE PublishedPhases'
  BY <1>16 DEF StartResource, TypeOK, appVars, closerVars, workVars, waitVars
<1>17. ASSUME NEW r \in Resources, FindQuiescent(r) PROVE PublishedPhases'
  BY <1>17 DEF FindQuiescent, TypeOK, appVars, closerVars, workVars, waitVars
<1>18. ASSUME NEW r \in Resources, FindBusy(r) PROVE PublishedPhases'
  BY <1>18 DEF FindBusy, TypeOK, appVars, closerVars, workVars, waitVars
<1>19. ASSUME NEW r \in Resources, TerminateResource(r) PROVE PublishedPhases'
  BY <1>19 DEF TerminateResource, TypeOK, appVars, closerVars, workVars, waitVars
<1>20. ASSUME NEW r \in Resources, DestroyResource(r) PROVE PublishedPhases'
  BY <1>20 DEF DestroyResource, TypeOK, appVars, closerVars, workVars, waitVars
<1>21. ASSUME NEW r \in Resources, NEW c \in Of(r), StartContext(r, c)
       PROVE  PublishedPhases'
  BY <1>21 DEF StartContext, TypeOK, appVars, closerVars, workVars, waitVars
<1>22. ASSUME NEW r \in Resources, NEW c \in Of(r), FailStart(r, c)
       PROVE  PublishedPhases'
  BY <1>22 DEF FailStart, TypeOK, appVars, closerVars, workVars, waitVars
<1>23. ASSUME NEW r \in Resources, NEW c \in Of(r), Joined(r, c) PROVE PublishedPhases'
  BY <1>23 DEF Joined, IsNext, TypeOK, appVars, closerVars, workVars, waitVars
<1>24. ASSUME NEW r \in Resources, NEW c \in Of(r), JoinFails(r, c)
       PROVE  PublishedPhases'
  BY <1>24 DEF JoinFails, IsNext, TypeOK, appVars, closerVars, workVars, waitVars
<1>25. ASSUME NEW x \in Closers, BeginShutdown(x) PROVE PublishedPhases'
  BY <1>25 DEF BeginShutdown, TypeOK, appVars, closerVars, workVars, waitVars
<1>26. ASSUME NEW x \in Closers, PublishShuttingDown(x) PROVE PublishedPhases'
  BY <1>26 DEF PublishShuttingDown, TypeOK, appVars, closerVars, workVars, waitVars
<1>27. ASSUME NEW x \in Closers, EndShutdownSweep(x) PROVE PublishedPhases'
  BY <1>27 DEF EndShutdownSweep, TypeOK, appVars, closerVars, workVars, waitVars
<1>28. ASSUME NEW x \in Closers, NEW r \in Resources, StopResource(x, r)
       PROVE  PublishedPhases'
  BY <1>28 DEF StopResource, TypeOK, appVars, closerVars, workVars, waitVars
<1>29. ASSUME NEW d \in Dispatchers, RecheckGate(d) PROVE PublishedPhases'
  BY <1>29 DEF RecheckGate, TypeOK, appVars, closerVars, workVars, waitVars
<1>30. ASSUME NEW d \in Dispatchers, Activate(d) PROVE PublishedPhases'
  BY <1>30 DEF Activate, TypeOK, appVars, closerVars, workVars, waitVars
<1>31. ASSUME NEW d \in Dispatchers, GiveUp(d) PROVE PublishedPhases'
  BY <1>31 DEF GiveUp, TypeOK, appVars, closerVars, workVars, waitVars
<1>32. ASSUME NEW d \in Dispatchers, NEW r \in Resources, PassGate(d, r)
       PROVE  PublishedPhases'
  BY <1>32 DEF PassGate, CanActivate, TypeOK, appVars, closerVars, workVars, waitVars
<1>33. ASSUME NEW d \in Dispatchers, NEW c \in Managed, Admit(d, c)
       PROVE  PublishedPhases'
  BY <1>33 DEF Admit, TypeOK, appVars, closerVars, workVars, waitVars
<1>34. ASSUME NEW c \in Managed, ReadLifecycle(c) PROVE PublishedPhases'
  BY <1>34 DEF ReadLifecycle, TypeOK, appVars, closerVars, workVars, waitVars
<1>35. ASSUME NEW c \in Managed, LookForWork(c) PROVE PublishedPhases'
  BY <1>35 DEF LookForWork, TypeOK, appVars, closerVars, workVars, waitVars
<1>36. ASSUME NEW c \in Managed, WakeUp(c) PROVE PublishedPhases'
  BY <1>36 DEF WakeUp, TypeOK, appVars, closerVars, workVars, waitVars
<1>37. ASSUME NEW c \in Managed, CallableConsumesSignal(c) PROVE PublishedPhases'
  BY <1>37 DEF CallableConsumesSignal, TypeOK, appVars, closerVars, workVars, waitVars
<1>38. ASSUME NEW c \in Managed, CallableReturns(c) PROVE PublishedPhases'
  BY <1>38 DEF CallableReturns, TypeOK, appVars, closerVars, workVars, waitVars
<1>39. ASSUME NEW c \in Managed, BeginWait(c) PROVE PublishedPhases'
  BY <1>39 DEF BeginWait, TypeOK, appVars, closerVars, workVars, waitVars
<1>40. ASSUME NEW c \in Managed, WaitIsWoken(c) PROVE PublishedPhases'
  BY <1>40 DEF WaitIsWoken, TypeOK, appVars, closerVars, workVars, waitVars
<1>41. ASSUME NEW c \in Managed, WaitEnds(c) PROVE PublishedPhases'
  BY <1>41 DEF WaitEnds, TypeOK, appVars, closerVars, workVars, waitVars
<1>42. ASSUME NEW c \in Managed, WaitGoesOn(c) PROVE PublishedPhases'
  BY <1>42 DEF WaitGoesOn, TypeOK, appVars, closerVars, workVars, waitVars
<1>43. ASSUME NEW c \in Managed, WaitTimesOut(c) PROVE PublishedPhases'
  BY <1>43 DEF WaitTimesOut, TypeOK, appVars, closerVars, workVars, waitVars
<1>44. CASE UNCHANGED vars
  BY <1>44 DEF vars, TypeOK, appVars, closerVars, workVars, waitVars
<1> QED
  BY <1>1, <1>2, <1>3, <1>4, <1>5, <1>6, <1>7, <1>8, <1>9, <1>10, <1>11, <1>12, <1>13,
     <1>14, <1>15, <1>16, <1>17, <1>18, <1>19, <1>20, <1>21, <1>22, <1>23, <1>24, <1>25,
     <1>26, <1>27, <1>28, <1>29, <1>30, <1>31, <1>32, <1>33, <1>34, <1>35, <1>36, <1>37,
     <1>38, <1>39, <1>40, <1>41, <1>42, <1>43, <1>44
     DEF Next, AppStep, CloserStep, DispatchStep, Trampoline

\* Work comes after Start.
LEMMA WorkHolds ==
  TypeOK /\ PublishedPhases /\ WorkOnlyOnceStarted /\ [Next]_vars => WorkOnlyOnceStarted'
<1> SUFFICES ASSUME TypeOK /\ PublishedPhases /\ WorkOnlyOnceStarted, [Next]_vars
             PROVE  WorkOnlyOnceStarted'
  OBVIOUS
<1> USE FixedTopology DEF WorkOnlyOnceStarted, PublishedPhases
<1>1. CASE BeginInitialize
  BY <1>1 DEF BeginInitialize, TypeOK, appVars, closerVars, workVars, waitVars
<1>2. CASE CommitInitialization
  BY <1>2 DEF CommitInitialization, TypeOK, appVars, closerVars, workVars, waitVars
<1>3. CASE BeginStart
  BY <1>3 DEF BeginStart, MayStart, TypeOK, appVars, closerVars, workVars, waitVars
<1>4. CASE PublishStarted
  BY <1>4 DEF PublishStarted, TypeOK, appVars, closerVars, workVars, waitVars
<1>5. CASE BeginRollback
  BY <1>5 DEF BeginRollback, TypeOK, appVars, closerVars, workVars, waitVars
<1>6. CASE PublishRollback
  BY <1>6 DEF PublishRollback, TypeOK, appVars, closerVars, workVars, waitVars
<1>7. CASE WakeStarted
  BY <1>7 DEF WakeStarted, TypeOK, appVars, closerVars, workVars, waitVars
<1>8. CASE DestroyAll
  BY <1>8 DEF DestroyAll, Destroyed, TypeOK, appVars, closerVars, workVars, waitVars
<1>9. CASE BeginFinalize
  BY <1>9 DEF BeginFinalize, TypeOK, appVars, closerVars, workVars, waitVars
<1>10. CASE BeginTeardown
  BY <1>10 DEF BeginTeardown, TypeOK, appVars, closerVars, workVars, waitVars
<1>11. CASE EndTeardownFailed
  BY <1>11 DEF EndTeardownFailed, TypeOK, appVars, closerVars, workVars, waitVars
<1>12. CASE PublishShutdownComplete
  BY <1>12 DEF PublishShutdownComplete, TypeOK, appVars, closerVars, workVars, waitVars
<1>13. CASE WakeCompleted
  BY <1>13 DEF WakeCompleted, TypeOK, appVars, closerVars, workVars, waitVars
<1>14. ASSUME NEW r \in Resources, InitializeResource(r) PROVE WorkOnlyOnceStarted'
  BY <1>14 DEF InitializeResource, TypeOK, appVars, closerVars, workVars, waitVars
<1>15. ASSUME NEW r \in Resources, FailInitialization(r) PROVE WorkOnlyOnceStarted'
  BY <1>15 DEF FailInitialization, TypeOK, appVars, closerVars, workVars, waitVars
<1>16. ASSUME NEW r \in Resources, StartResource(r) PROVE WorkOnlyOnceStarted'
  BY <1>16 DEF StartResource, TypeOK, appVars, closerVars, workVars, waitVars
<1>17. ASSUME NEW r \in Resources, FindQuiescent(r) PROVE WorkOnlyOnceStarted'
  BY <1>17 DEF FindQuiescent, TypeOK, appVars, closerVars, workVars, waitVars
<1>18. ASSUME NEW r \in Resources, FindBusy(r) PROVE WorkOnlyOnceStarted'
  BY <1>18 DEF FindBusy, TypeOK, appVars, closerVars, workVars, waitVars
<1>19. ASSUME NEW r \in Resources, TerminateResource(r) PROVE WorkOnlyOnceStarted'
  BY <1>19 DEF TerminateResource, TypeOK, appVars, closerVars, workVars, waitVars
<1>20. ASSUME NEW r \in Resources, DestroyResource(r) PROVE WorkOnlyOnceStarted'
  BY <1>20
     DEF DestroyResource, Destroyed, TypeOK, appVars, closerVars, workVars, waitVars
<1>21. ASSUME NEW r \in Resources, NEW c \in Of(r), StartContext(r, c)
       PROVE  WorkOnlyOnceStarted'
  BY <1>21 DEF StartContext, TypeOK, appVars, closerVars, workVars, waitVars
<1>22. ASSUME NEW r \in Resources, NEW c \in Of(r), FailStart(r, c)
       PROVE  WorkOnlyOnceStarted'
  BY <1>22 DEF FailStart, TypeOK, appVars, closerVars, workVars, waitVars
<1>23. ASSUME NEW r \in Resources, NEW c \in Of(r), Joined(r, c)
       PROVE  WorkOnlyOnceStarted'
  BY <1>23 DEF Joined, TypeOK, appVars, closerVars, workVars, waitVars
<1>24. ASSUME NEW r \in Resources, NEW c \in Of(r), JoinFails(r, c)
       PROVE  WorkOnlyOnceStarted'
  BY <1>24 DEF JoinFails, TypeOK, appVars, closerVars, workVars, waitVars
<1>25. ASSUME NEW x \in Closers, BeginShutdown(x) PROVE WorkOnlyOnceStarted'
  BY <1>25 DEF BeginShutdown, TypeOK, appVars, closerVars, workVars, waitVars
<1>26. ASSUME NEW x \in Closers, PublishShuttingDown(x) PROVE WorkOnlyOnceStarted'
  BY <1>26 DEF PublishShuttingDown, TypeOK, appVars, closerVars, workVars, waitVars
<1>27. ASSUME NEW x \in Closers, EndShutdownSweep(x) PROVE WorkOnlyOnceStarted'
  BY <1>27 DEF EndShutdownSweep, TypeOK, appVars, closerVars, workVars, waitVars
<1>28. ASSUME NEW x \in Closers, NEW r \in Resources, StopResource(x, r)
       PROVE  WorkOnlyOnceStarted'
  BY <1>28 DEF StopResource, TypeOK, appVars, closerVars, workVars, waitVars
<1>29. ASSUME NEW d \in Dispatchers, RecheckGate(d) PROVE WorkOnlyOnceStarted'
  BY <1>29 DEF RecheckGate, TypeOK, appVars, closerVars, workVars, waitVars
<1>30. ASSUME NEW d \in Dispatchers, Activate(d) PROVE WorkOnlyOnceStarted'
  BY <1>30 DEF Activate, TypeOK, appVars, closerVars, workVars, waitVars
<1>31. ASSUME NEW d \in Dispatchers, GiveUp(d) PROVE WorkOnlyOnceStarted'
  BY <1>31 DEF GiveUp, TypeOK, appVars, closerVars, workVars, waitVars
<1>32. ASSUME NEW d \in Dispatchers, NEW r \in Resources, PassGate(d, r)
       PROVE  WorkOnlyOnceStarted'
  BY <1>32 DEF PassGate, TypeOK, appVars, closerVars, workVars, waitVars
<1>33. ASSUME NEW d \in Dispatchers, NEW c \in Managed, Admit(d, c)
       PROVE  WorkOnlyOnceStarted'
  BY <1>33 DEF Admit, TypeOK, appVars, closerVars, workVars, waitVars
<1>34. ASSUME NEW c \in Managed, ReadLifecycle(c) PROVE WorkOnlyOnceStarted'
  BY <1>34 DEF ReadLifecycle, Goes, TypeOK, appVars, closerVars, workVars, waitVars
<1>35. ASSUME NEW c \in Managed, LookForWork(c) PROVE WorkOnlyOnceStarted'
  BY <1>35 DEF LookForWork, Goes, TypeOK, appVars, closerVars, workVars, waitVars
<1>36. ASSUME NEW c \in Managed, WakeUp(c) PROVE WorkOnlyOnceStarted'
  BY <1>36 DEF WakeUp, Goes, TypeOK, appVars, closerVars, workVars, waitVars
<1>37. ASSUME NEW c \in Managed, CallableConsumesSignal(c) PROVE WorkOnlyOnceStarted'
  BY <1>37 DEF CallableConsumesSignal, TypeOK, appVars, closerVars, workVars, waitVars
<1>38. ASSUME NEW c \in Managed, CallableReturns(c) PROVE WorkOnlyOnceStarted'
  BY <1>38 DEF CallableReturns, Goes, TypeOK, appVars, closerVars, workVars, waitVars
<1>39. ASSUME NEW c \in Managed, BeginWait(c) PROVE WorkOnlyOnceStarted'
  BY <1>39 DEF BeginWait, Goes, TypeOK, appVars, closerVars, workVars, waitVars
<1>40. ASSUME NEW c \in Managed, WaitIsWoken(c) PROVE WorkOnlyOnceStarted'
  BY <1>40 DEF WaitIsWoken, Goes, TypeOK, appVars, closerVars, workVars, waitVars
<1>41. ASSUME NEW c \in Managed, WaitEnds(c) PROVE WorkOnlyOnceStarted'
  BY <1>41 DEF WaitEnds, Goes, TypeOK, appVars, closerVars, workVars, waitVars
<1>42. ASSUME NEW c \in Managed, WaitGoesOn(c) PROVE WorkOnlyOnceStarted'
  BY <1>42 DEF WaitGoesOn, Goes, TypeOK, appVars, closerVars, workVars, waitVars
<1>43. ASSUME NEW c \in Managed, WaitTimesOut(c) PROVE WorkOnlyOnceStarted'
  BY <1>43 DEF WaitTimesOut, Goes, TypeOK, appVars, closerVars, workVars, waitVars
<1>44. CASE UNCHANGED vars
  BY <1>44 DEF vars, TypeOK, appVars, closerVars, workVars, waitVars
<1> QED
  BY <1>1, <1>2, <1>3, <1>4, <1>5, <1>6, <1>7, <1>8, <1>9, <1>10, <1>11, <1>12, <1>13,
     <1>14, <1>15, <1>16, <1>17, <1>18, <1>19, <1>20, <1>21, <1>22, <1>23, <1>24, <1>25,
     <1>26, <1>27, <1>28, <1>29, <1>30, <1>31, <1>32, <1>33, <1>34, <1>35, <1>36, <1>37,
     <1>38, <1>39, <1>40, <1>41, <1>42, <1>43, <1>44
     DEF Next, AppStep, CloserStep, DispatchStep, Trampoline

\* Registrations and waits begin and end together.
LEMMA WaitersHold ==
  TypeOK /\ PublishedPhases /\ WorkOnlyOnceStarted /\ WaitersWait /\ [Next]_vars => WaitersWait'
<1> SUFFICES ASSUME TypeOK /\ PublishedPhases /\ WorkOnlyOnceStarted /\ WaitersWait, [Next]_vars
             PROVE  WaitersWait'
  OBVIOUS
<1> USE FixedTopology DEF WaitersWait
<1>1. CASE BeginInitialize
  BY <1>1 DEF BeginInitialize, TypeOK, appVars, closerVars, workVars, waitVars
<1>2. CASE CommitInitialization
  BY <1>2 DEF CommitInitialization, TypeOK, appVars, closerVars, workVars, waitVars
<1>3. CASE BeginStart
  BY <1>3 DEF BeginStart, TypeOK, appVars, closerVars, workVars, waitVars
<1>4. CASE PublishStarted
  BY <1>4 DEF PublishStarted, TypeOK, appVars, closerVars, workVars, waitVars
<1>5. CASE BeginRollback
  BY <1>5 DEF BeginRollback, TypeOK, appVars, closerVars, workVars, waitVars
<1>6. CASE PublishRollback
  BY <1>6 DEF PublishRollback, TypeOK, appVars, closerVars, workVars, waitVars
<1>7. CASE WakeStarted
  BY <1>7 DEF WakeStarted, TypeOK, appVars, closerVars, workVars, waitVars
<1>8. CASE DestroyAll
  BY <1>8
     DEF DestroyAll, Destroyed, Running, TypeOK, appVars, closerVars, workVars,
         waitVars
<1>9. CASE BeginFinalize
  BY <1>9 DEF BeginFinalize, TypeOK, appVars, closerVars, workVars, waitVars
<1>10. CASE BeginTeardown
  BY <1>10 DEF BeginTeardown, TypeOK, appVars, closerVars, workVars, waitVars
<1>11. CASE EndTeardownFailed
  BY <1>11 DEF EndTeardownFailed, TypeOK, appVars, closerVars, workVars, waitVars
<1>12. CASE PublishShutdownComplete
  BY <1>12 DEF PublishShutdownComplete, TypeOK, appVars, closerVars, workVars, waitVars
<1>13. CASE WakeCompleted
  BY <1>13 DEF WakeCompleted, TypeOK, appVars, closerVars, workVars, waitVars
<1>14. ASSUME NEW r \in Resources, InitializeResource(r) PROVE WaitersWait'
  BY <1>14
     DEF InitializeResource, PublishedPhases, WorkOnlyOnceStarted, TypeOK, appVars,
         closerVars, workVars, waitVars
<1>15. ASSUME NEW r \in Resources, FailInitialization(r) PROVE WaitersWait'
  BY <1>15
     DEF FailInitialization, PublishedPhases, WorkOnlyOnceStarted, TypeOK, appVars,
         closerVars, workVars, waitVars
<1>16. ASSUME NEW r \in Resources, StartResource(r) PROVE WaitersWait'
  BY <1>16 DEF StartResource, TypeOK, appVars, closerVars, workVars, waitVars
<1>17. ASSUME NEW r \in Resources, FindQuiescent(r) PROVE WaitersWait'
  BY <1>17 DEF FindQuiescent, TypeOK, appVars, closerVars, workVars, waitVars
<1>18. ASSUME NEW r \in Resources, FindBusy(r) PROVE WaitersWait'
  BY <1>18 DEF FindBusy, TypeOK, appVars, closerVars, workVars, waitVars
<1>19. ASSUME NEW r \in Resources, TerminateResource(r) PROVE WaitersWait'
  BY <1>19 DEF TerminateResource, TypeOK, appVars, closerVars, workVars, waitVars
<1>20. ASSUME NEW r \in Resources, DestroyResource(r) PROVE WaitersWait'
  BY <1>20
     DEF DestroyResource, Destroyed, Running, TypeOK, appVars, closerVars, workVars,
         waitVars
<1>21. ASSUME NEW r \in Resources, NEW c \in Of(r), StartContext(r, c)
       PROVE  WaitersWait'
  BY <1>21
     DEF StartContext, NextToStart, Created, TypeOK, appVars, closerVars, workVars,
         waitVars
<1>22. ASSUME NEW r \in Resources, NEW c \in Of(r), FailStart(r, c) PROVE WaitersWait'
  BY <1>22 DEF FailStart, TypeOK, appVars, closerVars, workVars, waitVars
<1>23. ASSUME NEW r \in Resources, NEW c \in Of(r), Joined(r, c) PROVE WaitersWait'
  BY <1>23 DEF Joined, TypeOK, appVars, closerVars, workVars, waitVars
<1>24. ASSUME NEW r \in Resources, NEW c \in Of(r), JoinFails(r, c) PROVE WaitersWait'
  BY <1>24 DEF JoinFails, TypeOK, appVars, closerVars, workVars, waitVars
<1>25. ASSUME NEW x \in Closers, BeginShutdown(x) PROVE WaitersWait'
  BY <1>25 DEF BeginShutdown, TypeOK, appVars, closerVars, workVars, waitVars
<1>26. ASSUME NEW x \in Closers, PublishShuttingDown(x) PROVE WaitersWait'
  BY <1>26 DEF PublishShuttingDown, TypeOK, appVars, closerVars, workVars, waitVars
<1>27. ASSUME NEW x \in Closers, EndShutdownSweep(x) PROVE WaitersWait'
  BY <1>27 DEF EndShutdownSweep, TypeOK, appVars, closerVars, workVars, waitVars
<1>28. ASSUME NEW x \in Closers, NEW r \in Resources, StopResource(x, r)
       PROVE  WaitersWait'
  BY <1>28 DEF StopResource, TypeOK, appVars, closerVars, workVars, waitVars
<1>29. ASSUME NEW d \in Dispatchers, RecheckGate(d) PROVE WaitersWait'
  BY <1>29 DEF RecheckGate, TypeOK, appVars, closerVars, workVars, waitVars
<1>30. ASSUME NEW d \in Dispatchers, Activate(d) PROVE WaitersWait'
  BY <1>30 DEF Activate, TypeOK, appVars, closerVars, workVars, waitVars
<1>31. ASSUME NEW d \in Dispatchers, GiveUp(d) PROVE WaitersWait'
  BY <1>31 DEF GiveUp, TypeOK, appVars, closerVars, workVars, waitVars
<1>32. ASSUME NEW d \in Dispatchers, NEW r \in Resources, PassGate(d, r)
       PROVE  WaitersWait'
  BY <1>32 DEF PassGate, TypeOK, appVars, closerVars, workVars, waitVars
<1>33. ASSUME NEW d \in Dispatchers, NEW c \in Managed, Admit(d, c) PROVE WaitersWait'
  BY <1>33 DEF Admit, TypeOK, appVars, closerVars, workVars, waitVars
<1>34. ASSUME NEW c \in Managed, ReadLifecycle(c) PROVE WaitersWait'
  BY <1>34 DEF ReadLifecycle, Goes, TypeOK, appVars, closerVars, workVars, waitVars
<1>35. ASSUME NEW c \in Managed, LookForWork(c) PROVE WaitersWait'
  BY <1>35 DEF LookForWork, Goes, TypeOK, appVars, closerVars, workVars, waitVars
<1>36. ASSUME NEW c \in Managed, WakeUp(c) PROVE WaitersWait'
  BY <1>36 DEF WakeUp, Goes, TypeOK, appVars, closerVars, workVars, waitVars
<1>37. ASSUME NEW c \in Managed, CallableConsumesSignal(c) PROVE WaitersWait'
  BY <1>37 DEF CallableConsumesSignal, TypeOK, appVars, closerVars, workVars, waitVars
<1>38. ASSUME NEW c \in Managed, CallableReturns(c) PROVE WaitersWait'
  BY <1>38 DEF CallableReturns, Goes, TypeOK, appVars, closerVars, workVars, waitVars
<1>39. ASSUME NEW c \in Managed, BeginWait(c) PROVE WaitersWait'
  BY <1>39 DEF BeginWait, Goes, TypeOK, appVars, closerVars, workVars, waitVars
<1>40. ASSUME NEW c \in Managed, WaitIsWoken(c) PROVE WaitersWait'
  BY <1>40 DEF WaitIsWoken, Goes, TypeOK, appVars, closerVars, workVars, waitVars
<1>41. ASSUME NEW c \in Managed, WaitEnds(c) PROVE WaitersWait'
  BY <1>41
     DEF WaitEnds, Goes, Unregistered, TypeOK, appVars, closerVars, workVars,
         waitVars
<1>42. ASSUME NEW c \in Managed, WaitGoesOn(c) PROVE WaitersWait'
  BY <1>42 DEF WaitGoesOn, Goes, TypeOK, appVars, closerVars, workVars, waitVars
<1>43. ASSUME NEW c \in Managed, WaitTimesOut(c) PROVE WaitersWait'
  BY <1>43
     DEF WaitTimesOut, Goes, Unregistered, TypeOK, appVars, closerVars, workVars,
         waitVars
<1>44. CASE UNCHANGED vars
  BY <1>44 DEF vars, TypeOK, appVars, closerVars, workVars, waitVars
<1> QED
  BY <1>1, <1>2, <1>3, <1>4, <1>5, <1>6, <1>7, <1>8, <1>9, <1>10, <1>11, <1>12, <1>13,
     <1>14, <1>15, <1>16, <1>17, <1>18, <1>19, <1>20, <1>21, <1>22, <1>23, <1>24, <1>25,
     <1>26, <1>27, <1>28, <1>29, <1>30, <1>31, <1>32, <1>33, <1>34, <1>35, <1>36, <1>37,
     <1>38, <1>39, <1>40, <1>41, <1>42, <1>43, <1>44
     DEF Next, AppStep, CloserStep, DispatchStep, Trampoline

\* A context told to terminate looks at the lifecycle once more.
LEMMA TerminatingHolds ==
  TypeOK /\ PublishedPhases /\ TerminatingContextsLook /\ [Next]_vars => TerminatingContextsLook'
<1> SUFFICES ASSUME TypeOK /\ PublishedPhases /\ TerminatingContextsLook, [Next]_vars
             PROVE  TerminatingContextsLook'
  OBVIOUS
<1> USE FixedTopology DEF TerminatingContextsLook, PublishedPhases, ShouldTerminate
<1>1. CASE BeginInitialize
  BY <1>1 DEF BeginInitialize, TypeOK, appVars, closerVars, workVars, waitVars
<1>2. CASE CommitInitialization
  BY <1>2 DEF CommitInitialization, TypeOK, appVars, closerVars, workVars, waitVars
<1>3. CASE BeginStart
  BY <1>3 DEF BeginStart, MayStart, TypeOK, appVars, closerVars, workVars, waitVars
<1>4. CASE PublishStarted
  BY <1>4 DEF PublishStarted, TypeOK, appVars, closerVars, workVars, waitVars
<1>5. CASE BeginRollback
  BY <1>5 DEF BeginRollback, TypeOK, appVars, closerVars, workVars, waitVars
<1>6. CASE PublishRollback
  BY <1>6 DEF PublishRollback, TypeOK, appVars, closerVars, workVars, waitVars
<1>7. CASE WakeStarted
  BY <1>7 DEF WakeStarted, TypeOK, appVars, closerVars, workVars, waitVars
<1>8. CASE DestroyAll
  BY <1>8 DEF DestroyAll, Destroyed, TypeOK, appVars, closerVars, workVars, waitVars
<1>9. CASE BeginFinalize
  BY <1>9 DEF BeginFinalize, TypeOK, appVars, closerVars, workVars, waitVars
<1>10. CASE BeginTeardown
  BY <1>10 DEF BeginTeardown, TypeOK, appVars, closerVars, workVars, waitVars
<1>11. CASE EndTeardownFailed
  BY <1>11 DEF EndTeardownFailed, TypeOK, appVars, closerVars, workVars, waitVars
<1>12. CASE PublishShutdownComplete
  BY <1>12 DEF PublishShutdownComplete, TypeOK, appVars, closerVars, workVars, waitVars
<1>13. CASE WakeCompleted
  BY <1>13 DEF WakeCompleted, TypeOK, appVars, closerVars, workVars, waitVars
<1>14. ASSUME NEW r \in Resources, InitializeResource(r) PROVE TerminatingContextsLook'
  BY <1>14 DEF InitializeResource, TypeOK, appVars, closerVars, workVars, waitVars
<1>15. ASSUME NEW r \in Resources, FailInitialization(r) PROVE TerminatingContextsLook'
  BY <1>15 DEF FailInitialization, TypeOK, appVars, closerVars, workVars, waitVars
<1>16. ASSUME NEW r \in Resources, StartResource(r) PROVE TerminatingContextsLook'
  BY <1>16 DEF StartResource, TypeOK, appVars, closerVars, workVars, waitVars
<1>17. ASSUME NEW r \in Resources, FindQuiescent(r) PROVE TerminatingContextsLook'
  BY <1>17 DEF FindQuiescent, TypeOK, appVars, closerVars, workVars, waitVars
<1>18. ASSUME NEW r \in Resources, FindBusy(r) PROVE TerminatingContextsLook'
  BY <1>18 DEF FindBusy, TypeOK, appVars, closerVars, workVars, waitVars
<1>19. ASSUME NEW r \in Resources, TerminateResource(r) PROVE TerminatingContextsLook'
  BY <1>19
     DEF TerminateResource, Terminated, ToJoin, TypeOK, appVars, closerVars,
         workVars, waitVars
<1>20. ASSUME NEW r \in Resources, DestroyResource(r) PROVE TerminatingContextsLook'
  BY <1>20
     DEF DestroyResource, Destroyed, TypeOK, appVars, closerVars, workVars, waitVars
<1>21. ASSUME NEW r \in Resources, NEW c \in Of(r), StartContext(r, c)
       PROVE  TerminatingContextsLook'
  BY <1>21 DEF StartContext, TypeOK, appVars, closerVars, workVars, waitVars
<1>22. ASSUME NEW r \in Resources, NEW c \in Of(r), FailStart(r, c)
       PROVE  TerminatingContextsLook'
  BY <1>22 DEF FailStart, TypeOK, appVars, closerVars, workVars, waitVars
<1>23. ASSUME NEW r \in Resources, NEW c \in Of(r), Joined(r, c)
       PROVE  TerminatingContextsLook'
  BY <1>23 DEF Joined, IsNext, TypeOK, appVars, closerVars, workVars, waitVars
<1>24. ASSUME NEW r \in Resources, NEW c \in Of(r), JoinFails(r, c)
       PROVE  TerminatingContextsLook'
  BY <1>24 DEF JoinFails, IsNext, TypeOK, appVars, closerVars, workVars, waitVars
<1>25. ASSUME NEW x \in Closers, BeginShutdown(x) PROVE TerminatingContextsLook'
  BY <1>25 DEF BeginShutdown, TypeOK, appVars, closerVars, workVars, waitVars
<1>26. ASSUME NEW x \in Closers, PublishShuttingDown(x) PROVE TerminatingContextsLook'
  BY <1>26 DEF PublishShuttingDown, TypeOK, appVars, closerVars, workVars, waitVars
<1>27. ASSUME NEW x \in Closers, EndShutdownSweep(x) PROVE TerminatingContextsLook'
  BY <1>27 DEF EndShutdownSweep, TypeOK, appVars, closerVars, workVars, waitVars
<1>28. ASSUME NEW x \in Closers, NEW r \in Resources, StopResource(x, r)
       PROVE  TerminatingContextsLook'
  BY <1>28 DEF StopResource, TypeOK, appVars, closerVars, workVars, waitVars
<1>29. ASSUME NEW d \in Dispatchers, RecheckGate(d) PROVE TerminatingContextsLook'
  BY <1>29 DEF RecheckGate, TypeOK, appVars, closerVars, workVars, waitVars
<1>30. ASSUME NEW d \in Dispatchers, Activate(d) PROVE TerminatingContextsLook'
  BY <1>30 DEF Activate, TypeOK, appVars, closerVars, workVars, waitVars
<1>31. ASSUME NEW d \in Dispatchers, GiveUp(d) PROVE TerminatingContextsLook'
  BY <1>31 DEF GiveUp, TypeOK, appVars, closerVars, workVars, waitVars
<1>32. ASSUME NEW d \in Dispatchers, NEW r \in Resources, PassGate(d, r)
       PROVE  TerminatingContextsLook'
  BY <1>32 DEF PassGate, TypeOK, appVars, closerVars, workVars, waitVars
<1>33. ASSUME NEW d \in Dispatchers, NEW c \in Managed, Admit(d, c)
       PROVE  TerminatingContextsLook'
  BY <1>33 DEF Admit, TypeOK, appVars, closerVars, workVars, waitVars
<1>34. ASSUME NEW c \in Managed, ReadLifecycle(c) PROVE TerminatingContextsLook'
  BY <1>34 DEF ReadLifecycle, Goes, TypeOK, appVars, closerVars, workVars, waitVars
<1>35. ASSUME NEW c \in Managed, LookForWork(c) PROVE TerminatingContextsLook'
  BY <1>35 DEF LookForWork, Goes, TypeOK, appVars, closerVars, workVars, waitVars
<1>36. ASSUME NEW c \in Managed, WakeUp(c) PROVE TerminatingContextsLook'
  BY <1>36 DEF WakeUp, Goes, TypeOK, appVars, closerVars, workVars, waitVars
<1>37. ASSUME NEW c \in Managed, CallableConsumesSignal(c)
       PROVE  TerminatingContextsLook'
  BY <1>37 DEF CallableConsumesSignal, TypeOK, appVars, closerVars, workVars, waitVars
<1>38. ASSUME NEW c \in Managed, CallableReturns(c) PROVE TerminatingContextsLook'
  BY <1>38 DEF CallableReturns, Goes, TypeOK, appVars, closerVars, workVars, waitVars
<1>39. ASSUME NEW c \in Managed, BeginWait(c) PROVE TerminatingContextsLook'
  BY <1>39 DEF BeginWait, Goes, TypeOK, appVars, closerVars, workVars, waitVars
<1>40. ASSUME NEW c \in Managed, WaitIsWoken(c) PROVE TerminatingContextsLook'
  BY <1>40 DEF WaitIsWoken, Goes, TypeOK, appVars, closerVars, workVars, waitVars
<1>41. ASSUME NEW c \in Managed, WaitEnds(c) PROVE TerminatingContextsLook'
  BY <1>41
     DEF WaitEnds, Goes, Unregistered, TypeOK, appVars, closerVars, workVars,
         waitVars
<1>42. ASSUME NEW c \in Managed, WaitGoesOn(c) PROVE TerminatingContextsLook'
  BY <1>42 DEF WaitGoesOn, Goes, TypeOK, appVars, closerVars, workVars, waitVars
<1>43. ASSUME NEW c \in Managed, WaitTimesOut(c) PROVE TerminatingContextsLook'
  BY <1>43
     DEF WaitTimesOut, Goes, Unregistered, TypeOK, appVars, closerVars, workVars,
         waitVars
<1>44. CASE UNCHANGED vars
  BY <1>44 DEF vars, TypeOK, appVars, closerVars, workVars, waitVars
<1> QED
  BY <1>1, <1>2, <1>3, <1>4, <1>5, <1>6, <1>7, <1>8, <1>9, <1>10, <1>11, <1>12, <1>13,
     <1>14, <1>15, <1>16, <1>17, <1>18, <1>19, <1>20, <1>21, <1>22, <1>23, <1>24, <1>25,
     <1>26, <1>27, <1>28, <1>29, <1>30, <1>31, <1>32, <1>33, <1>34, <1>35, <1>36, <1>37,
     <1>38, <1>39, <1>40, <1>41, <1>42, <1>43, <1>44
     DEF Next, AppStep, CloserStep, DispatchStep, Trampoline

\* Rollback loses no context that runs.
LEMMA RollbackHolds ==
  TypeOK /\ PublishedPhases /\ RollbackProgress /\ [Next]_vars => RollbackProgress'
<1> SUFFICES ASSUME TypeOK /\ PublishedPhases /\ RollbackProgress, [Next]_vars
             PROVE  RollbackProgress'
  OBVIOUS
<1> USE FixedTopology DEF RollbackProgress, PublishedPhases
<1>1. CASE BeginInitialize
  BY <1>1 DEF BeginInitialize, TypeOK, appVars, closerVars, workVars, waitVars, Running
<1>2. CASE CommitInitialization
  BY <1>2
     DEF CommitInitialization, TypeOK, appVars, closerVars, workVars, waitVars,
         Running
<1>3. CASE BeginStart
  BY <1>3 DEF BeginStart, TypeOK, appVars, closerVars, workVars, waitVars, Running
<1>4. CASE PublishStarted
  BY <1>4 DEF PublishStarted, TypeOK, appVars, closerVars, workVars, waitVars, Running
<1>5. CASE BeginRollback
  BY <1>5 DEF BeginRollback, TypeOK, appVars, closerVars, workVars, waitVars, Running
<1>6. CASE PublishRollback
  BY <1>6 DEF PublishRollback, TypeOK, appVars, closerVars, workVars, waitVars, Running
<1>7. CASE WakeStarted
  BY <1>7, ManagedByOne
     DEF WakeStarted, StartedContexts, TypeOK, appVars, closerVars, workVars,
         waitVars, Running
<1>8. CASE DestroyAll
  BY <1>8 DEF DestroyAll, TypeOK, appVars, closerVars, workVars, waitVars, Running
<1>9. CASE BeginFinalize
  BY <1>9 DEF BeginFinalize, TypeOK, appVars, closerVars, workVars, waitVars, Running
<1>10. CASE BeginTeardown
  BY <1>10 DEF BeginTeardown, TypeOK, appVars, closerVars, workVars, waitVars, Running
<1>11. CASE EndTeardownFailed
  BY <1>11
     DEF EndTeardownFailed, TypeOK, appVars, closerVars, workVars, waitVars, Running
<1>12. CASE PublishShutdownComplete
  BY <1>12
     DEF PublishShutdownComplete, TypeOK, appVars, closerVars, workVars, waitVars,
         Running
<1>13. CASE WakeCompleted
  BY <1>13 DEF WakeCompleted, TypeOK, appVars, closerVars, workVars, waitVars, Running
<1>14. ASSUME NEW r \in Resources, InitializeResource(r) PROVE RollbackProgress'
  BY <1>14
     DEF InitializeResource, TypeOK, appVars, closerVars, workVars, waitVars,
         Running
<1>15. ASSUME NEW r \in Resources, FailInitialization(r) PROVE RollbackProgress'
  BY <1>15
     DEF FailInitialization, TypeOK, appVars, closerVars, workVars, waitVars,
         Running
<1>16. ASSUME NEW r \in Resources, StartResource(r) PROVE RollbackProgress'
  BY <1>16 DEF StartResource, TypeOK, appVars, closerVars, workVars, waitVars, Running
<1>17. ASSUME NEW r \in Resources, FindQuiescent(r) PROVE RollbackProgress'
  BY <1>17 DEF FindQuiescent, TypeOK, appVars, closerVars, workVars, waitVars, Running
<1>18. ASSUME NEW r \in Resources, FindBusy(r) PROVE RollbackProgress'
  BY <1>18 DEF FindBusy, TypeOK, appVars, closerVars, workVars, waitVars, Running
<1>19. ASSUME NEW r \in Resources, TerminateResource(r) PROVE RollbackProgress'
  BY <1>19
     DEF TerminateResource, TypeOK, appVars, closerVars, workVars, waitVars, Running
<1>20. ASSUME NEW r \in Resources, DestroyResource(r) PROVE RollbackProgress'
  BY <1>20 DEF DestroyResource, TypeOK, appVars, closerVars, workVars, waitVars, Running
<1>21. ASSUME NEW r \in Resources, NEW c \in Of(r), StartContext(r, c)
       PROVE  RollbackProgress'
  BY <1>21 DEF StartContext, TypeOK, appVars, closerVars, workVars, waitVars, Running
<1>22. ASSUME NEW r \in Resources, NEW c \in Of(r), FailStart(r, c)
       PROVE  RollbackProgress'
  BY <1>22, OfManaged
     DEF FailStart, NextToStart, Created, TypeOK, appVars, closerVars, workVars,
         waitVars, Running
<1>23. ASSUME NEW r \in Resources, NEW c \in Of(r), Joined(r, c) PROVE RollbackProgress'
  BY <1>23, OfManaged
     DEF Joined, IsNext, TypeOK, appVars, closerVars, workVars, waitVars, Running
<1>24. ASSUME NEW r \in Resources, NEW c \in Of(r), JoinFails(r, c)
       PROVE  RollbackProgress'
  BY <1>24, OfManaged
     DEF JoinFails, IsNext, TypeOK, appVars, closerVars, workVars, waitVars, Running
<1>25. ASSUME NEW x \in Closers, BeginShutdown(x) PROVE RollbackProgress'
  BY <1>25 DEF BeginShutdown, TypeOK, appVars, closerVars, workVars, waitVars, Running
<1>26. ASSUME NEW x \in Closers, PublishShuttingDown(x) PROVE RollbackProgress'
  BY <1>26
     DEF PublishShuttingDown, TypeOK, appVars, closerVars, workVars, waitVars,
         Running
<1>27. ASSUME NEW x \in Closers, EndShutdownSweep(x) PROVE RollbackProgress'
  BY <1>27
     DEF EndShutdownSweep, TypeOK, appVars, closerVars, workVars, waitVars, Running
<1>28. ASSUME NEW x \in Closers, NEW r \in Resources, StopResource(x, r)
       PROVE  RollbackProgress'
  BY <1>28 DEF StopResource, TypeOK, appVars, closerVars, workVars, waitVars, Running
<1>29. ASSUME NEW d \in Dispatchers, RecheckGate(d) PROVE RollbackProgress'
  BY <1>29 DEF RecheckGate, TypeOK, appVars, closerVars, workVars, waitVars, Running
<1>30. ASSUME NEW d \in Dispatchers, Activate(d) PROVE RollbackProgress'
  BY <1>30 DEF Activate, TypeOK, appVars, closerVars, workVars, waitVars, Running
<1>31. ASSUME NEW d \in Dispatchers, GiveUp(d) PROVE RollbackProgress'
  BY <1>31 DEF GiveUp, TypeOK, appVars, closerVars, workVars, waitVars, Running
<1>32. ASSUME NEW d \in Dispatchers, NEW r \in Resources, PassGate(d, r)
       PROVE  RollbackProgress'
  BY <1>32 DEF PassGate, TypeOK, appVars, closerVars, workVars, waitVars, Running
<1>33. ASSUME NEW d \in Dispatchers, NEW c \in Managed, Admit(d, c)
       PROVE  RollbackProgress'
  BY <1>33 DEF Admit, TypeOK, appVars, closerVars, workVars, waitVars, Running
<1>34. ASSUME NEW c \in Managed, ReadLifecycle(c) PROVE RollbackProgress'
  BY <1>34
     DEF ReadLifecycle, Goes, TypeOK, appVars, closerVars, workVars, waitVars,
         Running
<1>35. ASSUME NEW c \in Managed, LookForWork(c) PROVE RollbackProgress'
  BY <1>35
     DEF LookForWork, Goes, TypeOK, appVars, closerVars, workVars, waitVars, Running
<1>36. ASSUME NEW c \in Managed, WakeUp(c) PROVE RollbackProgress'
  BY <1>36 DEF WakeUp, Goes, TypeOK, appVars, closerVars, workVars, waitVars, Running
<1>37. ASSUME NEW c \in Managed, CallableConsumesSignal(c) PROVE RollbackProgress'
  BY <1>37
     DEF CallableConsumesSignal, TypeOK, appVars, closerVars, workVars, waitVars,
         Running
<1>38. ASSUME NEW c \in Managed, CallableReturns(c) PROVE RollbackProgress'
  BY <1>38
     DEF CallableReturns, Goes, TypeOK, appVars, closerVars, workVars, waitVars,
         Running
<1>39. ASSUME NEW c \in Managed, BeginWait(c) PROVE RollbackProgress'
  BY <1>39 DEF BeginWait, Goes, TypeOK, appVars, closerVars, workVars, waitVars, Running
<1>40. ASSUME NEW c \in Managed, WaitIsWoken(c) PROVE RollbackProgress'
  BY <1>40
     DEF WaitIsWoken, Goes, TypeOK, appVars, closerVars, workVars, waitVars, Running
<1>41. ASSUME NEW c \in Managed, WaitEnds(c) PROVE RollbackProgress'
  BY <1>41
     DEF WaitEnds, Goes, Unregistered, TypeOK, appVars, closerVars, workVars,
         waitVars, Running
<1>42. ASSUME NEW c \in Managed, WaitGoesOn(c) PROVE RollbackProgress'
  BY <1>42
     DEF WaitGoesOn, Goes, TypeOK, appVars, closerVars, workVars, waitVars, Running
<1>43. ASSUME NEW c \in Managed, WaitTimesOut(c) PROVE RollbackProgress'
  BY <1>43
     DEF WaitTimesOut, Goes, Unregistered, TypeOK, appVars, closerVars, workVars,
         waitVars, Running
<1>44. CASE UNCHANGED vars
  BY <1>44 DEF vars, TypeOK, appVars, closerVars, workVars, waitVars, Running
<1> QED
  BY <1>1, <1>2, <1>3, <1>4, <1>5, <1>6, <1>7, <1>8, <1>9, <1>10, <1>11, <1>12, <1>13,
     <1>14, <1>15, <1>16, <1>17, <1>18, <1>19, <1>20, <1>21, <1>22, <1>23, <1>24, <1>25,
     <1>26, <1>27, <1>28, <1>29, <1>30, <1>31, <1>32, <1>33, <1>34, <1>35, <1>36, <1>37,
     <1>38, <1>39, <1>40, <1>41, <1>42, <1>43, <1>44
     DEF Next, AppStep, CloserStep, DispatchStep, Trampoline

\* Teardown leaves nothing behind as long as nothing fails.
LEMMA TeardownHolds ==
  TypeOK /\ PublishedPhases /\ TeardownProgress /\ [Next]_vars => TeardownProgress'
<1> SUFFICES ASSUME TypeOK /\ PublishedPhases /\ TeardownProgress, [Next]_vars
             PROVE  TeardownProgress'
  OBVIOUS
<1> USE FixedTopology DEF TeardownProgress, PublishedPhases, First
<1>1. CASE BeginInitialize
  BY <1>1 DEF BeginInitialize, TypeOK, appVars, closerVars, workVars, waitVars, Running
<1>2. CASE CommitInitialization
  BY <1>2
     DEF CommitInitialization, TypeOK, appVars, closerVars, workVars, waitVars,
         Running
<1>3. CASE BeginStart
  BY <1>3 DEF BeginStart, TypeOK, appVars, closerVars, workVars, waitVars, Running
<1>4. CASE PublishStarted
  BY <1>4 DEF PublishStarted, TypeOK, appVars, closerVars, workVars, waitVars, Running
<1>5. CASE BeginRollback
  BY <1>5 DEF BeginRollback, TypeOK, appVars, closerVars, workVars, waitVars, Running
<1>6. CASE PublishRollback
  BY <1>6 DEF PublishRollback, TypeOK, appVars, closerVars, workVars, waitVars, Running
<1>7. CASE WakeStarted
  BY <1>7 DEF WakeStarted, TypeOK, appVars, closerVars, workVars, waitVars, Running
<1>8. CASE DestroyAll
  BY <1>8 DEF DestroyAll, TypeOK, appVars, closerVars, workVars, waitVars, Running
<1>9. CASE BeginFinalize
  BY <1>9 DEF BeginFinalize, TypeOK, appVars, closerVars, workVars, waitVars, Running
<1>10. CASE BeginTeardown
  BY <1>10 DEF BeginTeardown, TypeOK, appVars, closerVars, workVars, waitVars, Running
<1>11. CASE EndTeardownFailed
  BY <1>11
     DEF EndTeardownFailed, TypeOK, appVars, closerVars, workVars, waitVars, Running
<1>12. CASE PublishShutdownComplete
  BY <1>12
     DEF PublishShutdownComplete, TypeOK, appVars, closerVars, workVars, waitVars,
         Running
<1>13. CASE WakeCompleted
  BY <1>13 DEF WakeCompleted, TypeOK, appVars, closerVars, workVars, waitVars, Running
<1>14. ASSUME NEW r \in Resources, InitializeResource(r) PROVE TeardownProgress'
  BY <1>14
     DEF InitializeResource, TypeOK, appVars, closerVars, workVars, waitVars,
         Running
<1>15. ASSUME NEW r \in Resources, FailInitialization(r) PROVE TeardownProgress'
  BY <1>15
     DEF FailInitialization, TypeOK, appVars, closerVars, workVars, waitVars,
         Running
<1>16. ASSUME NEW r \in Resources, StartResource(r) PROVE TeardownProgress'
  BY <1>16 DEF StartResource, TypeOK, appVars, closerVars, workVars, waitVars, Running
<1>17. ASSUME NEW r \in Resources, FindQuiescent(r) PROVE TeardownProgress'
  BY <1>17 DEF FindQuiescent, TypeOK, appVars, closerVars, workVars, waitVars, Running
<1>18. ASSUME NEW r \in Resources, FindBusy(r) PROVE TeardownProgress'
  BY <1>18 DEF FindBusy, TypeOK, appVars, closerVars, workVars, waitVars, Running
<1>19. ASSUME NEW r \in Resources, TerminateResource(r) PROVE TeardownProgress'
  BY <1>19, FirstIsUnique
     DEF TerminateResource, ToJoin, TypeOK, appVars, closerVars, workVars, waitVars,
         Running
<1>20. ASSUME NEW r \in Resources, DestroyResource(r) PROVE TeardownProgress'
  BY <1>20, OfManaged
     DEF DestroyResource, Destroyed, TypeOK, appVars, closerVars, workVars,
         waitVars, Running
<1>21. ASSUME NEW r \in Resources, NEW c \in Of(r), StartContext(r, c)
       PROVE  TeardownProgress'
  BY <1>21 DEF StartContext, TypeOK, appVars, closerVars, workVars, waitVars, Running
<1>22. ASSUME NEW r \in Resources, NEW c \in Of(r), FailStart(r, c)
       PROVE  TeardownProgress'
  BY <1>22 DEF FailStart, TypeOK, appVars, closerVars, workVars, waitVars, Running
<1>23. ASSUME NEW r \in Resources, NEW c \in Of(r), Joined(r, c) PROVE TeardownProgress'
  BY <1>23, FirstIsUnique
     DEF Joined, IsNext, TypeOK, appVars, closerVars, workVars, waitVars, Running
<1>24. ASSUME NEW r \in Resources, NEW c \in Of(r), JoinFails(r, c)
       PROVE  TeardownProgress'
  BY <1>24, FirstIsUnique
     DEF JoinFails, IsNext, TypeOK, appVars, closerVars, workVars, waitVars, Running
<1>25. ASSUME NEW x \in Closers, BeginShutdown(x) PROVE TeardownProgress'
  BY <1>25 DEF BeginShutdown, TypeOK, appVars, closerVars, workVars, waitVars, Running
<1>26. ASSUME NEW x \in Closers, PublishShuttingDown(x) PROVE TeardownProgress'
  BY <1>26
     DEF PublishShuttingDown, TypeOK, appVars, closerVars, workVars, waitVars,
         Running
<1>27. ASSUME NEW x \in Closers, EndShutdownSweep(x) PROVE TeardownProgress'
  BY <1>27
     DEF EndShutdownSweep, TypeOK, appVars, closerVars, workVars, waitVars, Running
<1>28. ASSUME NEW x \in Closers, NEW r \in Resources, StopResource(x, r)
       PROVE  TeardownProgress'
  BY <1>28 DEF StopResource, TypeOK, appVars, closerVars, workVars, waitVars, Running
<1>29. ASSUME NEW d \in Dispatchers, RecheckGate(d) PROVE TeardownProgress'
  BY <1>29 DEF RecheckGate, TypeOK, appVars, closerVars, workVars, waitVars, Running
<1>30. ASSUME NEW d \in Dispatchers, Activate(d) PROVE TeardownProgress'
  BY <1>30 DEF Activate, TypeOK, appVars, closerVars, workVars, waitVars, Running
<1>31. ASSUME NEW d \in Dispatchers, GiveUp(d) PROVE TeardownProgress'
  BY <1>31 DEF GiveUp, TypeOK, appVars, closerVars, workVars, waitVars, Running
<1>32. ASSUME NEW d \in Dispatchers, NEW r \in Resources, PassGate(d, r)
       PROVE  TeardownProgress'
  BY <1>32 DEF PassGate, TypeOK, appVars, closerVars, workVars, waitVars, Running
<1>33. ASSUME NEW d \in Dispatchers, NEW c \in Managed, Admit(d, c)
       PROVE  TeardownProgress'
  BY <1>33 DEF Admit, TypeOK, appVars, closerVars, workVars, waitVars, Running
<1>34. ASSUME NEW c \in Managed, ReadLifecycle(c) PROVE TeardownProgress'
  BY <1>34
     DEF ReadLifecycle, Goes, TypeOK, appVars, closerVars, workVars, waitVars,
         Running
<1>35. ASSUME NEW c \in Managed, LookForWork(c) PROVE TeardownProgress'
  BY <1>35
     DEF LookForWork, Goes, TypeOK, appVars, closerVars, workVars, waitVars, Running
<1>36. ASSUME NEW c \in Managed, WakeUp(c) PROVE TeardownProgress'
  BY <1>36 DEF WakeUp, Goes, TypeOK, appVars, closerVars, workVars, waitVars, Running
<1>37. ASSUME NEW c \in Managed, CallableConsumesSignal(c) PROVE TeardownProgress'
  BY <1>37
     DEF CallableConsumesSignal, TypeOK, appVars, closerVars, workVars, waitVars,
         Running
<1>38. ASSUME NEW c \in Managed, CallableReturns(c) PROVE TeardownProgress'
  BY <1>38
     DEF CallableReturns, Goes, TypeOK, appVars, closerVars, workVars, waitVars,
         Running
<1>39. ASSUME NEW c \in Managed, BeginWait(c) PROVE TeardownProgress'
  BY <1>39 DEF BeginWait, Goes, TypeOK, appVars, closerVars, workVars, waitVars, Running
<1>40. ASSUME NEW c \in Managed, WaitIsWoken(c) PROVE TeardownProgress'
  BY <1>40
     DEF WaitIsWoken, Goes, TypeOK, appVars, closerVars, workVars, waitVars, Running
<1>41. ASSUME NEW c \in Managed, WaitEnds(c) PROVE TeardownProgress'
  BY <1>41
     DEF WaitEnds, Goes, Unregistered, TypeOK, appVars, closerVars, workVars,
         waitVars, Running
<1>42. ASSUME NEW c \in Managed, WaitGoesOn(c) PROVE TeardownProgress'
  BY <1>42
     DEF WaitGoesOn, Goes, TypeOK, appVars, closerVars, workVars, waitVars, Running
<1>43. ASSUME NEW c \in Managed, WaitTimesOut(c) PROVE TeardownProgress'
  BY <1>43
     DEF WaitTimesOut, Goes, Unregistered, TypeOK, appVars, closerVars, workVars,
         waitVars, Running
<1>44. CASE UNCHANGED vars
  BY <1>44 DEF vars, TypeOK, appVars, closerVars, workVars, waitVars, Running
<1> QED
  BY <1>1, <1>2, <1>3, <1>4, <1>5, <1>6, <1>7, <1>8, <1>9, <1>10, <1>11, <1>12, <1>13,
     <1>14, <1>15, <1>16, <1>17, <1>18, <1>19, <1>20, <1>21, <1>22, <1>23, <1>24, <1>25,
     <1>26, <1>27, <1>28, <1>29, <1>30, <1>31, <1>32, <1>33, <1>34, <1>35, <1>36, <1>37,
     <1>38, <1>39, <1>40, <1>41, <1>42, <1>43, <1>44
     DEF Next, AppStep, CloserStep, DispatchStep, Trampoline

\* What failed to start stays destroyed.
LEMMA FailedStartHolds ==
  TypeOK /\ PublishedPhases /\ RollbackProgress /\ FailedStartLeavesNothing /\ [Next]_vars => FailedStartLeavesNothing'
<1> SUFFICES ASSUME TypeOK /\ PublishedPhases /\ RollbackProgress /\ FailedStartLeavesNothing, [Next]_vars
             PROVE  FailedStartLeavesNothing'
  OBVIOUS
<1> USE FixedTopology DEF FailedStartLeavesNothing, PublishedPhases
<1>1. CASE BeginInitialize
  BY <1>1 DEF BeginInitialize, TypeOK, appVars, closerVars, workVars, waitVars, Running
<1>2. CASE CommitInitialization
  BY <1>2
     DEF CommitInitialization, TypeOK, appVars, closerVars, workVars, waitVars,
         Running
<1>3. CASE BeginStart
  BY <1>3 DEF BeginStart, TypeOK, appVars, closerVars, workVars, waitVars, Running
<1>4. CASE PublishStarted
  BY <1>4 DEF PublishStarted, TypeOK, appVars, closerVars, workVars, waitVars, Running
<1>5. CASE BeginRollback
  BY <1>5 DEF BeginRollback, TypeOK, appVars, closerVars, workVars, waitVars, Running
<1>6. CASE PublishRollback
  BY <1>6 DEF PublishRollback, TypeOK, appVars, closerVars, workVars, waitVars, Running
<1>7. CASE WakeStarted
  BY <1>7 DEF WakeStarted, TypeOK, appVars, closerVars, workVars, waitVars, Running
<1>8. CASE DestroyAll
  BY <1>8, OfManaged
     DEF DestroyAll, RollbackProgress, Destroyed, DestroyedByRollback, TypeOK,
         appVars, closerVars, workVars, waitVars, Running
<1>9. CASE BeginFinalize
  BY <1>9 DEF BeginFinalize, TypeOK, appVars, closerVars, workVars, waitVars, Running
<1>10. CASE BeginTeardown
  BY <1>10 DEF BeginTeardown, TypeOK, appVars, closerVars, workVars, waitVars, Running
<1>11. CASE EndTeardownFailed
  BY <1>11
     DEF EndTeardownFailed, TypeOK, appVars, closerVars, workVars, waitVars, Running
<1>12. CASE PublishShutdownComplete
  BY <1>12
     DEF PublishShutdownComplete, TypeOK, appVars, closerVars, workVars, waitVars,
         Running
<1>13. CASE WakeCompleted
  BY <1>13 DEF WakeCompleted, TypeOK, appVars, closerVars, workVars, waitVars, Running
<1>14. ASSUME NEW r \in Resources, InitializeResource(r) PROVE FailedStartLeavesNothing'
  BY <1>14
     DEF InitializeResource, TypeOK, appVars, closerVars, workVars, waitVars,
         Running
<1>15. ASSUME NEW r \in Resources, FailInitialization(r) PROVE FailedStartLeavesNothing'
  BY <1>15
     DEF FailInitialization, TypeOK, appVars, closerVars, workVars, waitVars,
         Running
<1>16. ASSUME NEW r \in Resources, StartResource(r) PROVE FailedStartLeavesNothing'
  BY <1>16 DEF StartResource, TypeOK, appVars, closerVars, workVars, waitVars, Running
<1>17. ASSUME NEW r \in Resources, FindQuiescent(r) PROVE FailedStartLeavesNothing'
  BY <1>17 DEF FindQuiescent, TypeOK, appVars, closerVars, workVars, waitVars, Running
<1>18. ASSUME NEW r \in Resources, FindBusy(r) PROVE FailedStartLeavesNothing'
  BY <1>18 DEF FindBusy, TypeOK, appVars, closerVars, workVars, waitVars, Running
<1>19. ASSUME NEW r \in Resources, TerminateResource(r) PROVE FailedStartLeavesNothing'
  BY <1>19
     DEF TerminateResource, TypeOK, appVars, closerVars, workVars, waitVars, Running
<1>20. ASSUME NEW r \in Resources, DestroyResource(r) PROVE FailedStartLeavesNothing'
  BY <1>20
     DEF DestroyResource, Destroyed, TypeOK, appVars, closerVars, workVars,
         waitVars, Running
<1>21. ASSUME NEW r \in Resources, NEW c \in Of(r), StartContext(r, c)
       PROVE  FailedStartLeavesNothing'
  BY <1>21 DEF StartContext, TypeOK, appVars, closerVars, workVars, waitVars, Running
<1>22. ASSUME NEW r \in Resources, NEW c \in Of(r), FailStart(r, c)
       PROVE  FailedStartLeavesNothing'
  BY <1>22 DEF FailStart, TypeOK, appVars, closerVars, workVars, waitVars, Running
<1>23. ASSUME NEW r \in Resources, NEW c \in Of(r), Joined(r, c)
       PROVE  FailedStartLeavesNothing'
  BY <1>23 DEF Joined, IsNext, TypeOK, appVars, closerVars, workVars, waitVars, Running
<1>24. ASSUME NEW r \in Resources, NEW c \in Of(r), JoinFails(r, c)
       PROVE  FailedStartLeavesNothing'
  BY <1>24
     DEF JoinFails, IsNext, TypeOK, appVars, closerVars, workVars, waitVars, Running
<1>25. ASSUME NEW x \in Closers, BeginShutdown(x) PROVE FailedStartLeavesNothing'
  BY <1>25 DEF BeginShutdown, TypeOK, appVars, closerVars, workVars, waitVars, Running
<1>26. ASSUME NEW x \in Closers, PublishShuttingDown(x) PROVE FailedStartLeavesNothing'
  BY <1>26
     DEF PublishShuttingDown, TypeOK, appVars, closerVars, workVars, waitVars,
         Running
<1>27. ASSUME NEW x \in Closers, EndShutdownSweep(x) PROVE FailedStartLeavesNothing'
  BY <1>27
     DEF EndShutdownSweep, TypeOK, appVars, closerVars, workVars, waitVars, Running
<1>28. ASSUME NEW x \in Closers, NEW r \in Resources, StopResource(x, r)
       PROVE  FailedStartLeavesNothing'
  BY <1>28 DEF StopResource, TypeOK, appVars, closerVars, workVars, waitVars, Running
<1>29. ASSUME NEW d \in Dispatchers, RecheckGate(d) PROVE FailedStartLeavesNothing'
  BY <1>29 DEF RecheckGate, TypeOK, appVars, closerVars, workVars, waitVars, Running
<1>30. ASSUME NEW d \in Dispatchers, Activate(d) PROVE FailedStartLeavesNothing'
  BY <1>30 DEF Activate, TypeOK, appVars, closerVars, workVars, waitVars, Running
<1>31. ASSUME NEW d \in Dispatchers, GiveUp(d) PROVE FailedStartLeavesNothing'
  BY <1>31 DEF GiveUp, TypeOK, appVars, closerVars, workVars, waitVars, Running
<1>32. ASSUME NEW d \in Dispatchers, NEW r \in Resources, PassGate(d, r)
       PROVE  FailedStartLeavesNothing'
  BY <1>32 DEF PassGate, TypeOK, appVars, closerVars, workVars, waitVars, Running
<1>33. ASSUME NEW d \in Dispatchers, NEW c \in Managed, Admit(d, c)
       PROVE  FailedStartLeavesNothing'
  BY <1>33 DEF Admit, TypeOK, appVars, closerVars, workVars, waitVars, Running
<1>34. ASSUME NEW c \in Managed, ReadLifecycle(c) PROVE FailedStartLeavesNothing'
  BY <1>34, OfManaged
     DEF ReadLifecycle, Goes, TypeOK, appVars, closerVars, workVars, waitVars,
         Running
<1>35. ASSUME NEW c \in Managed, LookForWork(c) PROVE FailedStartLeavesNothing'
  BY <1>35, OfManaged
     DEF LookForWork, Goes, TypeOK, appVars, closerVars, workVars, waitVars, Running
<1>36. ASSUME NEW c \in Managed, WakeUp(c) PROVE FailedStartLeavesNothing'
  BY <1>36, OfManaged
     DEF WakeUp, Goes, TypeOK, appVars, closerVars, workVars, waitVars, Running
<1>37. ASSUME NEW c \in Managed, CallableConsumesSignal(c)
       PROVE  FailedStartLeavesNothing'
  BY <1>37, OfManaged
     DEF CallableConsumesSignal, TypeOK, appVars, closerVars, workVars, waitVars,
         Running
<1>38. ASSUME NEW c \in Managed, CallableReturns(c) PROVE FailedStartLeavesNothing'
  BY <1>38, OfManaged
     DEF CallableReturns, Goes, TypeOK, appVars, closerVars, workVars, waitVars,
         Running
<1>39. ASSUME NEW c \in Managed, BeginWait(c) PROVE FailedStartLeavesNothing'
  BY <1>39, OfManaged
     DEF BeginWait, Goes, TypeOK, appVars, closerVars, workVars, waitVars, Running
<1>40. ASSUME NEW c \in Managed, WaitIsWoken(c) PROVE FailedStartLeavesNothing'
  BY <1>40, OfManaged
     DEF WaitIsWoken, Goes, TypeOK, appVars, closerVars, workVars, waitVars, Running
<1>41. ASSUME NEW c \in Managed, WaitEnds(c) PROVE FailedStartLeavesNothing'
  BY <1>41, OfManaged
     DEF WaitEnds, Goes, Unregistered, TypeOK, appVars, closerVars, workVars,
         waitVars, Running
<1>42. ASSUME NEW c \in Managed, WaitGoesOn(c) PROVE FailedStartLeavesNothing'
  BY <1>42, OfManaged
     DEF WaitGoesOn, Goes, TypeOK, appVars, closerVars, workVars, waitVars, Running
<1>43. ASSUME NEW c \in Managed, WaitTimesOut(c) PROVE FailedStartLeavesNothing'
  BY <1>43, OfManaged
     DEF WaitTimesOut, Goes, Unregistered, TypeOK, appVars, closerVars, workVars,
         waitVars, Running
<1>44. CASE UNCHANGED vars
  BY <1>44 DEF vars, TypeOK, appVars, closerVars, workVars, waitVars, Running
<1> QED
  BY <1>1, <1>2, <1>3, <1>4, <1>5, <1>6, <1>7, <1>8, <1>9, <1>10, <1>11, <1>12, <1>13,
     <1>14, <1>15, <1>16, <1>17, <1>18, <1>19, <1>20, <1>21, <1>22, <1>23, <1>24, <1>25,
     <1>26, <1>27, <1>28, <1>29, <1>30, <1>31, <1>32, <1>33, <1>34, <1>35, <1>36, <1>37,
     <1>38, <1>39, <1>40, <1>41, <1>42, <1>43, <1>44
     DEF Next, AppStep, CloserStep, DispatchStep, Trampoline

\* What was torn down stays down.
LEMMA CompletionHolds ==
  TypeOK /\ PublishedPhases /\ TeardownProgress /\ CompletionAfterTeardown /\ [Next]_vars => CompletionAfterTeardown'
<1> SUFFICES ASSUME TypeOK /\ PublishedPhases /\ TeardownProgress /\ CompletionAfterTeardown, [Next]_vars
             PROVE  CompletionAfterTeardown'
  OBVIOUS
<1> USE FixedTopology DEF CompletionAfterTeardown, PublishedPhases
<1>1. CASE BeginInitialize
  BY <1>1 DEF BeginInitialize, TypeOK, appVars, closerVars, workVars, waitVars, Running
<1>2. CASE CommitInitialization
  BY <1>2
     DEF CommitInitialization, TypeOK, appVars, closerVars, workVars, waitVars,
         Running
<1>3. CASE BeginStart
  BY <1>3 DEF BeginStart, TypeOK, appVars, closerVars, workVars, waitVars, Running
<1>4. CASE PublishStarted
  BY <1>4 DEF PublishStarted, TypeOK, appVars, closerVars, workVars, waitVars, Running
<1>5. CASE BeginRollback
  BY <1>5 DEF BeginRollback, TypeOK, appVars, closerVars, workVars, waitVars, Running
<1>6. CASE PublishRollback
  BY <1>6 DEF PublishRollback, TypeOK, appVars, closerVars, workVars, waitVars, Running
<1>7. CASE WakeStarted
  BY <1>7 DEF WakeStarted, TypeOK, appVars, closerVars, workVars, waitVars, Running
<1>8. CASE DestroyAll
  BY <1>8
     DEF DestroyAll, Destroyed, TypeOK, appVars, closerVars, workVars, waitVars,
         Running
<1>9. CASE BeginFinalize
  BY <1>9 DEF BeginFinalize, TypeOK, appVars, closerVars, workVars, waitVars, Running
<1>10. CASE BeginTeardown
  BY <1>10 DEF BeginTeardown, TypeOK, appVars, closerVars, workVars, waitVars, Running
<1>11. CASE EndTeardownFailed
  BY <1>11
     DEF EndTeardownFailed, TypeOK, appVars, closerVars, workVars, waitVars, Running
<1>12. CASE PublishShutdownComplete
  BY <1>12, ManagedByOne
     DEF PublishShutdownComplete, TeardownProgress, MayComplete, TypeOK, appVars,
         closerVars, workVars, waitVars, Running
<1>13. CASE WakeCompleted
  BY <1>13 DEF WakeCompleted, TypeOK, appVars, closerVars, workVars, waitVars, Running
<1>14. ASSUME NEW r \in Resources, InitializeResource(r) PROVE CompletionAfterTeardown'
  BY <1>14
     DEF InitializeResource, TypeOK, appVars, closerVars, workVars, waitVars,
         Running
<1>15. ASSUME NEW r \in Resources, FailInitialization(r) PROVE CompletionAfterTeardown'
  BY <1>15
     DEF FailInitialization, TypeOK, appVars, closerVars, workVars, waitVars,
         Running
<1>16. ASSUME NEW r \in Resources, StartResource(r) PROVE CompletionAfterTeardown'
  BY <1>16 DEF StartResource, TypeOK, appVars, closerVars, workVars, waitVars, Running
<1>17. ASSUME NEW r \in Resources, FindQuiescent(r) PROVE CompletionAfterTeardown'
  BY <1>17 DEF FindQuiescent, TypeOK, appVars, closerVars, workVars, waitVars, Running
<1>18. ASSUME NEW r \in Resources, FindBusy(r) PROVE CompletionAfterTeardown'
  BY <1>18 DEF FindBusy, TypeOK, appVars, closerVars, workVars, waitVars, Running
<1>19. ASSUME NEW r \in Resources, TerminateResource(r) PROVE CompletionAfterTeardown'
  BY <1>19
     DEF TerminateResource, TypeOK, appVars, closerVars, workVars, waitVars, Running
<1>20. ASSUME NEW r \in Resources, DestroyResource(r) PROVE CompletionAfterTeardown'
  BY <1>20
     DEF DestroyResource, Destroyed, TypeOK, appVars, closerVars, workVars,
         waitVars, Running
<1>21. ASSUME NEW r \in Resources, NEW c \in Of(r), StartContext(r, c)
       PROVE  CompletionAfterTeardown'
  BY <1>21 DEF StartContext, TypeOK, appVars, closerVars, workVars, waitVars, Running
<1>22. ASSUME NEW r \in Resources, NEW c \in Of(r), FailStart(r, c)
       PROVE  CompletionAfterTeardown'
  BY <1>22 DEF FailStart, TypeOK, appVars, closerVars, workVars, waitVars, Running
<1>23. ASSUME NEW r \in Resources, NEW c \in Of(r), Joined(r, c)
       PROVE  CompletionAfterTeardown'
  BY <1>23 DEF Joined, TypeOK, appVars, closerVars, workVars, waitVars, Running
<1>24. ASSUME NEW r \in Resources, NEW c \in Of(r), JoinFails(r, c)
       PROVE  CompletionAfterTeardown'
  BY <1>24 DEF JoinFails, TypeOK, appVars, closerVars, workVars, waitVars, Running
<1>25. ASSUME NEW x \in Closers, BeginShutdown(x) PROVE CompletionAfterTeardown'
  BY <1>25 DEF BeginShutdown, TypeOK, appVars, closerVars, workVars, waitVars, Running
<1>26. ASSUME NEW x \in Closers, PublishShuttingDown(x) PROVE CompletionAfterTeardown'
  BY <1>26
     DEF PublishShuttingDown, TypeOK, appVars, closerVars, workVars, waitVars,
         Running
<1>27. ASSUME NEW x \in Closers, EndShutdownSweep(x) PROVE CompletionAfterTeardown'
  BY <1>27
     DEF EndShutdownSweep, TypeOK, appVars, closerVars, workVars, waitVars, Running
<1>28. ASSUME NEW x \in Closers, NEW r \in Resources, StopResource(x, r)
       PROVE  CompletionAfterTeardown'
  BY <1>28 DEF StopResource, TypeOK, appVars, closerVars, workVars, waitVars, Running
<1>29. ASSUME NEW d \in Dispatchers, RecheckGate(d) PROVE CompletionAfterTeardown'
  BY <1>29 DEF RecheckGate, TypeOK, appVars, closerVars, workVars, waitVars, Running
<1>30. ASSUME NEW d \in Dispatchers, Activate(d) PROVE CompletionAfterTeardown'
  BY <1>30 DEF Activate, TypeOK, appVars, closerVars, workVars, waitVars, Running
<1>31. ASSUME NEW d \in Dispatchers, GiveUp(d) PROVE CompletionAfterTeardown'
  BY <1>31 DEF GiveUp, TypeOK, appVars, closerVars, workVars, waitVars, Running
<1>32. ASSUME NEW d \in Dispatchers, NEW r \in Resources, PassGate(d, r)
       PROVE  CompletionAfterTeardown'
  BY <1>32 DEF PassGate, TypeOK, appVars, closerVars, workVars, waitVars, Running
<1>33. ASSUME NEW d \in Dispatchers, NEW c \in Managed, Admit(d, c)
       PROVE  CompletionAfterTeardown'
  BY <1>33 DEF Admit, TypeOK, appVars, closerVars, workVars, waitVars, Running
<1>34. ASSUME NEW c \in Managed, ReadLifecycle(c) PROVE CompletionAfterTeardown'
  BY <1>34
     DEF ReadLifecycle, Goes, TypeOK, appVars, closerVars, workVars, waitVars,
         Running
<1>35. ASSUME NEW c \in Managed, LookForWork(c) PROVE CompletionAfterTeardown'
  BY <1>35
     DEF LookForWork, Goes, TypeOK, appVars, closerVars, workVars, waitVars, Running
<1>36. ASSUME NEW c \in Managed, WakeUp(c) PROVE CompletionAfterTeardown'
  BY <1>36 DEF WakeUp, Goes, TypeOK, appVars, closerVars, workVars, waitVars, Running
<1>37. ASSUME NEW c \in Managed, CallableConsumesSignal(c)
       PROVE  CompletionAfterTeardown'
  BY <1>37
     DEF CallableConsumesSignal, TypeOK, appVars, closerVars, workVars, waitVars,
         Running
<1>38. ASSUME NEW c \in Managed, CallableReturns(c) PROVE CompletionAfterTeardown'
  BY <1>38
     DEF CallableReturns, Goes, TypeOK, appVars, closerVars, workVars, waitVars,
         Running
<1>39. ASSUME NEW c \in Managed, BeginWait(c) PROVE CompletionAfterTeardown'
  BY <1>39 DEF BeginWait, Goes, TypeOK, appVars, closerVars, workVars, waitVars, Running
<1>40. ASSUME NEW c \in Managed, WaitIsWoken(c) PROVE CompletionAfterTeardown'
  BY <1>40
     DEF WaitIsWoken, Goes, TypeOK, appVars, closerVars, workVars, waitVars, Running
<1>41. ASSUME NEW c \in Managed, WaitEnds(c) PROVE CompletionAfterTeardown'
  BY <1>41
     DEF WaitEnds, Goes, Unregistered, TypeOK, appVars, closerVars, workVars,
         waitVars, Running
<1>42. ASSUME NEW c \in Managed, WaitGoesOn(c) PROVE CompletionAfterTeardown'
  BY <1>42
     DEF WaitGoesOn, Goes, TypeOK, appVars, closerVars, workVars, waitVars, Running
<1>43. ASSUME NEW c \in Managed, WaitTimesOut(c) PROVE CompletionAfterTeardown'
  BY <1>43
     DEF WaitTimesOut, Goes, Unregistered, TypeOK, appVars, closerVars, workVars,
         waitVars, Running
<1>44. CASE UNCHANGED vars
  BY <1>44 DEF vars, TypeOK, appVars, closerVars, workVars, waitVars, Running
<1> QED
  BY <1>1, <1>2, <1>3, <1>4, <1>5, <1>6, <1>7, <1>8, <1>9, <1>10, <1>11, <1>12, <1>13,
     <1>14, <1>15, <1>16, <1>17, <1>18, <1>19, <1>20, <1>21, <1>22, <1>23, <1>24, <1>25,
     <1>26, <1>27, <1>28, <1>29, <1>30, <1>31, <1>32, <1>33, <1>34, <1>35, <1>36, <1>37,
     <1>38, <1>39, <1>40, <1>41, <1>42, <1>43, <1>44
     DEF Next, AppStep, CloserStep, DispatchStep, Trampoline

-----------------------------------------------------------------------------
(* The theorems.                                                           *)

LEMMA InitInvariant == Init => IInv
<1> SUFFICES ASSUME Init PROVE IInv
  OBVIOUS
<1>1. TypeOK
  BY DEF Init, TypeOK, States, Phases, Locations, Resources, ValidTopology
<1>2. /\ PublishedPhases /\ WorkOnlyOnceStarted /\ WaitersWait
      /\ TerminatingContextsLook /\ RollbackProgress /\ TeardownProgress
      /\ FailedStartLeavesNothing /\ CompletionAfterTeardown
  BY
     DEF Init, PublishedPhases, WorkOnlyOnceStarted, WaitersWait,
         TerminatingContextsLook,
         RollbackProgress, TeardownProgress, FailedStartLeavesNothing,
         CompletionAfterTeardown, ShouldTerminate
<1> QED BY <1>1, <1>2 DEF IInv

LEMMA InvariantHolds == IInv /\ [Next]_vars => IInv'
BY TypesHold, PhasesHold, WorkHolds, WaitersHold, TerminatingHolds, RollbackHolds,
   TeardownHolds, FailedStartHolds, CompletionHolds
   DEF IInv

(* The inductive invariant of the lifecycle holds for every set of         *)
(* compositions, any number of closers and dispatchers, and whatever the   *)
(* provider refuses.                                                       *)
THEOREM LifecycleInvariant == Spec => []IInv
<1>1. Init => IInv
  BY InitInvariant
<1>2. IInv /\ [Next]_vars => IInv'
  BY InvariantHolds
<1> QED BY <1>1, <1>2, PTL DEF Spec

(* ShutdownComplete is published only when every managed execution has     *)
(* been joined and destroyed, whatever failed or came late before.         *)
THEOREM CompletionCorrect == Spec => []CompletionAfterTeardown
<1>1. IInv => CompletionAfterTeardown
  BY DEF IInv
<1> QED BY <1>1, LifecycleInvariant, PTL

(* A Start that has failed leaves behind only executions that the provider *)
(* would not join.                                                         *)
THEOREM FailedStartCorrect == Spec => []FailedStartLeavesNothing
<1>1. IInv => FailedStartLeavesNothing
  BY DEF IInv
<1> QED BY <1>1, LifecycleInvariant, PTL

(* No callable runs in an owner whose Start has not succeeded.             *)
THEOREM WorkCorrect == Spec => []WorkOnlyOnceStarted
<1>1. IInv => WorkOnlyOnceStarted
  BY DEF IInv
<1> QED BY <1>1, LifecycleInvariant, PTL

(* No registration of WaitForShutdown is left at completion.               *)
THEOREM WaitersCorrect == Spec => []NoWaiterOutlivesTeardown
<1>1. IInv => NoWaiterOutlivesTeardown
  <2> SUFFICES ASSUME IInv, state = "ShutdownComplete", NEW c \in waiters PROVE FALSE
    BY DEF NoWaiterOutlivesTeardown
  <2>1. c \in Managed
    BY DEF IInv, TypeOK
  <2>2. context[c] = "absent"
    BY <2>1 DEF IInv, CompletionAfterTeardown
  <2>3. context[c] \in {"waiting", "settling"}
    BY DEF IInv, WaitersWait
  <2> QED BY <2>2, <2>3
<1> QED BY <1>1, LifecycleInvariant, PTL

(* A context that is told to terminate and then joined is never left       *)
(* asleep in its trampoline.                                               *)
THEOREM TerminationWakes == Spec => []TerminatingContextIsWoken
<1>1. IInv => TerminatingContextIsWoken
  BY DEF IInv, TerminatingContextsLook, TerminatingContextIsWoken
<1> QED BY <1>1, LifecycleInvariant, PTL

(* Once the trampolines are told to terminate, nothing tells them to go on *)
(* again.                                                                  *)
THEOREM TerminationFinal == Spec => TerminationIsFinal
<1>1. IInv /\ [Next]_vars => [ShouldTerminate => ShouldTerminate']_vars
  <2> SUFFICES ASSUME IInv, [Next]_vars, ShouldTerminate PROVE ShouldTerminate'
    OBVIOUS
  <2>1. CASE AppStep
    <3>1. CASE CommitInitialization \/ PublishStarted
      BY <3>1
         DEF CommitInitialization, PublishStarted, IInv, PublishedPhases, ShouldTerminate
    <3>2. CASE PublishRollback \/ PublishShutdownComplete
      BY <3>2 DEF PublishRollback, PublishShutdownComplete, ShouldTerminate
    <3>3. CASE ~(CommitInitialization \/ PublishStarted) /\ state' = state
      BY <3>3 DEF ShouldTerminate
    <3> QED
      BY <2>1, <3>1, <3>2, <3>3
         DEF AppStep, BeginInitialize, BeginStart, BeginRollback, WakeStarted, DestroyAll,
             BeginFinalize, BeginTeardown, EndTeardownFailed, WakeCompleted,
             InitializeResource, FailInitialization, StartResource, FindQuiescent, FindBusy,
             TerminateResource, DestroyResource, StartContext, FailStart, Joined, JoinFails
  <2>2. CASE \E x \in Closers : CloserStep(x)
    BY <2>2
       DEF CloserStep, BeginShutdown, PublishShuttingDown, EndShutdownSweep, StopResource,
           ShouldTerminate
  <2>3. CASE \E d \in Dispatchers : DispatchStep(d)
    BY <2>3
     DEF DispatchStep, PassGate, Admit, RecheckGate, Activate, GiveUp,
         ShouldTerminate
  <2>4. CASE \E c \in Managed : Trampoline(c)
    BY <2>4
       DEF Trampoline, ReadLifecycle, LookForWork, WakeUp, CallableConsumesSignal,
           CallableReturns, BeginWait, WaitIsWoken, WaitEnds, WaitGoesOn, WaitTimesOut,
           ShouldTerminate
  <2>5. CASE UNCHANGED vars
    BY <2>5 DEF vars, ShouldTerminate
  <2> QED BY <2>1, <2>2, <2>3, <2>4, <2>5 DEF Next
<1> QED BY <1>1, LifecycleInvariant, PTL DEF Spec, TerminationIsFinal

-----------------------------------------------------------------------------
(* The composition. *)

Composed == topology \in Topologies /\ ValidTopology(topology)

\* The topology of an owner is one that compiles, and stays the same.
LEMMA StaysComposed == Spec => []Composed
<1>1. Init => Composed
  BY DEF Init, Composed
<1>2. Composed /\ [Next]_vars => Composed'
  <2>1. ASSUME [Next]_vars PROVE topology' = topology
    BY <2>1, FixedTopology
  <2> QED BY <2>1 DEF Composed
<1> QED BY <1>1, <1>2, PTL DEF Spec

\* A set of one element.
LEMMA OneElement ==
  ASSUME NEW S, IsFiniteSet(S), Cardinality(S) = 1
  PROVE  \E x : S = {x}
<1>1. ExistsBijection(1 .. 1, S)
  BY FS_CardinalityType
<1>2. PICK f \in Bijection(1 .. 1, S) : TRUE
  BY <1>1 DEF ExistsBijection
<1>3. S = {f[1]}
  BY <1>2 DEF Bijection, Injection, Surjection, IsInjective
<1> QED BY <1>3

\* The binding whose callable a declared thread takes is the only one of its identity.
LEMMA OnlyBinding ==
  ASSUME Composed, NEW r \in Resources, Kind(r) = "thread"
  PROVE  /\ BindingTaken(topology, r) \in DOMAIN topology.bindings
         /\ \A b \in DOMAIN topology.bindings :
               topology.bindings[b] = topology.resources[r].identity
                  <=> b = BindingTaken(topology, r)
<1> DEFINE bindings == topology.bindings
           identity == topology.resources[r].identity
           Bound == {b \in DOMAIN bindings : bindings[b] = identity}
<1>1. PICK n \in Nat : DOMAIN bindings = 1 .. n
  <2>1. bindings \in Seq(Range(bindings))
    BY IndicesAreNumbers DEF Composed, IsDeclaration
  <2>2. Len(bindings) \in Nat /\ DOMAIN bindings = 1 .. Len(bindings)
    BY <2>1
  <2> QED BY <2>2
<1>2. IsFiniteSet(Bound)
  <2>1. IsFiniteSet(1 .. n)
    BY <1>1, FS_Interval
  <2> QED BY <1>1, <2>1, FS_Subset
<1>3. Cardinality(Bound) = 1
  <2>1. ResourceBindingIsValid(topology.resources[r], bindings)
    BY DEF Composed, ValidTopology, ValidDedicatedThreadBindings, Resources
  <2> QED BY <2>1
      DEF ResourceBindingIsValid, IsDedicatedThread, Kind, DedicatedThreadBindingCount
<1>4. PICK x : Bound = {x}
  BY <1>2, <1>3, OneElement
<1>5. x \in DOMAIN bindings /\ bindings[x] = identity /\ x \in Nat
  BY <1>1, <1>4
<1>6. \A c \in 1 .. x - 1 : bindings[c] # identity
  <2> SUFFICES ASSUME NEW c \in 1 .. x - 1, bindings[c] = identity
               PROVE  FALSE
    OBVIOUS
  <2>1. c \in 1 .. n /\ c # x
    BY <1>1, <1>5
  <2>2. c \in Bound
    BY <1>1, <2>1
  <2> QED BY <1>4, <2>1, <2>2
<1>7. \E b \in DOMAIN bindings :
         bindings[b] = identity /\ \A c \in 1 .. b - 1 : bindings[c] # identity
  BY <1>5, <1>6
<1>8. DedicatedThreadBinding(identity, bindings) \in Bound
  BY <1>7 DEF DedicatedThreadBinding
<1>9. DedicatedThreadBinding(identity, bindings) = x
  BY <1>4, <1>8
<1> QED BY <1>4, <1>5, <1>9 DEF BindingTaken

\* Identities tell the Dedicated Threads apart, bindings name them, and no binding is left.
LEMMA CompositionTakesBindings == Composed => BindingsTakenOnce
<1> SUFFICES ASSUME Composed
             PROVE  LET threads == {r \in Resources : Kind(r) = "thread"} IN
                    /\ {BindingTaken(topology, r) : r \in threads} = DOMAIN topology.bindings
                    /\ \A r, s \in threads :
                          BindingTaken(topology, r) = BindingTaken(topology, s) => r = s
  BY DEF BindingsTakenOnce
<1> DEFINE threads == {r \in Resources : Kind(r) = "thread"}
<1>1. \A r \in threads : BindingTaken(topology, r) \in DOMAIN topology.bindings
  BY OnlyBinding
<1>2. ASSUME NEW b \in DOMAIN topology.bindings
      PROVE  \E r \in threads : BindingTaken(topology, r) = b
  <2>1. BindingMatchesDeclaredThread(topology.bindings[b], topology.resources)
    BY DEF Composed, ValidTopology, ValidDedicatedThreadBindings
  <2>2. PICK r \in Resources : Kind(r) = "thread"
                               /\ topology.resources[r].identity = topology.bindings[b]
    BY <2>1 DEF BindingMatchesDeclaredThread, IsDedicatedThread, Kind, Resources, ResourceIndices
  <2> QED BY <2>2, OnlyBinding
<1>3. ASSUME NEW r \in threads, NEW s \in threads,
             BindingTaken(topology, r) = BindingTaken(topology, s)
      PROVE  r = s
  <2>1. topology.resources[r].identity = topology.resources[s].identity
    BY <1>3, OnlyBinding
  <2>2. ResourceIdentityConflict(topology.resources[r], topology.resources[s])
          /\ ResourceIdentityConflict(topology.resources[s], topology.resources[r])
    BY <2>1 DEF ResourceIdentityConflict, Kind
  <2>3. ~(r < s) /\ ~(s < r)
    BY <2>2 DEF Composed, ValidTopology, UniqueResourceIdentities, Resources, ResourceIndices
  <2>4. r \in Nat /\ s \in Nat
    BY IndicesAreNumbers DEF Composed, Resources
  <2> QED BY <2>3, <2>4
<1> QED BY <1>1, <1>2, <1>3

(* Whatever threads a topology declares and whatever the application       *)
(* binds, if it compiles every bound callable runs on exactly one of them. *)
THEOREM BindingsCorrect == Spec => []BindingsTakenOnce
<1>1. Composed => BindingsTakenOnce
  BY CompositionTakesBindings
<1> QED BY <1>1, StaysComposed, PTL

-----------------------------------------------------------------------------
(* Sums. The plan and the resolved properties are folds over packs; what   *)
(* they compute is proved by induction over the set that is folded.        *)

\* Least elements, and with them induction: over numbers and over finite sets.
LEMMA LeastNatural ==
  ASSUME NEW S \in SUBSET Nat, S # {}
  PROVE \E n \in S : \A m \in S : n <= m
<1>1. PICK n \in S : \A m \in S : ~ (<<m, n>> \in OpToRel(<, Nat))
  BY WFMin, NatLessThanWellFounded
<1>2. ASSUME NEW m \in S PROVE n <= m
  <2>1. m < n => <<m, n>> \in OpToRel(<, Nat)
    BY Zenon DEF OpToRel
  <2>2. ~ (m < n)
    BY <1>1, <2>1
  <2> QED BY <2>2
<1> QED BY <1>2

\* What holds of 0, and of a number's successor with the number, holds of all.
LEMMA Induction ==
  ASSUME NEW P \in SUBSET Nat, 0 \in P, \A n \in P : n + 1 \in P
  PROVE  P = Nat
<1>1. SUFFICES ASSUME Nat \ P # {} PROVE FALSE
  OBVIOUS
<1>2. PICK n \in Nat \ P : \A m \in Nat \ P : n <= m
  BY <1>1, LeastNatural
<1>3. n - 1 \in Nat /\ ~(n <= n - 1)
  BY <1>2
<1> QED BY <1>2, <1>3

\* What holds of a subset when it holds of all that are smaller holds of every subset.
LEMMA SubsetInduction ==
  ASSUME NEW S, IsFiniteSet(S), NEW F,
         \A s \in SUBSET S : (\A u \in SUBSET s : u # s => u \in F) => s \in F
  PROVE SUBSET S \subseteq F
<1>1. SUFFICES ASSUME NEW b \in SUBSET S, b \notin F PROVE FALSE
  OBVIOUS
<1> DEFINE Sizes == {Cardinality(s) : s \in (SUBSET S) \ F}
<1>2. Sizes \in SUBSET Nat /\ Sizes # {}
  BY <1>1, FS_Subset, FS_CardinalityType
<1>3. PICK n \in Sizes : \A m \in Sizes : n <= m
  BY <1>2, LeastNatural
<1>4. PICK s \in (SUBSET S) \ F : n = Cardinality(s)
  BY <1>3
<1>5. PICK u \in SUBSET s : u # s /\ u \notin F
  BY <1>4
<1>6. Cardinality(u) < Cardinality(s)
  BY <1>4, <1>5, FS_Subset, FS_CardinalityType
<1>7. n <= Cardinality(u)
  BY <1>3, <1>4, <1>5
<1> QED BY <1>4, <1>6, <1>7, FS_Subset, FS_CardinalityType

\* The fold of the community modules, as a function of the set folded over.
Chosen(s) == CHOOSE x \in s : TRUE

IsSum(g, f, S) == g = [s \in SUBSET S |-> IF s = {} THEN 0 ELSE f[Chosen(s)] + g[s \ {Chosen(s)}]]

SumOver(f, S) == CHOOSE g : IsSum(g, f, S)

\* A total is the value of that function for the domain.
LEMMA TotalIsSum ==
  ASSUME NEW f
  PROVE Total(f) = SumOver(f, DOMAIN f)[DOMAIN f]
BY DEF Total, FoldFunction, FoldFunctionOnSet, MapThenFoldSet, IsSum, SumOver, Chosen

\* Two sums agree on a set where what they add up agrees.
LEMMA SumsAgree ==
  ASSUME NEW f, NEW g, NEW S, NEW h, NEW k, NEW T, NEW s \in SUBSET (S \cap T), IsFiniteSet(s),
         IsSum(g, f, S), IsSum(h, k, T), \A i \in s : f[i] = k[i]
  PROVE g[s] = h[s]
<1> DEFINE F == {u \in SUBSET s : g[u] = h[u]}
<1>1. ASSUME NEW u \in SUBSET s, \A v \in SUBSET u : v # u => v \in F
      PROVE u \in F
  <2>1. g[u] = IF u = {} THEN 0 ELSE f[Chosen(u)] + g[u \ {Chosen(u)}]
    BY DEF IsSum
  <2>2. h[u] = IF u = {} THEN 0 ELSE k[Chosen(u)] + h[u \ {Chosen(u)}]
    BY DEF IsSum
  <2>3. CASE u = {}
    BY <2>1, <2>2, <2>3
  <2>4. CASE u # {}
    <3>1. Chosen(u) \in u
      BY <2>4 DEF Chosen
    <3>2. u \ {Chosen(u)} \in F
      BY <1>1, <3>1
    <3> QED BY <2>1, <2>2, <2>4, <3>1, <3>2
  <2> QED BY <2>3, <2>4
<1>2. SUBSET s \subseteq F
  <2> HIDE DEF F
  <2> QED BY <1>1, SubsetInduction
<1> QED BY <1>2

\* The recursion has a solution over every finite set.
LEMMA SumExists ==
  ASSUME NEW f, NEW S, IsFiniteSet(S)
  PROVE IsSum(SumOver(f, S), f, S)
<1> DEFINE F == {T \in SUBSET S : IsSum(SumOver(f, T), f, T)}
<1>1. ASSUME NEW T \in SUBSET S, \A u \in SUBSET T : u # T => u \in F
      PROVE T \in F
  <2> DEFINE rest(s) == s \ {Chosen(s)}
  <2> DEFINE g == [s \in SUBSET T |->
                     IF s = {} THEN 0 ELSE f[Chosen(s)] + SumOver(f, rest(s))[rest(s)]]
  <2>1. ASSUME NEW s \in SUBSET T, s # {} PROVE g[rest(s)] = SumOver(f, rest(s))[rest(s)]
    <3>1. Chosen(s) \in s
      BY <2>1 DEF Chosen
    <3>2. PICK u : u = rest(s)
      OBVIOUS
    <3>3. u \in SUBSET T /\ u # T
      BY <3>1, <3>2
    <3>4. IsSum(SumOver(f, u), f, u)
      BY <3>3, <1>1
    <3>5. SumOver(f, u)[u] = IF u = {} THEN 0 ELSE f[Chosen(u)] + SumOver(f, u)[rest(u)]
      BY <3>4 DEF IsSum
    <3>6. g[u] = IF u = {} THEN 0 ELSE f[Chosen(u)] + SumOver(f, rest(u))[rest(u)]
      BY <3>3
    <3>7. ASSUME u # {} PROVE SumOver(f, u)[rest(u)] = SumOver(f, rest(u))[rest(u)]
      <4>1. Chosen(u) \in u
        BY <3>7 DEF Chosen
      <4>2. IsSum(SumOver(f, rest(u)), f, rest(u))
        <5>1. rest(u) \in SUBSET T /\ rest(u) # T
          BY <3>3
        <5> QED BY <5>1, <1>1
      <4>3. IsFiniteSet(rest(u)) /\ rest(u) \in SUBSET (u \cap rest(u))
        BY <3>3, FS_Subset
      <4> HIDE DEF rest
      <4> QED BY <3>4, <4>2, <4>3, SumsAgree
    <3> HIDE DEF g
    <3> QED BY <3>2, <3>5, <3>6, <3>7
  <2>2. IsSum(g, f, T)
    <3>1. ASSUME NEW s \in SUBSET T
          PROVE g[s] = IF s = {} THEN 0 ELSE f[Chosen(s)] + g[rest(s)]
      <4>1. g[s] = IF s = {} THEN 0 ELSE f[Chosen(s)] + SumOver(f, rest(s))[rest(s)]
        OBVIOUS
      <4> HIDE DEF g, rest
      <4> QED BY <4>1, <2>1
    <3>2. g = [s \in SUBSET T |-> g[s]]
      OBVIOUS
    <3> HIDE DEF g
    <3>3. g = [s \in SUBSET T |-> IF s = {} THEN 0 ELSE f[Chosen(s)] + g[rest(s)]]
      BY <3>1, <3>2
    <3> QED BY <3>3 DEF IsSum
  <2> HIDE DEF g
  <2>3. IsSum(SumOver(f, T), f, T)
    BY <2>2 DEF SumOver
  <2> QED BY <2>3
<1>2. SUBSET S \subseteq F
  <2> HIDE DEF F
  <2> QED BY <1>1, SubsetInduction
<1> QED BY <1>2

\* A sum in which it does not matter which element is taken first.
Adds(g, f, S) ==
    /\ g[{}] = 0
    /\ \A s \in SUBSET S : g[s] \in Int
    /\ \A s \in SUBSET S : \A x \in S \ s : g[s \cup {x}] = f[x] + g[s]

\* Addition commutes: whichever element the fold chooses, any of them can be split off.
LEMMA SumAdds ==
  ASSUME NEW f, NEW g, NEW S, IsFiniteSet(S), IsSum(g, f, S), \A i \in S : f[i] \in Int
  PROVE  Adds(g, f, S)
<1>3. g[{}] = 0
  BY DEF IsSum
<1>0. ASSUME NEW s \in SUBSET S, s # {}
      PROVE Chosen(s) \in s /\ g[s] = f[Chosen(s)] + g[s \ {Chosen(s)}]
  BY <1>0 DEF Chosen, IsSum
<1>1. \A s \in SUBSET S : g[s] \in Int
  <2> DEFINE F == {s \in SUBSET S : g[s] \in Int}
  <2>1. ASSUME NEW s \in SUBSET S, \A u \in SUBSET s : u # s => u \in F
        PROVE s \in F
    <3>1. CASE s = {}
      BY <3>1 DEF IsSum
    <3>2. CASE s # {}
      <4>1. s \ {Chosen(s)} \in F
        BY <2>1, <1>0, <3>2
      <4> QED BY <4>1, <1>0, <3>2
    <3> QED BY <3>1, <3>2
  <2>2. SUBSET S \subseteq F
    <3> HIDE DEF F
    <3> QED BY <2>1, SubsetInduction
  <2> QED BY <2>2
<1>2. \A s \in SUBSET S : \A x \in S \ s : g[s \cup {x}] = f[x] + g[s]
  <2> DEFINE F == {s \in SUBSET S : \A x \in S \ s : g[s \cup {x}] = f[x] + g[s]}
  <2>1. ASSUME NEW s \in SUBSET S, \A u \in SUBSET s : u # s => u \in F
        PROVE s \in F
    <3>1. SUFFICES ASSUME NEW x \in S \ s PROVE g[s \cup {x}] = f[x] + g[s]
      OBVIOUS
    <3>2. PICK u : u = s \cup {x}
      OBVIOUS
    <3>3. PICK c : c = Chosen(u)
      OBVIOUS
    <3>4. c \in u /\ g[u] = f[c] + g[u \ {c}]
      BY <1>0, <3>1, <3>2, <3>3
    <3>5. CASE c = x
      <4>1. u \ {c} = s
        BY <3>1, <3>2, <3>5
      <4> QED BY <3>2, <3>4, <3>5, <4>1
    <3>6. CASE c # x
      <4>1. c \in s /\ u \ {c} = (s \ {c}) \cup {x} /\ s = (s \ {c}) \cup {c}
        BY <3>2, <3>4, <3>6
      <4>2. s \ {c} \in F
        BY <2>1, <4>1
      <4>3. g[(s \ {c}) \cup {x}] = f[x] + g[s \ {c}]
        BY <4>2
      <4>4. g[(s \ {c}) \cup {c}] = f[c] + g[s \ {c}]
        BY <4>1, <4>2
      <4>5. f[x] \in Int /\ f[c] \in Int /\ g[s \ {c}] \in Int
        BY <1>1, <4>1
      <4>6. g[u] = f[c] + (f[x] + g[s \ {c}]) /\ g[s] = f[c] + g[s \ {c}]
        BY <3>4, <4>1, <4>3, <4>4
      <4> QED BY <3>2, <4>5, <4>6
    <3> QED BY <3>5, <3>6
  <2>2. SUBSET S \subseteq F
    <3> HIDE DEF F
    <3> QED BY <2>1, SubsetInduction
  <2> QED BY <2>2
<1> QED BY <1>1, <1>2, <1>3 DEF Adds
\* All but one are zero.
LEMMA SumOfZeros ==
  ASSUME NEW f, NEW g, NEW S, IsFiniteSet(S), Adds(g, f, S),
         \A i \in S : f[i] \in Int, NEW x \in S, \A i \in S \ {x} : f[i] = 0
  PROVE  g[S] = f[x]
<1>2. g[{}] = 0 /\ {} \in SUBSET S
  BY DEF Adds
<1>a. \A v \in SUBSET S : \A z \in S \ v : g[v \cup {z}] = f[z] + g[v]
  BY DEF Adds
<1> DEFINE F == {s \in SUBSET S : x \in s \/ g[s] = 0}
<1>3. ASSUME NEW s \in SUBSET S, \A u \in SUBSET s : u # s => u \in F
      PROVE  s \in F
  <2>1. SUFFICES ASSUME s # {}, x \notin s PROVE g[s] = 0
    BY <1>2
  <2>2. PICK y : y \in s
    BY <2>1
  <2>3. s \ {y} \in SUBSET S /\ y \in S \ (s \ {y}) /\ s = (s \ {y}) \cup {y}
    BY <2>2
  <2>4. g[s] = f[y] + g[s \ {y}]
    BY <1>a, <2>3
  <2>5. g[s \ {y}] = 0
    <3>1. s \ {y} \in F
      BY <1>3, <2>2
    <3> QED BY <2>1, <3>1
  <2> QED BY <2>1, <2>2, <2>4, <2>5
<1>4. SUBSET S \subseteq F
  <2> HIDE DEF F
  <2> QED BY <1>3, SubsetInduction
<1>5. g[S \ {x}] = 0
  BY <1>4
<1>6. S = (S \ {x}) \cup {x}
  OBVIOUS
<1>7. g[S] = f[x] + g[S \ {x}]
  <2>1. S \ {x} \in SUBSET S /\ x \in S \ (S \ {x})
    OBVIOUS
  <2> QED BY <1>a, <1>6, <2>1
<1> QED BY <1>5, <1>7

\* The total of an empty function.
LEMMA TotalOfNone ==
  ASSUME NEW f, DOMAIN f = {}
  PROVE  Total(f) = 0
<1>1. IsSum(SumOver(f, {}), f, {})
  BY SumExists, FS_EmptySet
<1> QED BY <1>1, TotalIsSum DEF IsSum

\* The total of a function that has one more element than another.
LEMMA TotalWithOneMore ==
  ASSUME NEW D, IsFiniteSet(D), NEW x, x \notin D,
         NEW f, DOMAIN f = D \cup {x}, \A i \in D \cup {x} : f[i] \in Int,
         NEW h, DOMAIN h = D, \A i \in D : f[i] = h[i]
  PROVE  Total(h) \in Int /\ Total(f) = f[x] + Total(h)
<1>0. PICK E : E = D \cup {x}
  OBVIOUS
<1>1. IsFiniteSet(E) /\ D \in SUBSET (E \cap D) /\ D \in SUBSET E /\ x \in E \ D
      /\ DOMAIN f = E /\ \A i \in E : f[i] \in Int
  BY <1>0, FS_AddElement
<1>2. IsSum(SumOver(f, E), f, E) /\ IsSum(SumOver(h, D), h, D)
  BY <1>1, SumExists
<1>3. Total(f) = SumOver(f, E)[E] /\ Total(h) = SumOver(h, D)[D]
  BY <1>1, TotalIsSum
<1>4. SumOver(f, E)[D] = SumOver(h, D)[D]
  <2>1. D \in SUBSET (E \cap D) /\ IsSum(SumOver(f, E), f, E) /\ IsSum(SumOver(h, D), h, D)
    BY <1>1, <1>2
  <2> QED BY <2>1, SumsAgree
<1>5. SumOver(f, E)[D \cup {x}] = f[x] + SumOver(f, E)[D] /\ SumOver(f, E)[D] \in Int
  <2>1. Adds(SumOver(f, E), f, E)
    BY <1>1, <1>2, SumAdds
  <2> QED BY <1>1, <2>1 DEF Adds
<1> QED BY <1>0, <1>3, <1>4, <1>5

\* The total of a function with a single value that is not zero.
LEMMA TotalOfOne ==
  ASSUME NEW f, IsFiniteSet(DOMAIN f), \A i \in DOMAIN f : f[i] \in Int, NEW x \in DOMAIN f
  PROVE  (\A i \in DOMAIN f \ {x} : f[i] = 0) => Total(f) = f[x]
<1>1. PICK g, S : g = SumOver(f, DOMAIN f) /\ S = DOMAIN f
  OBVIOUS
<1>2. IsSum(g, f, S) /\ IsFiniteSet(S) /\ \A i \in S : f[i] \in Int
  BY <1>1, SumExists
<1>3. Adds(g, f, S)
  BY <1>2, SumAdds
<1>4. Total(f) = g[S]
  BY <1>1, TotalIsSum
<1> QED BY <1>1, <1>2, <1>3, <1>4, SumOfZeros

-----------------------------------------------------------------------------
(* The dense context indices. *)

\* The typing of a declaration.
LEMMA Declared ==
  ASSUME NEW t, IsDeclaration(t)
  PROVE  /\ Len(t.resources) \in Nat /\ ResourceIndices(t) = 1 .. Len(t.resources)
         /\ \A r \in ResourceIndices(t) :
               /\ ManagedContextCount(t.resources[r]) \in Nat
               /\ ManagedContextCount(t.resources[r]) = Len(PacksOf(t.resources[r]))
               /\ PacksOf(t.resources[r]) \in Seq(Seq(Property))
<1>1. Len(t.resources) \in Nat /\ DOMAIN t.resources = 1 .. Len(t.resources)
  BY DEF IsDeclaration
<1>2. ASSUME NEW r \in ResourceIndices(t)
      PROVE  /\ PacksOf(t.resources[r]) \in Seq(Seq(Property))
             /\ ManagedContextCount(t.resources[r]) = Len(PacksOf(t.resources[r]))
  <2>1. PacksOf(t.resources[r]) \in Seq(Seq(Property))
    BY DEF IsDeclaration, ResourceIndices
  <2>2. ManagedContextCount(t.resources[r]) = Len(PacksOf(t.resources[r]))
    BY DEF ManagedContextCount, PacksOf
  <2> QED BY <2>1, <2>2
<1>3. \A r \in ResourceIndices(t) : Len(PacksOf(t.resources[r])) \in Nat
  BY <1>2
<1> QED BY <1>1, <1>2, <1>3 DEF ResourceIndices

\* The range of a resource begins where that of the resource before it ends.
LEMMA Offsets ==
  ASSUME NEW t, IsDeclaration(t)
  PROVE  /\ TopologyContextOffset(t, 1) = 0
         /\ \A r \in ResourceIndices(t) :
               /\ TopologyContextOffset(t, r) \in Int
               /\ TopologyContextOffset(t, r + 1)
                     = TopologyContextOffset(t, r) + ManagedContextCount(t.resources[r])
         /\ TopologyContextOffset(t, Len(t.resources) + 1) = ManagedExecutionContextCount(t)
<1> DEFINE Before(r) == {j \in ResourceIndices(t) : j < r}
           count(i) == ManagedContextCount(t.resources[i])
<1>0. Len(t.resources) \in Nat /\ ResourceIndices(t) = 1 .. Len(t.resources)
      /\ \A r \in ResourceIndices(t) : count(r) \in Nat
  BY Declared
<1>1. TopologyContextOffset(t, 1) = 0
  <2>1. Before(1) = {}
    BY <1>0
  <2>2. TopologyContextOffset(t, 1) = Total([i \in Before(1) |-> count(i)])
    BY DEF TopologyContextOffset
  <2> QED BY <2>1, <2>2, TotalOfNone
<1>2. ASSUME NEW r \in ResourceIndices(t)
      PROVE  /\ TopologyContextOffset(t, r) \in Int
             /\ TopologyContextOffset(t, r + 1) = TopologyContextOffset(t, r) + count(r)
  <2> DEFINE D == Before(r)
             f == [i \in D \cup {r} |-> count(i)]
  <2>1. IsFiniteSet(D) /\ r \notin D
    <3>1. IsFiniteSet(1 .. Len(t.resources))
      BY <1>0, FS_Interval
    <3>2. D \subseteq 1 .. Len(t.resources) /\ r \notin D
      BY <1>0
    <3> QED BY <3>1, <3>2, FS_Subset
  <2>2. PICK h : h = [i \in D |-> count(i)]
    OBVIOUS
  <2>3. Total(h) \in Int /\ Total(f) = f[r] + Total(h)
    <3>1. DOMAIN f = D \cup {r} /\ \A i \in D \cup {r} : f[i] \in Int
      BY <1>0
    <3>2. DOMAIN h = D /\ \A i \in D : f[i] = h[i]
      BY <2>2
    <3> HIDE DEF D, f
    <3> QED BY <2>1, <3>1, <3>2, TotalWithOneMore
  <2>4. Before(r + 1) = D \cup {r}
    BY <1>0
  <2>5. TopologyContextOffset(t, r + 1) = Total(f)
    <3>1. TopologyContextOffset(t, r + 1) = Total([i \in Before(r + 1) |-> count(i)])
      BY DEF TopologyContextOffset
    <3> QED BY <2>4, <3>1
  <2>6. TopologyContextOffset(t, r) = Total(h)
    BY <2>2 DEF TopologyContextOffset
  <2>7. f[r] = count(r) /\ count(r) \in Nat
    BY <1>0
  <2> HIDE DEF f, D, count
  <2> QED BY <2>3, <2>5, <2>6, <2>7
<1>3. TopologyContextOffset(t, Len(t.resources) + 1) = ManagedExecutionContextCount(t)
  <2>1. Before(Len(t.resources) + 1) = ResourceIndices(t)
    BY <1>0
  <2>2. TopologyContextOffset(t, Len(t.resources) + 1)
          = Total([i \in Before(Len(t.resources) + 1) |-> count(i)])
    BY DEF TopologyContextOffset
  <2> QED BY <2>1, <2>2 DEF ManagedExecutionContextCount
<1> QED BY <1>1, <1>2, <1>3

\* Offsets are natural numbers and never decrease.
LEMMA OffsetsGrow ==
  ASSUME NEW t, IsDeclaration(t), NEW r \in 1 .. Len(t.resources) + 1
  PROVE  /\ TopologyContextOffset(t, r) \in Nat
         /\ \A s \in 1 .. Len(t.resources) + 1 :
               r <= s => TopologyContextOffset(t, r) <= TopologyContextOffset(t, s)
<1>0. Len(t.resources) \in Nat /\ ResourceIndices(t) = 1 .. Len(t.resources)
      /\ \A s \in ResourceIndices(t) : ManagedContextCount(t.resources[s]) \in Nat
  BY Declared
<1> DEFINE n == Len(t.resources)
           offset(i) == TopologyContextOffset(t, i)
<1>1. /\ offset(1) = 0
      /\ \A s \in 1 .. n :
            offset(s) \in Int /\ offset(s + 1) \in Int /\ offset(s) <= offset(s + 1)
  <2>1. offset(1) = 0
    BY Offsets
  <2>2. ASSUME NEW s \in 1 .. n
        PROVE  offset(s) \in Int /\ offset(s + 1) \in Int /\ offset(s) <= offset(s + 1)
    <3>1. s \in ResourceIndices(t)
      BY <1>0
    <3>2. offset(s) \in Int /\ offset(s + 1) = offset(s) + ManagedContextCount(t.resources[s])
      BY <3>1, Offsets
    <3>3. ManagedContextCount(t.resources[s]) \in Nat
      BY <1>0, <3>1
    <3> HIDE DEF offset
    <3> QED BY <3>2, <3>3
  <2> HIDE DEF offset, n
  <2> QED BY <2>1, <2>2
<1> HIDE DEF n, offset
<1>2. n \in Nat /\ r \in 1 .. n + 1
  BY <1>0 DEF n
<1>3. \A s \in 1 .. n + 1 : offset(s) \in Int
  <2> SUFFICES ASSUME NEW s \in 1 .. n + 1 PROVE offset(s) \in Int
    OBVIOUS
  <2>1. CASE s = 1
    BY <1>1, <2>1
  <2>2. CASE s # 1
    <3>1. s - 1 \in 1 .. n /\ (s - 1) + 1 = s
      BY <1>2, <2>2
    <3> QED BY <1>1, <3>1
  <2> QED BY <2>1, <2>2
<1>4. ASSUME NEW a \in 1 .. n + 1
      PROVE  \A s \in 1 .. n + 1 : a <= s => offset(a) <= offset(s)
  <2> DEFINE P == {m \in Nat : a + m <= n + 1 => offset(a) <= offset(a + m)}
  <2>1. 0 \in P
    BY <1>2, <1>3
  <2>2. ASSUME NEW m \in P PROVE m + 1 \in P
    <3>1. SUFFICES ASSUME a + (m + 1) <= n + 1 PROVE offset(a) <= offset(a + (m + 1))
      OBVIOUS
    <3>2. a + m \in 1 .. n /\ (a + m) + 1 = a + (m + 1) /\ a + m <= n + 1
      BY <1>2, <3>1
    <3>3. offset(a) <= offset(a + m)
      BY <3>2
    <3>4. /\ offset(a + m) <= offset(a + (m + 1))
          /\ offset(a + m) \in Int /\ offset(a + (m + 1)) \in Int
      BY <1>1, <3>2
    <3> QED BY <1>3, <3>3, <3>4
  <2>3. P = Nat
    <3>1. P \in SUBSET Nat
      OBVIOUS
    <3> HIDE DEF P
    <3> QED BY <2>1, <2>2, <3>1, Induction
  <2>4. ASSUME NEW s \in 1 .. n + 1, a <= s PROVE offset(a) <= offset(s)
    <3>1. s - a \in Nat /\ a + (s - a) = s
      BY <1>2, <2>4
    <3>2. s - a \in P
      BY <2>3, <3>1
    <3> QED BY <3>1, <3>2
  <2> QED BY <2>4
<1>5. offset(r) \in Nat
  <2>1. 1 \in 1 .. n + 1 /\ 1 <= r
    BY <1>2
  <2>2. 0 <= offset(r)
    BY <1>1, <1>2, <1>4, <2>1
  <2> QED BY <1>2, <1>3, <2>2
<1> QED BY <1>2, <1>4, <1>5 DEF n, offset

\* The ranges of the resources lie one behind the other, and together they are the whole.
LEMMA RangesTile ==
  ASSUME NEW t, IsDeclaration(t)
  PROVE  /\ \A r \in ResourceIndices(t) :
               /\ FirstContextIndex(t, r) \in Nat /\ EndContextIndex(t, r) \in Nat
               /\ EndContextIndex(t, r) <= ManagedExecutionContextCount(t)
         /\ \A r, s \in ResourceIndices(t) :
               r < s => EndContextIndex(t, r) <= FirstContextIndex(t, s)
         /\ ManagedExecutionContextCount(t) \in Nat
         /\ \A c \in 0 .. ManagedExecutionContextCount(t) - 1 :
               \E r \in ResourceIndices(t) : AnswersFor(t, r, c)
<1> DEFINE n == Len(t.resources)
           offset(i) == TopologyContextOffset(t, i)
<1>1. n \in Nat /\ ResourceIndices(t) = 1 .. n
  BY Declared
<1>2. \A r \in 1 .. n + 1 : offset(r) \in Nat
  BY OffsetsGrow
<1>3. \A r, s \in 1 .. n + 1 : r <= s => offset(r) <= offset(s)
  <2> SUFFICES ASSUME NEW r \in 1 .. n + 1, NEW s \in 1 .. n + 1, r <= s
               PROVE  offset(r) <= offset(s)
    OBVIOUS
  <2> QED BY OffsetsGrow
<1>4. offset(1) = 0 /\ offset(n + 1) = ManagedExecutionContextCount(t)
  BY Offsets
<1>5. \A r \in ResourceIndices(t) :
         FirstContextIndex(t, r) = offset(r) /\ EndContextIndex(t, r) = offset(r + 1)
  BY Offsets DEF FirstContextIndex, EndContextIndex
<1> HIDE DEF n, offset
<1>6. ASSUME NEW r \in ResourceIndices(t)
      PROVE  /\ FirstContextIndex(t, r) \in Nat /\ EndContextIndex(t, r) \in Nat
             /\ EndContextIndex(t, r) <= ManagedExecutionContextCount(t)
  <2>1. r \in 1 .. n + 1 /\ r + 1 \in 1 .. n + 1 /\ n + 1 \in 1 .. n + 1 /\ r + 1 <= n + 1
    BY <1>1
  <2> QED BY <1>2, <1>3, <1>4, <1>5, <2>1
<1>7. ASSUME NEW r \in ResourceIndices(t), NEW s \in ResourceIndices(t), r < s
      PROVE  EndContextIndex(t, r) <= FirstContextIndex(t, s)
  <2>1. r + 1 \in 1 .. n + 1 /\ s \in 1 .. n + 1 /\ r + 1 <= s
    BY <1>1, <1>7
  <2> QED BY <1>3, <1>5, <2>1
<1>8. ManagedExecutionContextCount(t) \in Nat
  BY <1>1, <1>2, <1>4
<1>9. ASSUME NEW c \in 0 .. ManagedExecutionContextCount(t) - 1
      PROVE  \E r \in ResourceIndices(t) : AnswersFor(t, r, c)
  <2> DEFINE Beyond == {s \in 1 .. n + 1 : c < offset(s)}
  <2>1. n + 1 \in Beyond
    BY <1>1, <1>4, <1>8
  <2>2. PICK s \in Beyond : \A q \in Beyond : s <= q
    <3>1. Beyond \in SUBSET Nat /\ Beyond # {}
      BY <1>1, <2>1
    <3> HIDE DEF Beyond
    <3> QED BY <3>1, LeastNatural
  <2>3. s \in 1 .. n + 1 /\ c < offset(s) /\ s # 1
    BY <1>4, <1>8
  <2>4. s - 1 \in ResourceIndices(t) /\ s - 1 \in 1 .. n + 1 /\ (s - 1) + 1 = s /\ ~(s <= s - 1)
    BY <1>1, <2>3
  <2>5. ~(c < offset(s - 1))
    BY <2>2, <2>4
  <2>6. offset(s - 1) <= c
    BY <1>2, <1>8, <2>4, <2>5
  <2>7. AnswersFor(t, s - 1, c)
    BY <1>5, <2>3, <2>4, <2>6 DEF AnswersFor
  <2> QED BY <2>4, <2>7
<1> QED BY <1>6, <1>7, <1>8, <1>9

(* The static_asserts of StaticTopologyPlan can reject nothing: the ranges  *)
(* that the offsets give to the resources end where the topology ends,      *)
(* whatever is declared.                                                    *)
THEOREM PlanIsValid == \A t : IsDeclaration(t) => ValidPlan(t)
<1> SUFFICES ASSUME NEW t, IsDeclaration(t) PROVE ValidPlan(t)
  OBVIOUS
<1>1. \A r \in ResourceIndices(t) : EndContextIndex(t, r) <= ManagedExecutionContextCount(t)
  BY RangesTile
<1>2. TopologyContextOffset(t, Len(t.resources) + 1) = ManagedExecutionContextCount(t)
  BY Offsets
<1> QED BY <1>1, <1>2 DEF ValidPlan

\* A resource answers for the contexts of its range and for no other.
LEMMA RangeIsContexts ==
  ASSUME NEW t, IsDeclaration(t), NEW r \in ResourceIndices(t)
  PROVE  \A c : c \in ContextsOf(t, r) <=> c \in Nat /\ AnswersFor(t, r, c)
<1>1. /\ FirstContextIndex(t, r) \in Nat
      /\ ManagedContextCount(t.resources[r]) \in Nat
  BY RangesTile, Declared
<1>2. ASSUME NEW c \in ContextsOf(t, r) PROVE c \in Nat /\ AnswersFor(t, r, c)
  <2>1. PICK i \in 0 .. ManagedContextCount(t.resources[r]) - 1 : c = FirstContextIndex(t, r) + i
    BY DEF ContextsOf, WorkerContextIndex
  <2> QED BY <1>1, <2>1 DEF AnswersFor, EndContextIndex
<1>3. ASSUME NEW c \in Nat, AnswersFor(t, r, c) PROVE c \in ContextsOf(t, r)
  <2>1. /\ c - FirstContextIndex(t, r) \in 0 .. ManagedContextCount(t.resources[r]) - 1
        /\ c = FirstContextIndex(t, r) + (c - FirstContextIndex(t, r))
    BY <1>1, <1>3 DEF AnswersFor, EndContextIndex
  <2> QED BY <2>1 DEF ContextsOf, WorkerContextIndex
<1> QED BY <1>2, <1>3

\* No two resources answer for a context.
LEMMA OneAnswers ==
  ASSUME NEW t, IsDeclaration(t), NEW r \in ResourceIndices(t), NEW s \in ResourceIndices(t),
         NEW c \in Nat, AnswersFor(t, r, c), AnswersFor(t, s, c)
  PROVE  r = s
<1>1. r \in Nat /\ s \in Nat
  BY Declared
<1>2. ASSUME NEW p \in ResourceIndices(t), NEW q \in ResourceIndices(t), p < q,
             AnswersFor(t, p, c), AnswersFor(t, q, c)
      PROVE  FALSE
  <2>1. EndContextIndex(t, p) <= FirstContextIndex(t, q)
        /\ EndContextIndex(t, p) \in Nat /\ FirstContextIndex(t, q) \in Nat
    BY <1>2, RangesTile
  <2> QED BY <1>2, <2>1 DEF AnswersFor
<1> QED BY <1>1, <1>2

\* The ranges cover the managed contexts, without gap or overlap.
LEMMA CompositionPartitions == Composed => ContextsPartitioned
<1> SUFFICES ASSUME Composed PROVE ContextsPartitioned
  OBVIOUS
<1>1. IsDeclaration(topology)
  BY InfrastructureAssumption DEF Composed
<1> DEFINE n == ManagedExecutionContextCount(topology)
<1>2. Managed = 0 .. n - 1
  <2>1. ASSUME NEW c \in Managed PROVE c \in 0 .. n - 1
    <3>1. PICK r \in ResourceIndices(topology) : c \in ContextsOf(topology, r)
      BY DEF Managed, Contexts
    <3>2. c \in Nat /\ AnswersFor(topology, r, c)
      BY <1>1, <3>1, RangeIsContexts
    <3>3. /\ EndContextIndex(topology, r) \in Nat /\ n \in Nat
          /\ EndContextIndex(topology, r) <= n
      BY <1>1, RangesTile
    <3> QED BY <3>2, <3>3 DEF AnswersFor
  <2>2. ASSUME NEW c \in 0 .. n - 1 PROVE c \in Managed
    <3>1. n \in Nat /\ c \in Nat
      BY <1>1, RangesTile
    <3>2. PICK r \in ResourceIndices(topology) : AnswersFor(topology, r, c)
      BY <1>1, RangesTile
    <3>3. c \in ContextsOf(topology, r)
      BY <1>1, <3>1, <3>2, RangeIsContexts
    <3> QED BY <3>3 DEF Managed, Contexts
  <2> QED BY <2>1, <2>2
<1>3. ASSUME NEW r \in Resources, NEW c \in Managed
      PROVE  c \in Of(r) <=> AnswersFor(topology, r, c)
  <2>1. c \in Nat
    BY <1>1, <1>2, RangesTile
  <2> QED BY <1>1, <2>1, RangeIsContexts DEF Of, Resources
<1>4. ASSUME NEW r \in Resources, NEW s \in Resources,
             NEW i \in DOMAIN OwnedResourceType(topology, r).contexts,
             NEW j \in DOMAIN OwnedResourceType(topology, s).contexts,
             WorkerContextIndex(topology, r, i) = WorkerContextIndex(topology, s, j)
      PROVE  r = s /\ i = j
  <2>1. /\ i \in 0 .. ManagedContextCount(topology.resources[r]) - 1
        /\ j \in 0 .. ManagedContextCount(topology.resources[s]) - 1
    BY DEF OwnedResourceType
  <2>2. PICK c : c = WorkerContextIndex(topology, r, i)
    OBVIOUS
  <2>3. c \in ContextsOf(topology, r) /\ c \in ContextsOf(topology, s)
    BY <1>4, <2>1, <2>2 DEF ContextsOf
  <2>4. r = s
    BY <1>1, <2>3, RangeIsContexts, OneAnswers DEF Resources
  <2>5. FirstContextIndex(topology, r) \in Nat
        /\ ManagedContextCount(topology.resources[r]) \in Nat
        /\ ManagedContextCount(topology.resources[s]) \in Nat
    BY <1>1, RangesTile, Declared DEF Resources
  <2>6. i = j
    BY <1>4, <2>1, <2>4, <2>5 DEF WorkerContextIndex
  <2> QED BY <2>4, <2>6
<1> QED BY <1>2, <1>3, <1>4 DEF ContextsPartitioned

(* The dense context indices are exactly those below the capacity, each of  *)
(* them belongs to one Worker of one resource, and that resource is the     *)
(* only one to answer for it, in every topology that compiles.              *)
THEOREM PartitionCorrect == Spec => []ContextsPartitioned
<1>1. Composed => ContextsPartitioned
  BY CompositionPartitions
<1> QED BY <1>1, StaysComposed, PTL

-----------------------------------------------------------------------------
(* Requirements and resolved properties. *)

\* The properties of a kind that a pack declares.
OfKind(kind, properties) == {i \in DOMAIN properties : properties[i].kind = kind}

\* Counting them tells whether there is one, and whether there are two.
LEMMA CountOfKind ==
  ASSUME NEW kind, NEW properties \in Seq(Property)
  PROVE  /\ IsFiniteSet(OfKind(kind, properties))
         /\ CountOf(kind, properties) = Cardinality(OfKind(kind, properties))
         /\ CountOf(kind, properties) > 0 => OfKind(kind, properties) # {}
         /\ CountOf(kind, properties) <= 1 =>
               \A i, j \in OfKind(kind, properties) : i = j
<1> DEFINE S == OfKind(kind, properties)
<1>1. IsFiniteSet(S)
  <2>1. DOMAIN properties = 1 .. Len(properties) /\ Len(properties) \in Nat
    OBVIOUS
  <2>2. IsFiniteSet(1 .. Len(properties))
    BY <2>1, FS_Interval
  <2> QED BY <2>1, <2>2, FS_Subset DEF OfKind
<1>2. CountOf(kind, properties) = Cardinality(S)
  BY DEF CountOf, OfKind
<1>3. Cardinality(S) > 0 => S # {}
  <2>1. S = {} => Cardinality(S) = 0
    BY FS_EmptySet
  <2> HIDE DEF S
  <2> QED BY <2>1
<1>4. ASSUME Cardinality(S) <= 1, NEW i \in S, NEW j \in S, i # j
      PROVE  FALSE
  <2>1. PICK T : T = {i}
    OBVIOUS
  <2>2. j \notin T /\ IsFiniteSet(T) /\ Cardinality(T) = 1
    BY <1>4, <2>1, FS_Singleton
  <2>3. IsFiniteSet(T \cup {j}) /\ Cardinality(T \cup {j}) = Cardinality(T) + 1
    BY <2>2, FS_AddElement
  <2>4. T \cup {j} \subseteq S
    BY <2>1
  <2>5. Cardinality(T \cup {j}) <= Cardinality(S)
    <3> HIDE DEF S
    <3> QED BY <1>1, <2>4, FS_Subset
  <2> QED BY <1>1, <1>4, <2>2, <2>3, <2>5, FS_CardinalityType
<1> HIDE DEF S
<1> QED BY <1>1, <1>2, <1>3, <1>4 DEF S

\* What the search for a property finds is what the fold over the pack has computed.
LEMMA ResolvedIsDeclared ==
  ASSUME NEW kind \in ExecutionProperty, NEW properties \in Seq(Property),
         CountOf(kind, properties) <= 1,
         NEW i \in DOMAIN properties, properties[i].kind = kind
  PROVE  /\ SumOf("stack", properties) = properties[i].value \/ kind # "stack"
         /\ LastOf(kind, properties) = properties[i].value
         /\ FirstOf(kind, properties) = i
<1> DEFINE S == OfKind(kind, properties)
<1>1. i \in S /\ \A j \in S : j = i
  BY CountOfKind DEF OfKind
<1>2. DOMAIN properties = 1 .. Len(properties) /\ Len(properties) \in Nat
      /\ \A j \in DOMAIN properties : properties[j].value \in Int
  <2>1. \A j \in DOMAIN properties : properties[j] \in Property
    OBVIOUS
  <2>3. \A property \in Property : property.value \in Int
    BY DEF Property
  <2>2. DOMAIN properties = 1 .. Len(properties) /\ Len(properties) \in Nat
    OBVIOUS
  <2> QED BY <2>1, <2>2, <2>3
<1>3. ASSUME kind = "stack" PROVE SumOf("stack", properties) = properties[i].value
  <2>1. PICK f : f = [j \in DOMAIN properties |-> ValueAs("stack", properties[j])]
    OBVIOUS
  <2>2. \A j \in DOMAIN properties \ {i} : f[j] = 0
    <3> SUFFICES ASSUME NEW j \in DOMAIN properties \ {i} PROVE ValueAs("stack", properties[j]) = 0
      BY <2>1
    <3>1. properties[j].kind # "stack"
      BY <1>1, <1>3 DEF OfKind
    <3> QED BY <3>1 DEF ValueAs
  <2>3. f[i] = properties[i].value
    BY <1>3, <2>1 DEF ValueAs
  <2>4. DOMAIN f = DOMAIN properties /\ \A j \in DOMAIN f : f[j] \in Int
    BY <1>2, <2>1, <2>2, <2>3
  <2>5. IsFiniteSet(DOMAIN f)
    BY <1>2, <2>4, FS_Interval
  <2>6. Total(f) = f[i]
    BY <2>2, <2>4, <2>5, TotalOfOne
  <2> QED BY <2>1, <2>3, <2>6 DEF SumOf
<1>4. LastOf(kind, properties) = properties[i].value
  <2>1. (CHOOSE a \in S : \A b \in S : b <= a) = i
    BY <1>1, <1>2
  <2> QED BY <1>1, <2>1 DEF LastOf, OfKind
<1>5. FirstOf(kind, properties) = i
  <2>1. \A j \in 1 .. i - 1 : properties[j].kind # kind
    <3> SUFFICES ASSUME NEW j \in 1 .. i - 1, properties[j].kind = kind PROVE FALSE
      OBVIOUS
    <3>1. j \in DOMAIN properties /\ j # i
      BY <1>2
    <3> QED BY <1>1, <3>1 DEF OfKind
  <2>2. /\ FirstOf(kind, properties) \in DOMAIN properties
        /\ properties[FirstOf(kind, properties)].kind = kind
    BY <2>1 DEF FirstOf
  <2> QED BY <1>1, <2>2 DEF OfKind
<1> QED BY <1>3, <1>4, <1>5

\* A context whose pack satisfies a constraint is configured to meet it.
LEMMA WorkerMeets ==
  ASSUME NEW properties \in Seq(Property),
         \A kind \in ExecutionProperty : CountOf(kind, properties) <= 1,
         NEW constraint, WorkerConstraintSatisfied(properties, constraint)
  PROVE  Meets(ResolvedExecutionResourceProperties(properties), constraint)
<1> DEFINE resolved == ResolvedExecutionResourceProperties(properties)
<1>0. /\ resolved.stack = SumOf("stack", properties)
      /\ resolved.priority = LastOf("priority", properties)
      /\ resolved.affinity = LastOf("affinity", properties)
  BY DEF ResolvedExecutionResourceProperties
<1>1. CASE constraint.kind = "stack" /\ HasMinimumStackCapacity(constraint.value, properties)
  <2>1. PICK i \in DOMAIN properties : properties[i].kind = "stack"
    <3>1. CountOf("stack", properties) > 0
      BY <1>1 DEF HasMinimumStackCapacity
    <3>2. OfKind("stack", properties) # {}
      BY <3>1, CountOfKind
    <3> QED BY <3>2 DEF OfKind
  <2>2. SumOf("stack", properties) = properties[FirstOf("stack", properties)].value
    BY <2>1, ResolvedIsDeclared DEF ExecutionProperty
  <2> QED BY <1>0, <1>1, <2>2 DEF HasMinimumStackCapacity, Meets
<1>2. CASE constraint.kind = "priority" /\ HasMinimumPriority(constraint.value, properties)
  <2>1. PICK i \in DOMAIN properties : properties[i].kind = "priority"
    <3>1. CountOf("priority", properties) > 0
      BY <1>2 DEF HasMinimumPriority
    <3>2. OfKind("priority", properties) # {}
      BY <3>1, CountOfKind
    <3> QED BY <3>2 DEF OfKind
  <2>2. LastOf("priority", properties) = properties[FirstOf("priority", properties)].value
    BY <2>1, ResolvedIsDeclared DEF ExecutionProperty
  <2> QED BY <1>0, <1>2, <2>2 DEF HasMinimumPriority, Meets
<1>3. CASE constraint.kind = "affinity" /\ HasRequiredAffinity(constraint.value, properties)
  <2>1. PICK i \in DOMAIN properties :
            properties[i].kind = "affinity" /\ properties[i].value = constraint.value
    BY <1>3 DEF HasRequiredAffinity
  <2>2. LastOf("affinity", properties) = constraint.value
    BY <2>1, ResolvedIsDeclared DEF ExecutionProperty
  <2> QED BY <1>0, <1>3, <2>2 DEF Meets
<1> QED BY <1>1, <1>2, <1>3 DEF WorkerConstraintSatisfied

\* Every pack that a valid resource hands to its contexts declares no property twice.
LEMMA PacksAreSingle ==
  ASSUME NEW resource, ValidResource(resource), NEW i \in DOMAIN PacksOf(resource)
  PROVE  \A kind \in ExecutionProperty : CountOf(kind, PacksOf(resource)[i]) <= 1
<1>1. CASE resource.kind = "facility"
  BY <1>1 DEF ValidResource, ValidTaskExecutionFacility, ValidWorker, PacksOf, IsTaskFacility,
              ValidExecutionResourceProperties
<1>2. CASE resource.kind = "lease"
  <2>1. PacksOf(resource)[i] = resource.properties
    BY <1>2 DEF PacksOf, IsTaskFacility
  <2> QED BY <1>2, <2>1 DEF ValidResource, ValidDedicatedWorkerLease
<1>3. CASE resource.kind = "thread"
  <2>1. PacksOf(resource)[i] = resource.properties
    BY <1>3 DEF PacksOf, IsTaskFacility
  <2> QED BY <1>3, <2>1
          DEF ValidResource, ValidDedicatedThread, ValidExecutionResourceProperties
<1> QED BY <1>1, <1>2, <1>3 DEF ValidResource

\* Lookup by identity finds the resource that a requirement is satisfied by.
LEMMA LookupFindsIt ==
  ASSUME NEW t, IsDeclaration(t), UniqueResourceIdentities(t.resources), NEW requirement,
         NEW r \in ResourceIndices(t), MatchesIdentity(t.resources[r], requirement)
  PROVE  TopologyResourceIndex(t, requirement) = r
<1>1. ResourceIndices(t) = 1 .. Len(t.resources) /\ Len(t.resources) \in Nat
  BY Declared
<1>2. ASSUME NEW s \in ResourceIndices(t), MatchesIdentity(t.resources[s], requirement)
      PROVE  s = r
  <2>1. /\ ResourceIdentityConflict(t.resources[r], t.resources[s])
        /\ ResourceIdentityConflict(t.resources[s], t.resources[r])
    BY <1>2 DEF MatchesIdentity, ResourceIdentityConflict
  <2>2. ~(r < s) /\ ~(s < r)
    BY <2>1 DEF UniqueResourceIdentities, ResourceIndices
  <2> QED BY <1>1, <2>2
<1>3. \A s \in 1 .. r - 1 : ~MatchesIdentity(t.resources[s], requirement)
  <2> SUFFICES ASSUME NEW s \in 1 .. r - 1, MatchesIdentity(t.resources[s], requirement)
               PROVE  FALSE
    OBVIOUS
  <2>1. s \in ResourceIndices(t) /\ s # r
    BY <1>1
  <2> QED BY <1>2, <2>1
<1>4. RequirementSatisfied(t, requirement)
  BY DEF RequirementSatisfied
<1>5. /\ TopologyResourceIndex(t, requirement) \in ResourceIndices(t)
      /\ MatchesIdentity(t.resources[TopologyResourceIndex(t, requirement)], requirement)
  BY <1>3, <1>4 DEF TopologyResourceIndex
<1> QED BY <1>2, <1>5

\* Lookup, the constraints and the configuration of the contexts, put together.
LEMMA CompositionMeetsRequirements == Composed => RequirementsAreMet
<1> SUFFICES ASSUME Composed, NEW requirement \in Requirements,
                    SatisfiesThreadingRequirement(topology, requirement)
             PROVE  LET r == TopologyResourceIndex(topology, requirement)
                        owned == OwnedResourceType(topology, r)
                    IN  /\ ResourceSatisfiesRequirement(topology.resources[r], requirement)
                        /\ requirement.kind = "facility" => "TaskExecution" \in Offers(topology)
                        /\ requirement.kind = "thread" =>
                              "DedicatedThreadExecution" \in Offers(topology)
                        /\ \A constraint \in requirement.constraints :
                              /\ \A i \in DOMAIN owned.contexts :
                                    Meets(owned.contexts[i], constraint)
                              /\ constraint.kind = "concurrency" =>
                                    Cardinality(DOMAIN owned.contexts) >= constraint.value
  BY DEF RequirementsAreMet
<1>1. /\ IsDeclaration(topology)
      /\ \A constraint \in requirement.constraints : constraint.value \in Int
  BY InfrastructureAssumption DEF Composed
<1>2. PICK r \in ResourceIndices(topology) :
          ResourceSatisfiesRequirement(topology.resources[r], requirement)
  BY DEF SatisfiesThreadingRequirement
<1>3. TopologyResourceIndex(topology, requirement) = r
  BY <1>1, <1>2, LookupFindsIt DEF Composed, ValidTopology, ResourceSatisfiesRequirement
<1> DEFINE resource == topology.resources[r]
           packs == PacksOf(resource)
           owned == OwnedResourceType(topology, r)
           n == ManagedContextCount(resource)
<1>4. ValidResource(resource)
  BY DEF Composed, ValidTopology
<1>5. packs \in Seq(Seq(Property)) /\ n = Len(packs) /\ n \in Nat
  BY <1>1, Declared
<1>6. DOMAIN owned.contexts = 0 .. n - 1
      /\ \A i \in 0 .. n - 1 :
            owned.contexts[i] = ResolvedExecutionResourceProperties(packs[i + 1])
  BY DEF OwnedResourceType
<1>7. /\ requirement.kind = "facility" => "TaskExecution" \in Offers(topology)
      /\ requirement.kind = "thread" => "DedicatedThreadExecution" \in Offers(topology)
  BY <1>2 DEF ResourceSatisfiesRequirement, MatchesIdentity, Offers, IsTaskFacility,
              IsDedicatedThread
<1>8. ASSUME NEW constraint \in requirement.constraints, NEW i \in DOMAIN owned.contexts
      PROVE  Meets(owned.contexts[i], constraint)
  <2>1. ResourceConstraintSatisfied(resource, constraint)
    BY <1>2 DEF ResourceSatisfiesRequirement
  <2>2. CASE constraint.kind = "concurrency"
    BY <2>2 DEF Meets
  <2>3. CASE constraint.kind # "concurrency"
    <3>1. i + 1 \in DOMAIN packs /\ packs[i + 1] \in Seq(Property)
      BY <1>5, <1>6
    <3>2. WorkerConstraintSatisfied(packs[i + 1], constraint)
      BY <2>1, <2>3, <3>1 DEF ResourceConstraintSatisfied, EveryWorkerSatisfies
    <3>3. \A kind \in ExecutionProperty : CountOf(kind, packs[i + 1]) <= 1
      BY <1>4, <3>1, PacksAreSingle
    <3>4. Meets(ResolvedExecutionResourceProperties(packs[i + 1]), constraint)
      <4> HIDE DEF packs
      <4> QED BY <3>1, <3>2, <3>3, WorkerMeets
    <3> QED BY <1>6, <3>4
  <2> QED BY <2>2, <2>3
<1>9. ASSUME NEW constraint \in requirement.constraints, constraint.kind = "concurrency"
      PROVE  Cardinality(DOMAIN owned.contexts) >= constraint.value
  <2>1. n >= constraint.value
    BY <1>2, <1>9 DEF ResourceSatisfiesRequirement, ResourceConstraintSatisfied
  <2>2. Cardinality(0 .. n - 1) = n
    <3>1. n - 1 \in Int /\ n \in Nat
      BY <1>5
    <3> HIDE DEF n
    <3>2. Cardinality(0 .. n - 1) = IF 0 > n - 1 THEN 0 ELSE (n - 1) - 0 + 1
      BY <3>1, FS_Interval
    <3> QED BY <3>1, <3>2
  <2> QED BY <1>6, <2>1, <2>2
<1> HIDE DEF owned, resource
<1> QED BY <1>2, <1>3, <1>7, <1>8, <1>9 DEF owned, resource

(* A requirement the compiler accepts is met by the configuration of every  *)
(* context of the resource that lookup finds, in every topology that        *)
(* compiles and for every requirement stated of it.                         *)
THEOREM RequirementsCorrect == Spec => []RequirementsAreMet
<1>1. Composed => RequirementsAreMet
  BY CompositionMeetsRequirements
<1> QED BY <1>1, StaysComposed, PTL
=============================================================================
