----------------------- MODULE DedicatedThreadProofs -----------------------
(***************************************************************************)
(* Theorems about DedicatedThread, for every number of threads, Workers    *)
(* and callers, every bound on the activations and every set of failing    *)
(* signals.                                                                *)
(***************************************************************************)
EXTENDS DedicatedThread, TLAPS

-----------------------------------------------------------------------------
(* Types.                                                                  *)

\* The contexts a step wakes are contexts.
LEMMA NotifyType ==
  ASSUME TypeOK, NEW targets \in SUBSET Contexts, Notify(targets)
  PROVE  signalled' \in SUBSET Contexts /\ signalled \subseteq signalled'
BY DEF TypeOK, Notify

\* The wakes of a finished activation go to contexts.
LEMMA JoinersOfType ==
  ASSUME TypeOK, NEW t \in Threads, NEW p \in BOOLEAN
  PROVE  JoinersOf(t, p) \in SUBSET Contexts
BY DEF TypeOK, JoinersOf, JoinRegistration

\* A caller that moves, or returns, keeps the types.
LEMMA MoveTypes ==
  ASSUME TypeOK, NEW c \in Callers, NEW step \in Steps
  PROVE  /\ Goto(c, step) => pc' \in [Callers -> Steps]
         /\ Return(c) => pc' \in [Callers -> Steps] /\ call' \in [Callers -> Call]
<1>1. NoCall \in Call
  BY DEF Call, NoCall
<1>2. "user" \in Steps
  BY DEF Steps, CallableSteps
<1> QED BY <1>1, <1>2 DEF TypeOK, Goto, Return

\* What a caller in the middle of an operation on a thread has at hand.
LEMMA TargetType ==
  ASSUME TypeOK, OperationsOK, NEW c \in Callers, HasTarget(c)
  PROVE  call[c].target \in Threads
BY DEF OperationsOK

LEMMA NextTypes == TypeOK /\ OperationsOK /\ [Next]_vars => TypeOK'
<1> SUFFICES ASSUME TypeOK, OperationsOK, [Next]_vars
             PROVE  TypeOK'
  OBVIOUS
<1> USE DEF shutdownVars, historyVars
<1>a. "user" \in Steps
  BY DEF Steps, CallableSteps
<1>1. ASSUME NEW t \in Threads, TrampolineReadsLifecycle(t) PROVE TypeOK'
  BY <1>1, MoveTypes DEF TrampolineReadsLifecycle, TypeOK, Steps, Callers, Contexts
<1>2. ASSUME NEW t \in Threads, TrampolineInspects(t) PROVE TypeOK'
  BY <1>2, MoveTypes
     DEF TrampolineInspects, TypeOK, Steps, CallableSteps, Callers, Contexts, Control
<1>3. ASSUME NEW t \in Threads, TrampolineWakes(t) PROVE TypeOK'
  BY <1>3, MoveTypes DEF TrampolineWakes, TakeSignal, TypeOK, Steps, Callers, Contexts
<1>4. ASSUME NEW t \in Threads, CallableReturns(t) PROVE TypeOK'
  BY <1>4, MoveTypes DEF CallableReturns, TypeOK, Steps, CallableSteps, Callers, Contexts
<1>5. ASSUME NEW t \in Threads, PublishStopped(t) PROVE TypeOK'
  <2>1. signalled' \in SUBSET Contexts
    BY <1>5, NotifyType, JoinersOfType DEF PublishStopped, TypeOK
  <2>2. control' \in [Threads -> Control]
    BY <1>5 DEF PublishStopped, TypeOK, Control
  <2> QED BY <1>5, <2>1, <2>2, MoveTypes DEF PublishStopped, TypeOK, Steps, Callers, Contexts
<1>6. ASSUME NEW c \in Callers, NEW t \in Threads, BeginStart(c, t) PROVE TypeOK'
  <2>1. call' \in [Callers -> Call]
    BY <1>6 DEF BeginStart, TypeOK, Call
  <2> QED BY <1>6, <2>1, MoveTypes DEF BeginStart, TypeOK, Steps, CallableSteps
<1>7. ASSUME NEW c \in Callers, StartChecks(c) PROVE TypeOK'
  <2>1. lock' \in [Threads -> Callers \cup {None}]
    BY <1>7 DEF StartChecks, TypeOK
  <2> QED BY <1>7, <2>1, <1>a, MoveTypes DEF StartChecks, TypeOK, Steps, CallableSteps
<1>8. ASSUME NEW c \in Callers, StartActivates(c) PROVE TypeOK'
  <2>1. call[c].target \in Threads
    BY <1>8, TargetType DEF StartActivates, HasTarget
  <2>2. /\ control' \in [Threads -> Control]
        /\ activations' \in [Threads -> Nat]
        /\ lock' \in [Threads -> Callers \cup {None}]
        /\ signalled' \in SUBSET Contexts
    BY <1>8, <2>1 DEF StartActivates, TypeOK, Control, Active, WokenByStart, Contexts
  <2> QED BY <1>8, <2>2, <1>a, MoveTypes DEF StartActivates, TypeOK
<1>9. ASSUME NEW c \in Callers, StartFails(c) PROVE TypeOK'
  <2>1. lock' \in [Threads -> Callers \cup {None}]
    BY <1>9 DEF StartFails, TypeOK
  <2> QED BY <1>9, <2>1, <1>a, MoveTypes DEF StartFails, TypeOK
<1>10. ASSUME NEW t \in Threads, RequestStop(t) \/ ShutdownStops(t) PROVE TypeOK'
  <2>1. StopAccepted(t) \/ UNCHANGED <<control, signalled>>
    BY <1>10 DEF RequestStop, ShutdownStops
  <2>2. control' \in [Threads -> Control] /\ signalled' \in SUBSET Contexts
    BY <2>1, NotifyType DEF StopAccepted, TypeOK, Control, Active, Contexts
  <2> QED BY <1>10, <2>2 DEF RequestStop, ShutdownStops, TypeOK
<1>11. ASSUME NEW c \in Contexts, Wake(c) PROVE TypeOK'
  BY <1>11 DEF Wake, TypeOK
<1>12. ASSUME NEW t \in Threads, NEW budget \in Budgets, BeginContextWait(t, budget) PROVE TypeOK'
  <2>1. call' \in [Callers -> Call]
    BY <1>12, ThreadAssumption DEF BeginContextWait, TypeOK, Call
  <2> QED BY <1>12, <2>1, MoveTypes
      DEF BeginContextWait, TypeOK, Steps, CallableSteps, Callers, Contexts
<1>13. ASSUME NEW c \in Callers, ContextWaitEnds(c) PROVE TypeOK'
  BY <1>13, <1>a, MoveTypes DEF ContextWaitEnds, TakeSignal, TypeOK
<1>14. ASSUME NEW c \in Callers, NEW t \in Threads, NEW budget \in Budgets, BeginJoin(c, t, budget)
       PROVE  TypeOK'
  <2>1. [call[c] EXCEPT !.target = t, !.budget = budget] \in Call
    <3>1. call[c] \in Call /\ budget \in {"Forever", "Finite", "none"}
      BY ThreadAssumption DEF TypeOK
    <3> QED BY <3>1 DEF Call
  <2>2. call' = [call EXCEPT ![c] = [call[c] EXCEPT !.target = t, !.budget = budget]]
    BY <1>14 DEF BeginJoin, TypeOK
  <2> QED BY <1>14, <2>1, <2>2, MoveTypes DEF BeginJoin, TypeOK, Steps, CallableSteps, JoinSteps
<1>15. ASSUME NEW c \in Callers, JoinFindsStopped(c) PROVE TypeOK'
  BY <1>15, <1>a, MoveTypes DEF JoinFindsStopped, TypeOK
<1>16. ASSUME NEW c \in Callers, JoinRegisters(c) PROVE TypeOK'
  <2>1. call[c].target \in Threads
    BY <1>16, TargetType DEF JoinRegisters, HasTarget, JoinSteps
  <2> DEFINE t == call[c].target
             x == [call[c] EXCEPT !.phase = control[t].phase, !.activation = activations[t]]
  <2>2. call' \in [Callers -> Call]
    <3>1. x \in Call
      BY <2>1 DEF TypeOK, Call, Control
    <3>2. call' = [call EXCEPT ![c] = x]
      BY <1>16 DEF JoinRegisters, TypeOK
    <3> QED BY <3>1, <3>2 DEF TypeOK
  <2>3. joinWaiters' \in [Threads -> SUBSET JoinRegistration]
    <3>1. control[call[c].target].phase \in BOOLEAN
      BY <2>1 DEF TypeOK, Control
    <3>2. c \in Contexts
      BY <1>16 DEF OperationsOK, JoinRegisters, JoinSteps
    <3> QED BY <1>16, <2>1, <3>1, <3>2 DEF JoinRegisters, TypeOK, JoinRegistration
  <2> QED BY <1>16, <2>2, <2>3, MoveTypes
      DEF JoinRegisters, TypeOK, Steps, CallableSteps, JoinSteps, RegisteredSteps
<1>17. ASSUME NEW c \in Callers, JoinWakes(c) PROVE TypeOK'
  BY <1>17, MoveTypes
     DEF JoinWakes, TakeSignal, TypeOK, Steps, CallableSteps, JoinSteps, RegisteredSteps
<1>18. ASSUME NEW c \in Callers, JoinExpires(c) \/ JoinContinues(c) \/ JoinSettles(c) PROVE TypeOK'
  <2>1. PICK step \in {"join-leave", "join-settle", "join-asleep"} : Goto(c, step)
    BY <1>18 DEF JoinExpires, JoinContinues, JoinSettles
  <2>2. pc' \in [Callers -> Steps]
    BY <2>1, MoveTypes DEF Steps, CallableSteps, JoinSteps, RegisteredSteps
  <2> QED BY <1>18, <2>2 DEF JoinExpires, JoinContinues, JoinSettles, TypeOK
<1>19. ASSUME NEW c \in Callers, JoinSucceeds(c) \/ JoinLeaves(c) PROVE TypeOK'
  <2>1. joinWaiters' \in [Threads -> SUBSET JoinRegistration]
    BY <1>19 DEF JoinSucceeds, JoinLeaves, Unregistered, TypeOK
  <2>2. Return(c)
    BY <1>19 DEF JoinSucceeds, JoinLeaves
  <2> QED BY <1>19, <2>1, <2>2, MoveTypes DEF JoinSucceeds, JoinLeaves, TypeOK
<1>20. ASSUME BeginShutdown \/ ShutdownApplied \/ BeginFinalize \/ FinalizeShutdown PROVE TypeOK'
  BY <1>20
     DEF BeginShutdown, ShutdownApplied, BeginFinalize, FinalizeShutdown, TypeOK, Lifecycles
<1>21. ASSUME NEW t \in Threads, PollQuiescence(t) PROVE TypeOK'
  BY <1>21 DEF PollQuiescence, TypeOK
<1>22. ASSUME NEW t \in Threads, FinalizeWakes(t) PROVE TypeOK'
  BY <1>22, NotifyType DEF FinalizeWakes, TypeOK, Contexts
<1>23. CASE UNCHANGED vars
  BY <1>23 DEF vars, TypeOK
<1> QED
  BY <1>1, <1>2, <1>3, <1>4, <1>5, <1>6, <1>7, <1>8, <1>9, <1>10, <1>11, <1>12, <1>13, <1>14,
     <1>15, <1>16, <1>17, <1>18, <1>19, <1>20, <1>21, <1>22, <1>23, ThreadAssumption
     DEF Next, Trampoline, Proceed, Request, ShutdownStep

-----------------------------------------------------------------------------
(* The inductive invariant. Most steps move one caller within an operation *)
(* and leave the threads alone.                                            *)

Safe == OperationsOK /\ ActivationIsCurrent /\ NoLostActivation /\ ShutdownProgress

\* A caller that does not enter a callable, does not begin to activate a thread, and does
\* not fall asleep over an activation keeps the invariant.
LEMMA MoveSafe ==
  ASSUME TypeOK, TypeOK', Safe, NEW c \in Callers, NEW step \in Steps \ {"activate"},
         UNCHANGED <<lifecycle, visited, control, phase, activations, executing>>,
         Goto(c, step),
         c \in Threads /\ step \in CallableSteps => pc[c] \in CallableSteps,
         step = "idle" => control[c].state \notin Active,
         step \in {"start"} \cup JoinSteps => call'[c].target \in Threads,
         step \in JoinSteps => c \in Contexts,
         \A d \in Callers \ {c} : call'[d] = call[d],
         \A d \in Callers \ {c} : pc[d] = "activate" =>
            lock'[call[d].target] = lock[call[d].target],
         \A t \in Threads \ {c} : t \in signalled => t \in signalled'
  PROVE  Safe'
<1>1. pc'[c] = step /\ \A d \in Callers \ {c} : pc'[d] = pc[d]
  BY DEF Goto, TypeOK
<1>2. OperationsOK'
  BY <1>1 DEF Safe, OperationsOK, HasTarget
<1>3. ActivationIsCurrent'
  BY <1>1 DEF Safe, ActivationIsCurrent, InCallable, Callers, Contexts
<1>4. NoLostActivation'
  BY <1>1 DEF Safe, NoLostActivation, Callers, Contexts
<1>5. ShutdownProgress'
  BY <1>1 DEF Safe, ShutdownProgress, StopApplied
<1> QED BY <1>2, <1>3, <1>4, <1>5 DEF Safe

\* A step that leaves every caller where it is, and every activation with its phase,
\* keeps what the callers rely on.
LEMMA StaySafe ==
  ASSUME TypeOK, TypeOK', Safe,
         UNCHANGED <<lock, pc, call, phase, activations, executing>>,
         \A t \in Threads : control'[t].phase = control[t].phase,
         \A t \in Threads : control'[t].state \in Active <=> control[t].state \in Active,
         signalled \subseteq signalled',
         ShutdownProgress'
  PROVE  Safe'
<1>1. OperationsOK'
  <2>1. \A c \in Callers : pc[c] = "activate" => call[c].target \in Threads
    BY DEF Safe, OperationsOK, HasTarget
  <2> QED BY <2>1 DEF Safe, OperationsOK, HasTarget
<1>2. ActivationIsCurrent'
  BY DEF Safe, ActivationIsCurrent, InCallable
<1>3. NoLostActivation'
  BY DEF Safe, NoLostActivation
<1> QED BY <1>1, <1>2, <1>3 DEF Safe

\* Every step keeps the invariant.
LEMMA NextSafe == TypeOK /\ Safe /\ [Next]_vars => Safe'
<1> SUFFICES ASSUME TypeOK, Safe, [Next]_vars
             PROVE  Safe'
  OBVIOUS
<1>a. TypeOK'
  BY NextTypes DEF Safe
<1>b. \A c \in Callers : HasTarget(c) => call[c].target \in Threads
  BY DEF Safe, OperationsOK
<1> USE <1>a DEF shutdownVars, historyVars
<1>1. ASSUME NEW t \in Threads, TrampolineReadsLifecycle(t) PROVE Safe'
  <2>1. PICK step \in {"exited", "inspect"} : Goto(t, step)
    BY <1>1 DEF TrampolineReadsLifecycle
  <2>2. step \in Steps \ {"activate"} /\ step \notin CallableSteps
    BY DEF Steps, CallableSteps, JoinSteps, RegisteredSteps
  <2> QED BY <1>1, <2>1, <2>2, MoveSafe
      DEF TrampolineReadsLifecycle, Callers, Contexts, JoinSteps, RegisteredSteps
<1>2. ASSUME NEW t \in Threads, TrampolineInspects(t) PROVE Safe'
  <2>1. /\ \A d \in Callers \ {t} : pc'[d] = pc[d]
        /\ pc'[t] = IF control[t].state \in Active THEN "user" ELSE "idle"
    BY <1>2 DEF TrampolineInspects, Goto, TypeOK, Callers, Contexts
  <2>2. OperationsOK'
    BY <1>2, <2>1
       DEF TrampolineInspects, Safe, OperationsOK, HasTarget, JoinSteps, RegisteredSteps
  <2>3. ActivationIsCurrent'
    <3> SUFFICES ASSUME NEW u \in Threads, InCallable(u)'
                 PROVE  /\ control'[u].state \in Active
                        /\ phase'[u] = control'[u].phase
                        /\ executing'[u] = activations'[u]
      BY DEF ActivationIsCurrent
    <3>1. CASE u = t
      <4>1. control[t].state \in Active
        BY <2>1, <3>1 DEF InCallable, CallableSteps, JoinSteps, RegisteredSteps
      <4> QED BY <1>2, <3>1, <4>1 DEF TrampolineInspects, TypeOK
    <3>2. CASE u # t
      <4>1. InCallable(u)
        BY <2>1, <3>2 DEF InCallable, Callers, Contexts
      <4> QED BY <1>2, <3>2, <4>1 DEF TrampolineInspects, TypeOK, Safe, ActivationIsCurrent
    <3> QED BY <3>1, <3>2
  <2>4. NoLostActivation'
    BY <1>2, <2>1 DEF TrampolineInspects, Safe, NoLostActivation, Callers, Contexts
  <2>5. ShutdownProgress'
    BY <1>2, <2>1 DEF TrampolineInspects, Safe, ShutdownProgress, StopApplied
  <2> QED BY <2>2, <2>3, <2>4, <2>5 DEF Safe
<1>3. ASSUME NEW t \in Threads, TrampolineWakes(t) PROVE Safe'
  <2>1. "loop" \in Steps \ {"activate"} /\ "loop" \notin CallableSteps
    BY DEF Steps, CallableSteps, JoinSteps, RegisteredSteps
  <2>2. Goto(t, "loop") /\ \A u \in Threads \ {t} : u \in signalled => u \in signalled'
    BY <1>3 DEF TrampolineWakes, TakeSignal
  <2> QED BY <1>3, <2>1, <2>2, MoveSafe
      DEF TrampolineWakes, Callers, Contexts, JoinSteps, RegisteredSteps
<1>4. ASSUME NEW t \in Threads, CallableReturns(t) PROVE Safe'
  <2>1. "returned" \in Steps \ {"activate"} /\ "user" \in CallableSteps
    BY DEF Steps, CallableSteps
  <2> QED BY <1>4, <2>1, MoveSafe
      DEF CallableReturns, Callers, Contexts, JoinSteps, RegisteredSteps
<1>5. ASSUME NEW t \in Threads, PublishStopped(t) PROVE Safe'
  <2>1. control[t].state \in Active /\ phase[t] = control[t].phase
    BY <1>5 DEF PublishStopped, Safe, ActivationIsCurrent, InCallable, CallableSteps
  <2>2. control' = [control EXCEPT ![t].state = "Stopped"] /\ signalled \subseteq signalled'
    BY <1>5, <2>1, NotifyType, JoinersOfType DEF PublishStopped, TypeOK
  <2>3. /\ \A d \in Callers \ {t} : pc'[d] = pc[d]
        /\ pc'[t] = "loop"
    BY <1>5 DEF PublishStopped, Goto, TypeOK, Callers, Contexts
  <2>4. \A u \in Threads \ {t} : control'[u] = control[u]
    BY <2>2 DEF TypeOK
  <2>5. control'[t].state = "Stopped"
    BY <2>2 DEF TypeOK, Control
  <2>6. OperationsOK'
    BY <1>5, <2>3, <2>4, <2>5
       DEF PublishStopped, Safe, OperationsOK, HasTarget, JoinSteps, RegisteredSteps, Active
  <2>7. ActivationIsCurrent'
    BY <1>5, <2>3, <2>4 DEF PublishStopped, Safe, ActivationIsCurrent, InCallable, CallableSteps,
       JoinSteps, RegisteredSteps, Callers, Contexts
  <2>8. NoLostActivation'
    BY <2>2, <2>3, <2>4, <2>5 DEF Safe, NoLostActivation, Active, Callers, Contexts
  <2>9. ShutdownProgress'
    BY <1>5, <2>3, <2>4, <2>5 DEF PublishStopped, Safe, ShutdownProgress, StopApplied, Active
  <2> QED BY <2>6, <2>7, <2>8, <2>9 DEF Safe
<1>6. ASSUME NEW c \in Callers, NEW t \in Threads, BeginStart(c, t) PROVE Safe'
  <2>1. "start" \in Steps \ {"activate"} /\ "user" \in CallableSteps
    BY DEF Steps, CallableSteps
  <2>2. /\ \A d \in Callers \ {c} : call'[d] = call[d]
        /\ call'[c].target = t
    BY <1>6 DEF BeginStart, TypeOK, Call
  <2> QED BY <1>6, <2>1, <2>2, MoveSafe DEF BeginStart, JoinSteps, RegisteredSteps
<1>7. ASSUME NEW c \in Callers, StartChecks(c) PROVE Safe'
  <2> DEFINE t == call[c].target
  <2>1. t \in Threads
    BY <1>7, <1>b DEF StartChecks, HasTarget
  <2>2. CASE Return(c) /\ UNCHANGED lock
    <3>1. "user" \in Steps \ {"activate"} /\ "start" \in CallableSteps
      BY DEF Steps, CallableSteps
    <3>2. \A d \in Callers \ {c} : call'[d] = call[d]
      BY <2>2 DEF Return, TypeOK
    <3> QED BY <1>7, <2>2, <3>1, <3>2, MoveSafe
        DEF StartChecks, Return, JoinSteps, RegisteredSteps
  <2>3. CASE MayStart(t) /\ Goto(c, "activate") /\ lock' = [lock EXCEPT ![t] = c] /\ UNCHANGED call
    <3>1. /\ \A d \in Callers \ {c} : pc'[d] = pc[d]
          /\ pc'[c] = "activate" /\ pc[c] = "start"
      BY <1>7, <2>3 DEF StartChecks, Goto, TypeOK
    <3>2. lock'[t] = c /\ \A u \in Threads \ {t} : lock'[u] = lock[u]
      BY <2>1, <2>3 DEF TypeOK
    <3>3. OperationsOK'
      <4>1. \A d \in Callers \ {c} : pc[d] = "activate" => call[d].target # t
        BY <1>7, ThreadAssumption DEF StartChecks, Safe, OperationsOK
      <4> QED BY <1>7, <2>1, <2>3, <3>1, <3>2, <4>1
          DEF StartChecks, MayStart, Safe, OperationsOK, HasTarget, JoinSteps, RegisteredSteps
    <3>4. ActivationIsCurrent'
      BY <1>7, <3>1 DEF StartChecks, Safe, ActivationIsCurrent, InCallable, CallableSteps, Callers,
         Contexts
    <3>5. NoLostActivation'
      BY <1>7, <3>1 DEF StartChecks, Safe, NoLostActivation, Callers, Contexts
    <3>6. ShutdownProgress'
      BY <1>7, <2>3, <3>1
         DEF StartChecks, MayStart, CanActivate, Safe, ShutdownProgress, StopApplied
    <3> QED BY <3>3, <3>4, <3>5, <3>6 DEF Safe
  <2> QED BY <1>7, <2>2, <2>3 DEF StartChecks
<1>8. ASSUME NEW c \in Callers, StartActivates(c) PROVE Safe'
  <2> DEFINE t == call[c].target
  <2>1. t \in Threads /\ lock[t] = c /\ control[t].state \notin Active
    BY <1>8, <1>b DEF StartActivates, HasTarget, Safe, OperationsOK
  <2>2. ~InCallable(t) /\ t # c
    BY <1>8, <2>1 DEF StartActivates, Safe, ActivationIsCurrent, InCallable, CallableSteps
  <2>3. /\ \A d \in Callers \ {c} : pc'[d] = pc[d] /\ call'[d] = call[d]
        /\ pc'[c] = "user" /\ pc[c] = "activate"
    BY <1>8 DEF StartActivates, Return, Goto, TypeOK
  <2>4. /\ \A u \in Threads \ {t} : control'[u] = control[u] /\ activations'[u] = activations[u]
                                    /\ lock'[u] = lock[u]
        /\ t \in signalled' /\ signalled \subseteq signalled'
    BY <1>8, <2>1 DEF StartActivates, WokenByStart, TypeOK
  <2>5. \A d \in Callers \ {c} : pc[d] = "activate" => call[d].target # t
    BY <2>1 DEF Safe, OperationsOK
  <2>6. OperationsOK'
    BY <2>3, <2>4, <2>5 DEF Safe, OperationsOK, HasTarget, JoinSteps, RegisteredSteps
  <2>7. ActivationIsCurrent'
    <3> SUFFICES ASSUME NEW u \in Threads, InCallable(u)'
                 PROVE  /\ control'[u].state \in Active
                        /\ phase'[u] = control'[u].phase
                        /\ executing'[u] = activations'[u]
      BY DEF ActivationIsCurrent
    <3>1. InCallable(u) /\ u # t
      BY <2>2, <2>3 DEF InCallable, CallableSteps, Callers, Contexts
    <3> QED BY <1>8, <2>4, <3>1 DEF StartActivates, Safe, ActivationIsCurrent
  <2>8. NoLostActivation'
    BY <2>3, <2>4 DEF Safe, NoLostActivation, Callers, Contexts
  <2>9. ShutdownProgress'
    <3>1. ~StopApplied(t)
      BY <1>8, <2>1 DEF StartActivates, Safe, ShutdownProgress
    <3> QED BY <1>8, <2>1, <2>3, <2>4, <3>1 DEF StartActivates, Safe, ShutdownProgress, StopApplied
  <2> QED BY <2>6, <2>7, <2>8, <2>9 DEF Safe
<1>9. ASSUME NEW c \in Callers, StartFails(c) PROVE Safe'
  <2> DEFINE t == call[c].target
  <2>1. "user" \in Steps \ {"activate"} /\ "activate" \in CallableSteps
    BY DEF Steps, CallableSteps
  <2>2. \A d \in Callers \ {c} : pc[d] = "activate" => lock'[call[d].target] = lock[call[d].target]
    BY <1>9, <1>b DEF StartFails, Safe, OperationsOK, HasTarget, TypeOK
  <2>3. \A d \in Callers \ {c} : call'[d] = call[d]
    BY <1>9 DEF StartFails, Return, TypeOK
  <2> QED BY <1>9, <2>1, <2>2, <2>3, MoveSafe DEF StartFails, Return, JoinSteps, RegisteredSteps
<1>10. ASSUME NEW t \in Threads, RequestStop(t) \/ ShutdownStops(t) PROVE Safe'
  <2>1. StopAccepted(t) \/ (control[t].state # "Running" /\ UNCHANGED <<control, signalled>>)
    BY <1>10 DEF RequestStop, ShutdownStops
  <2>2. /\ \A u \in Threads \ {t} : control'[u] = control[u]
        /\ control'[t].phase = control[t].phase
        /\ control'[t].state \in Active <=> control[t].state \in Active
        /\ control'[t].state # "Running"
    BY <2>1 DEF StopAccepted, TypeOK, Control, Active
  <2>3. signalled \subseteq signalled'
    BY <2>1, NotifyType DEF StopAccepted, Contexts
  <2>4. ShutdownProgress'
    <3>1. CASE RequestStop(t)
      BY <2>2, <3>1 DEF RequestStop, Safe, ShutdownProgress, StopApplied
    <3>2. CASE ShutdownStops(t)
      <4>1. \A c \in Callers : ~(pc[c] = "activate" /\ call[c].target = t)
        BY <3>2, ThreadAssumption DEF ShutdownStops, Safe, OperationsOK
      <4> QED BY <2>2, <3>2, <4>1 DEF ShutdownStops, Safe, ShutdownProgress, StopApplied
    <3> QED BY <1>10, <3>1, <3>2
  <2> QED BY <1>10, <2>2, <2>3, <2>4, StaySafe DEF RequestStop, ShutdownStops
<1>11. ASSUME NEW c \in Contexts, Wake(c) PROVE Safe'
  <2>1. ShutdownProgress'
    BY <1>11 DEF Wake, Safe, ShutdownProgress, StopApplied
  <2> QED BY <1>11, <2>1, StaySafe DEF Wake
<1>12. ASSUME NEW t \in Threads, NEW budget \in Budgets, BeginContextWait(t, budget) PROVE Safe'
  <2>1. "wait-asleep" \in Steps \ {"activate"} /\ "user" \in CallableSteps
    BY DEF Steps, CallableSteps
  <2>2. \A d \in Callers \ {t} : call'[d] = call[d]
    BY <1>12 DEF BeginContextWait, TypeOK
  <2> QED BY <1>12, <2>1, <2>2, MoveSafe
      DEF BeginContextWait, Callers, Contexts, JoinSteps, RegisteredSteps
<1>13. ASSUME NEW c \in Callers, ContextWaitEnds(c) PROVE Safe'
  <2>1. "user" \in Steps \ {"activate"} /\ "wait-asleep" \in CallableSteps
    BY DEF Steps, CallableSteps
  <2>2. \A d \in Callers \ {c} : call'[d] = call[d]
    BY <1>13 DEF ContextWaitEnds, Return, TypeOK
  <2> QED BY <1>13, <2>1, <2>2, MoveSafe
      DEF ContextWaitEnds, TakeSignal, Return, JoinSteps, RegisteredSteps
<1>14. ASSUME NEW c \in Callers, NEW t \in Threads, NEW budget \in Budgets, BeginJoin(c, t, budget)
       PROVE  Safe'
  <2>1. "join" \in Steps \ {"activate"} /\ "user" \in CallableSteps
    BY DEF Steps, CallableSteps, JoinSteps
  <2>2. /\ \A d \in Callers \ {c} : call'[d] = call[d]
        /\ call'[c].target = t
    BY <1>14 DEF BeginJoin, TypeOK, Call
  <2> QED BY <1>14, <2>1, <2>2, MoveSafe DEF BeginJoin, IsManaged
<1>15. ASSUME NEW c \in Callers, JoinFindsStopped(c) \/ JoinSucceeds(c) \/ JoinLeaves(c)
       PROVE  Safe'
  <2>1. "user" \in Steps \ {"activate"} /\ pc[c] \in CallableSteps
    BY <1>15 DEF JoinFindsStopped, JoinSucceeds, JoinLeaves, Steps, CallableSteps, JoinSteps,
       RegisteredSteps
  <2>2. \A d \in Callers \ {c} : call'[d] = call[d]
    BY <1>15 DEF JoinFindsStopped, JoinSucceeds, JoinLeaves, Return, TypeOK
  <2> QED BY <1>15, <2>1, <2>2, MoveSafe
      DEF JoinFindsStopped, JoinSucceeds, JoinLeaves, Return, JoinSteps, RegisteredSteps
<1>16. ASSUME NEW c \in Callers,
              \/ JoinRegisters(c) \/ JoinWakes(c) \/ JoinExpires(c) \/ JoinContinues(c)
              \/ JoinSettles(c)
       PROVE  Safe'
  <2>1. pc[c] \in JoinSteps /\ pc[c] \in CallableSteps
    BY <1>16 DEF JoinRegisters, JoinWakes, JoinExpires, JoinContinues, JoinSettles, CallableSteps,
       JoinSteps, RegisteredSteps
  <2>2. PICK step \in RegisteredSteps : Goto(c, step)
    BY <1>16 DEF JoinRegisters, JoinWakes, JoinExpires, JoinContinues, JoinSettles, RegisteredSteps
  <2>3. step \in Steps \ {"activate"} /\ step \notin {"idle", "start"}
    BY DEF RegisteredSteps, JoinSteps, CallableSteps, Steps
  <2>4. c \in Contexts /\ call[c].target \in Threads
    BY <1>b, <2>1 DEF Safe, OperationsOK, HasTarget
  <2>5. /\ \A d \in Callers \ {c} : call'[d] = call[d]
        /\ call'[c].target = call[c].target
    BY <1>16 DEF JoinRegisters, JoinWakes, JoinExpires, JoinContinues, JoinSettles, TypeOK, Call
  <2>6. \A t \in Threads \ {c} : t \in signalled => t \in signalled'
    BY <1>16 DEF JoinRegisters, JoinWakes, JoinExpires, JoinContinues, JoinSettles, TakeSignal
  <2>7. UNCHANGED <<lifecycle, visited, lock, control, phase, activations, executing>>
    BY <1>16 DEF JoinRegisters, JoinWakes, JoinExpires, JoinContinues, JoinSettles
  <2> QED BY <2>1, <2>2, <2>3, <2>4, <2>5, <2>6, <2>7, MoveSafe
<1>17. ASSUME BeginShutdown \/ ShutdownApplied \/ BeginFinalize \/ FinalizeShutdown PROVE Safe'
  <2>1. ShutdownProgress'
    BY <1>17 DEF BeginShutdown, ShutdownApplied, BeginFinalize, FinalizeShutdown, Safe,
       ShutdownProgress, StopApplied
  <2> QED BY <1>17, <2>1, StaySafe
      DEF BeginShutdown, ShutdownApplied, BeginFinalize, FinalizeShutdown
<1>18. ASSUME NEW t \in Threads, PollQuiescence(t) PROVE Safe'
  <2>1. ShutdownProgress'
    BY <1>18 DEF PollQuiescence, IsExecutionQuiescent, Safe, ShutdownProgress, StopApplied
  <2> QED BY <1>18, <2>1, StaySafe DEF PollQuiescence
<1>19. ASSUME NEW t \in Threads, FinalizeWakes(t) PROVE Safe'
  <2>1. ShutdownProgress'
    BY <1>19 DEF FinalizeWakes, Safe, ShutdownProgress, StopApplied
  <2>2. signalled \subseteq signalled'
    BY <1>19, NotifyType DEF FinalizeWakes, Contexts
  <2> QED BY <1>19, <2>1, <2>2, StaySafe DEF FinalizeWakes
<1>20. CASE UNCHANGED vars
  <2>1. ShutdownProgress'
    BY <1>20 DEF vars, Safe, ShutdownProgress, StopApplied
  <2> QED BY <1>20, <2>1, StaySafe DEF vars
<1> QED
  BY <1>1, <1>2, <1>3, <1>4, <1>5, <1>6, <1>7, <1>8, <1>9, <1>10, <1>11, <1>12, <1>13, <1>14,
     <1>15, <1>16, <1>17, <1>18, <1>19, <1>20, ThreadAssumption
     DEF Next, Trampoline, Proceed, Request, ShutdownStep

-----------------------------------------------------------------------------
(* The theorems.                                                           *)

\* The inductive invariant of the threads holds in every reachable state: types, who holds
\* a mutex while it activates, which activation a callable serves, and how far shutdown is.
THEOREM ThreadInvariantHolds == Spec => []IInv
<1>1. Init => IInv
  <2> SUFFICES ASSUME Init
               PROVE  IInv
    OBVIOUS
  <2>1. \A c \in Callers : pc[c] \in {"loop", "user"} /\ call[c] = NoCall
    BY DEF Init
  <2>2. \A t \in Threads : pc[t] = "loop"
    BY DEF Init, Callers, Contexts
  <2>3. TypeOK
    <3>1. NoCall \in Call
      BY DEF NoCall, Call
    <3>2. pc \in [Callers -> Steps]
      BY DEF Init, Steps, CallableSteps
    <3> QED BY <3>1, <3>2 DEF Init, TypeOK, Lifecycles, Control
  <2>4. OperationsOK
    BY <2>1 DEF OperationsOK, HasTarget, JoinSteps, RegisteredSteps
  <2>5. ActivationIsCurrent /\ NoLostActivation
    BY <2>2 DEF ActivationIsCurrent, NoLostActivation, InCallable, CallableSteps, JoinSteps,
       RegisteredSteps
  <2>6. ShutdownProgress
    BY DEF Init, ShutdownProgress, StopApplied
  <2> QED BY <2>3, <2>4, <2>5, <2>6 DEF IInv
<1>2. IInv /\ [Next]_vars => IInv'
  BY NextTypes, NextSafe DEF IInv, Safe
<1> QED BY <1>1, <1>2, PTL DEF Spec

\* A Dedicated Thread never leaves its types.
THEOREM ThreadTypeCorrect == Spec => []TypeOK
<1>1. IInv => TypeOK
  BY DEF IInv
<1> QED BY <1>1, ThreadInvariantHolds, PTL

\* However starts, stops, joins and shutdown interleave, a callable runs for the current
\* activation of its thread and PublishStopped never meets a stale phase.
THEOREM ActivationsCorrect == Spec => []ActivationIsCurrent
<1>1. IInv => ActivationIsCurrent
  BY DEF IInv
<1> QED BY <1>1, ThreadInvariantHolds, PTL

\* An activation is never left with a trampoline that sleeps without a wake.
THEOREM NoActivationLost == Spec => []NoLostActivation
<1>1. IInv => NoLostActivation
  BY DEF IInv
<1> QED BY <1>1, ThreadInvariantHolds, PTL

\* A start that races shutdown never leaves a thread running without a stop request, and
\* a topology found quiescent stays quiescent while its trampolines are joined.
THEOREM ShutdownCorrect == Spec => []ShutdownStopsActivations
<1>1. IInv => ShutdownStopsActivations
  BY DEF IInv, ShutdownProgress, StopApplied, ActivationIsCurrent, ShutdownStopsActivations
<1> QED BY <1>1, ThreadInvariantHolds, PTL

-----------------------------------------------------------------------------
(* Joins. A registration names the context and the phase it captured; the  *)
(* activation that was current then tells apart what the phase does not.   *)

\* A joiner that sleeps, or is about to sleep again without another look.
RestingSteps == {"join-asleep", "join-settle"}

\* What a registration captured: an activation of the past, or the current one with its phase.
JoinsCaptured ==
  \A c \in Contexts : pc[c] \in RegisteredSteps =>
     LET t == call[c].target IN
     /\ control[t].state # "NeverStarted"
     /\ call[c].activation <= activations[t]
     /\ call[c].activation = activations[t] => call[c].phase = control[t].phase

\* NoLostJoinWakeup, with the joiners that have looked and are about to sleep again.
JoinersAwake ==
  \A c \in Contexts \ Faulty :
     pc[c] \in RestingSteps /\ IsActivationStopped(call[c].target, call[c].phase)
        => c \in signalled

Joins == JoinRegistrationsLive /\ JoinsCaptured /\ JoinersAwake

\* The registrations follow from where the contexts are and what they call.
LEMMA RegistrationsKept ==
  ASSUME JoinRegistrationsLive, UNCHANGED joinWaiters,
         \A d \in Contexts : pc'[d] \in RegisteredSteps <=> pc[d] \in RegisteredSteps,
         \A d \in Contexts : pc[d] \in RegisteredSteps => call'[d] = call[d]
  PROVE  JoinRegistrationsLive'
<1> SUFFICES ASSUME NEW t \in Threads
             PROVE  joinWaiters'[t] = {Registered(c)' : c \in {d \in Contexts :
                       pc'[d] \in RegisteredSteps /\ call'[d].target = t}}
  BY DEF JoinRegistrationsLive
<1>1. {d \in Contexts : pc'[d] \in RegisteredSteps /\ call'[d].target = t}
        = {d \in Contexts : pc[d] \in RegisteredSteps /\ call[d].target = t}
  OBVIOUS
<1>2. \A d \in Contexts : pc[d] \in RegisteredSteps => Registered(d)' = Registered(d)
  BY DEF Registered
<1>3. joinWaiters'[t] = {Registered(c) : c \in {d \in Contexts :
                       pc[d] \in RegisteredSteps /\ call[d].target = t}}
  BY DEF JoinRegistrationsLive
<1> QED BY <1>1, <1>2, <1>3

\* A step that ends no activation and begins none. Who comes to rest was at rest, with its
\* signal untouched, or has found its activation running.
LEMMA JoinsKept ==
  ASSUME TypeOK, OperationsOK, Joins, UNCHANGED <<joinWaiters, activations>>,
         \A d \in Contexts : pc'[d] \in RegisteredSteps <=> pc[d] \in RegisteredSteps,
         \A d \in Contexts : pc[d] \in RegisteredSteps => call'[d] = call[d],
         \A t \in Threads : control'[t].phase = control[t].phase,
         \A t \in Threads : \/ control'[t].state = control[t].state
                            \/ control'[t].state \in Active /\ control[t].state \in Active,
         \A d \in Contexts : pc'[d] \in RestingSteps =>
            \/ pc[d] \in RestingSteps /\ (d \in signalled => d \in signalled')
            \/ ~IsActivationStopped(call[d].target, call[d].phase)
  PROVE  Joins'
<1>1. \A d \in Contexts : pc[d] \in RegisteredSteps => call[d].target \in Threads
  BY DEF OperationsOK, HasTarget, JoinSteps, Callers
<1>2. JoinRegistrationsLive'
  BY RegistrationsKept DEF Joins
<1>3. JoinsCaptured'
  <2> SUFFICES ASSUME NEW c \in Contexts, pc'[c] \in RegisteredSteps
               PROVE  /\ control'[call'[c].target].state # "NeverStarted"
                      /\ call'[c].activation <= activations'[call'[c].target]
                      /\ call'[c].activation = activations'[call'[c].target]
                            => call'[c].phase = control'[call'[c].target].phase
    BY DEF JoinsCaptured
  <2>1. pc[c] \in RegisteredSteps /\ call'[c] = call[c] /\ call[c].target \in Threads
    BY <1>1
  <2> QED BY <2>1 DEF Joins, JoinsCaptured, Active
<1>4. JoinersAwake'
  <2> SUFFICES ASSUME NEW c \in Contexts \ Faulty, pc'[c] \in RestingSteps,
                      IsActivationStopped(call[c].target, call[c].phase)'
               PROVE  c \in signalled'
    BY DEF JoinersAwake
  <2>1. pc[c] \in RegisteredSteps /\ call'[c] = call[c] /\ call[c].target \in Threads
    BY <1>1 DEF RestingSteps, RegisteredSteps
  <2>2. IsActivationStopped(call[c].target, call[c].phase)
    BY <2>1 DEF IsActivationStopped, Active
  <2> QED BY <2>2 DEF Joins, JoinersAwake
<1> QED BY <1>2, <1>3, <1>4 DEF Joins

\* A caller that leaves its registration takes it back, whatever the other contexts have
\* registered on the same thread.
LEMMA Deregistration ==
  ASSUME TypeOK, OperationsOK, Joins, NEW c \in Callers, pc[c] \in RegisteredSteps,
         Return(c), joinWaiters' = Unregistered(call[c].target, c),
         UNCHANGED <<control, activations, signalled>>
  PROVE  Joins'
<1> DEFINE t == call[c].target
<1>1. /\ \A d \in Callers \ {c} : pc'[d] = pc[d] /\ call'[d] = call[d]
      /\ pc'[c] = "user"
  BY DEF Return, Goto, TypeOK
<1>2. c \in Contexts /\ t \in Threads
  BY DEF OperationsOK, HasTarget, JoinSteps
<1>3. "user" \notin RegisteredSteps /\ RestingSteps \subseteq RegisteredSteps
  BY DEF RegisteredSteps, RestingSteps
<1>4. \A d \in Contexts : d \in Callers
  BY DEF Callers
<1>5. JoinRegistrationsLive'
  <2> SUFFICES ASSUME NEW u \in Threads
               PROVE  joinWaiters'[u] = {Registered(e)' : e \in {d \in Contexts :
                         pc'[d] \in RegisteredSteps /\ call'[d].target = u}}
    BY DEF JoinRegistrationsLive
  <2>1. joinWaiters[u] = {Registered(e) : e \in {d \in Contexts :
                         pc[d] \in RegisteredSteps /\ call[d].target = u}}
    BY DEF Joins, JoinRegistrationsLive
  <2>2. \A d \in Contexts \ {c} : Registered(d)' = Registered(d) /\ Registered(d) # Registered(c)
    BY <1>1, <1>4 DEF Registered
  <2>3. CASE u = t
    <3>1. joinWaiters'[u] = joinWaiters[u] \ {Registered(c)}
      BY <1>2, <2>3 DEF Unregistered, TypeOK
    <3>2. {d \in Contexts : pc'[d] \in RegisteredSteps /\ call'[d].target = u}
            = {d \in Contexts : pc[d] \in RegisteredSteps /\ call[d].target = u} \ {c}
      BY <1>1, <1>3, <1>4
    <3> QED BY <2>1, <2>2, <3>1, <3>2
  <2>4. CASE u # t
    <3>1. joinWaiters'[u] = joinWaiters[u]
      BY <1>2, <2>4 DEF Unregistered, TypeOK
    <3>2. {d \in Contexts : pc'[d] \in RegisteredSteps /\ call'[d].target = u}
            = {d \in Contexts : pc[d] \in RegisteredSteps /\ call[d].target = u} \ {c}
      BY <1>1, <1>3, <1>4
    <3>3. c \notin {d \in Contexts : pc[d] \in RegisteredSteps /\ call[d].target = u}
      BY <2>4
    <3> QED BY <2>1, <2>2, <3>1, <3>2, <3>3
  <2> QED BY <2>3, <2>4
<1>6. JoinsCaptured'
  BY <1>1, <1>3, <1>4 DEF Joins, JoinsCaptured
<1>7. JoinersAwake'
  BY <1>1, <1>3, <1>4 DEF Joins, JoinersAwake, IsActivationStopped
<1> QED BY <1>5, <1>6, <1>7 DEF Joins

\* A registration captures the activation that is current.
LEMMA Registration ==
  ASSUME TypeOK, OperationsOK, Joins, NEW c \in Callers, JoinRegisters(c)
  PROVE  Joins'
<1> DEFINE t == call[c].target
<1>1. c \in Contexts /\ t \in Threads
  BY DEF JoinRegisters, OperationsOK, HasTarget, JoinSteps
<1>2. /\ \A d \in Callers \ {c} : pc'[d] = pc[d] /\ call'[d] = call[d]
      /\ pc'[c] = "join-asleep" /\ pc[c] = "join"
  BY DEF JoinRegisters, Goto, TypeOK
<1>3. call'[c].target = t /\ call'[c].phase = control[t].phase
        /\ call'[c].activation = activations[t]
  <2>1. call[c] \in Call
    BY DEF TypeOK
  <2>2. call'[c] = [call[c] EXCEPT !.phase = control[t].phase, !.activation = activations[t]]
    BY DEF JoinRegisters, TypeOK
  <2> QED BY <2>1, <2>2 DEF Call
<1>4. "join" \notin RegisteredSteps /\ "join-asleep" \in RegisteredSteps
        /\ RestingSteps \subseteq RegisteredSteps
  BY DEF RegisteredSteps, RestingSteps
<1>5. \A d \in Contexts : d \in Callers
  BY DEF Callers
<1>6. control[t].state \in Active /\ UNCHANGED <<control, activations, signalled>>
  BY DEF JoinRegisters, historyVars
<1>7. JoinRegistrationsLive'
  <2> SUFFICES ASSUME NEW u \in Threads
               PROVE  joinWaiters'[u] = {Registered(e)' : e \in {d \in Contexts :
                         pc'[d] \in RegisteredSteps /\ call'[d].target = u}}
    BY DEF JoinRegistrationsLive
  <2>1. joinWaiters[u] = {Registered(e) : e \in {d \in Contexts :
                         pc[d] \in RegisteredSteps /\ call[d].target = u}}
    BY DEF Joins, JoinRegistrationsLive
  <2>2. \A d \in Contexts \ {c} : Registered(d)' = Registered(d)
    BY <1>2, <1>5 DEF Registered
  <2>3. CASE u = t
    <3>1. joinWaiters'[u] = joinWaiters[u] \cup {Registered(c)'}
      BY <1>1, <1>3, <2>3 DEF JoinRegisters, Registered, TypeOK
    <3>2. {d \in Contexts : pc'[d] \in RegisteredSteps /\ call'[d].target = u}
            = {d \in Contexts : pc[d] \in RegisteredSteps /\ call[d].target = u} \cup {c}
      BY <1>1, <1>2, <1>3, <1>4, <1>5, <2>3
    <3>3. c \notin {d \in Contexts : pc[d] \in RegisteredSteps /\ call[d].target = u}
      BY <1>2, <1>4
    <3> QED BY <2>1, <2>2, <3>1, <3>2, <3>3
  <2>4. CASE u # t
    <3>1. joinWaiters'[u] = joinWaiters[u]
      BY <1>1, <2>4 DEF JoinRegisters, TypeOK
    <3>2. {d \in Contexts : pc'[d] \in RegisteredSteps /\ call'[d].target = u}
            = {d \in Contexts : pc[d] \in RegisteredSteps /\ call[d].target = u}
      BY <1>2, <1>3, <1>4, <1>5, <2>4
    <3>3. c \notin {d \in Contexts : pc[d] \in RegisteredSteps /\ call[d].target = u}
      BY <1>2, <1>4
    <3> QED BY <2>1, <2>2, <3>1, <3>2, <3>3
  <2> QED BY <2>3, <2>4
<1>8. JoinsCaptured'
  <2> SUFFICES ASSUME NEW d \in Contexts, pc'[d] \in RegisteredSteps
               PROVE  /\ control'[call'[d].target].state # "NeverStarted"
                      /\ call'[d].activation <= activations'[call'[d].target]
                      /\ call'[d].activation = activations'[call'[d].target]
                            => call'[d].phase = control'[call'[d].target].phase
    BY DEF JoinsCaptured
  <2>1. CASE d = c
    BY <1>1, <1>3, <1>6, <2>1 DEF Active, TypeOK
  <2>2. CASE d # c
    BY <1>2, <1>5, <1>6, <2>2 DEF Joins, JoinsCaptured
  <2> QED BY <2>1, <2>2
<1>9. JoinersAwake'
  <2> SUFFICES ASSUME NEW d \in Contexts \ Faulty, pc'[d] \in RestingSteps,
                      IsActivationStopped(call[d].target, call[d].phase)'
               PROVE  d \in signalled'
    BY DEF JoinersAwake
  <2>1. d # c
    BY <1>3, <1>6 DEF IsActivationStopped, Active
  <2> QED BY <1>2, <1>5, <1>6, <2>1 DEF Joins, JoinersAwake, IsActivationStopped
<1> QED BY <1>7, <1>8, <1>9 DEF Joins

\* The end of an activation wakes all that have registered for its phase.
LEMMA EndIsAnnounced ==
  ASSUME TypeOK, OperationsOK, ActivationIsCurrent, Joins, NEW t \in Threads, PublishStopped(t)
  PROVE  Joins'
<1>1. control[t].state \in Active /\ phase[t] = control[t].phase
  BY DEF PublishStopped, ActivationIsCurrent, InCallable, CallableSteps
<1>2. control' = [control EXCEPT ![t].state = "Stopped"] /\ Notify(JoinersOf(t, phase[t]))
  BY <1>1 DEF PublishStopped
<1>3. /\ \A u \in Threads \ {t} : control'[u] = control[u]
      /\ control'[t].state = "Stopped" /\ control'[t].phase = control[t].phase
  BY <1>2 DEF TypeOK, Control
<1>4. /\ \A d \in Callers \ {t} : pc'[d] = pc[d]
      /\ pc'[t] = "loop" /\ pc[t] = "returned"
  BY DEF PublishStopped, Goto, TypeOK, Callers, Contexts
<1>5. \A d \in Contexts : pc'[d] \in RegisteredSteps <=> pc[d] \in RegisteredSteps
  BY <1>4 DEF RegisteredSteps, Callers
<1>6. UNCHANGED <<joinWaiters, call, activations>>
  BY DEF PublishStopped, historyVars
<1>7. JoinRegistrationsLive'
  BY <1>5, <1>6, RegistrationsKept DEF Joins
<1>8. \A d \in Contexts : pc[d] \in RegisteredSteps => call[d].target \in Threads
  BY DEF OperationsOK, HasTarget, JoinSteps, Callers
<1>9. JoinsCaptured'
  BY <1>3, <1>5, <1>6, <1>8 DEF Joins, JoinsCaptured
<1>10. JoinersAwake'
  <2> SUFFICES ASSUME NEW c \in Contexts \ Faulty, pc'[c] \in RestingSteps,
                      IsActivationStopped(call[c].target, call[c].phase)'
               PROVE  c \in signalled'
    BY DEF JoinersAwake
  <2>1. pc[c] \in RestingSteps /\ pc[c] \in RegisteredSteps /\ call'[c] = call[c]
    BY <1>4, <1>6 DEF RestingSteps, RegisteredSteps, Callers
  <2>2. CASE IsActivationStopped(call[c].target, call[c].phase)
    <3>1. c \in signalled
      BY <2>1, <2>2 DEF Joins, JoinersAwake
    <3> QED BY <1>2, <3>1 DEF Notify
  <2>3. CASE ~IsActivationStopped(call[c].target, call[c].phase)
    <3>1. call[c].target = t /\ call[c].phase = phase[t]
      BY <1>1, <1>3, <1>8, <2>1, <2>3 DEF IsActivationStopped
    <3>2. Registered(c) \in joinWaiters[t]
      BY <2>1, <3>1 DEF Joins, JoinRegistrationsLive
    <3>3. c \in JoinersOf(t, phase[t])
      BY <3>1, <3>2 DEF JoinersOf, Registered
    <3> QED BY <1>2, <3>3 DEF Notify
  <2> QED BY <2>2, <2>3
<1> QED BY <1>7, <1>9, <1>10 DEF Joins

\* A start leaves every registration behind in the past: the activations it counts up tell
\* that, whether or not the phase does.
LEMMA StartLeavesJoins ==
  ASSUME TypeOK, OperationsOK, Joins, NEW c \in Callers, StartActivates(c)
  PROVE  Joins'
<1> DEFINE t == call[c].target
<1>1. t \in Threads /\ control[t].state \notin Active
  BY DEF StartActivates, OperationsOK, HasTarget
<1>2. /\ \A u \in Threads \ {t} : control'[u] = control[u] /\ activations'[u] = activations[u]
      /\ control'[t].state = "Running" /\ activations'[t] = activations[t] + 1
      /\ signalled \subseteq signalled' /\ UNCHANGED joinWaiters
  BY <1>1 DEF StartActivates, TypeOK, Control
<1>3. /\ \A d \in Callers \ {c} : pc'[d] = pc[d] /\ call'[d] = call[d]
      /\ pc'[c] = "user" /\ pc[c] = "activate"
  BY DEF StartActivates, Return, Goto, TypeOK
<1>4. /\ \A d \in Contexts : pc'[d] \in RegisteredSteps <=> pc[d] \in RegisteredSteps
      /\ \A d \in Contexts : pc[d] \in RegisteredSteps => call'[d] = call[d]
  BY <1>3 DEF RegisteredSteps, Callers
<1>5. JoinRegistrationsLive'
  BY <1>2, <1>4, RegistrationsKept DEF Joins
<1>6. \A d \in Contexts : pc[d] \in RegisteredSteps =>
         call[d].target \in Threads /\ call[d].activation \in Nat
  BY DEF OperationsOK, HasTarget, JoinSteps, Callers, TypeOK, Call
<1>7. JoinsCaptured'
  <2> SUFFICES ASSUME NEW d \in Contexts, pc'[d] \in RegisteredSteps
               PROVE  /\ control'[call'[d].target].state # "NeverStarted"
                      /\ call'[d].activation <= activations'[call'[d].target]
                      /\ call'[d].activation = activations'[call'[d].target]
                            => call'[d].phase = control'[call'[d].target].phase
    BY DEF JoinsCaptured
  <2>1. pc[d] \in RegisteredSteps /\ call'[d] = call[d] /\ call[d].target \in Threads
          /\ call[d].activation <= activations[call[d].target] /\ call[d].activation \in Nat
          /\ activations[call[d].target] \in Nat
    BY <1>4, <1>6 DEF Joins, JoinsCaptured, TypeOK
  <2>2. CASE call[d].target = t
    BY <1>2, <2>1, <2>2
  <2>3. CASE call[d].target # t
    BY <1>2, <2>1, <2>3 DEF Joins, JoinsCaptured
  <2> QED BY <2>2, <2>3
<1>8. JoinersAwake'
  <2> SUFFICES ASSUME NEW d \in Contexts \ Faulty, pc'[d] \in RestingSteps,
                      IsActivationStopped(call[d].target, call[d].phase)'
               PROVE  d \in signalled'
    BY DEF JoinersAwake
  <2>1. pc[d] \in RestingSteps /\ pc[d] \in RegisteredSteps /\ call'[d] = call[d]
    BY <1>3 DEF RestingSteps, RegisteredSteps, Callers
  <2>2. IsActivationStopped(call[d].target, call[d].phase)
    <3>1. CASE call[d].target = t
      <4>1. control[t].state # "NeverStarted"
        BY <2>1, <3>1 DEF Joins, JoinsCaptured
      <4>2. control[t].state = "Stopped"
        BY <1>1, <4>1 DEF TypeOK, Control, Active
      <4> QED BY <3>1, <4>2 DEF IsActivationStopped
    <3>2. CASE call[d].target # t
      BY <1>2, <1>6, <2>1, <3>2 DEF IsActivationStopped
    <3> QED BY <3>1, <3>2
  <2> QED BY <1>2, <2>1, <2>2 DEF Joins, JoinersAwake
<1> QED BY <1>5, <1>7, <1>8 DEF Joins

\* Every step keeps what joiners rely on. All others neither register nor end an activation.
LEMMA NextJoins == IInv /\ Joins /\ [Next]_vars => Joins'
<1> SUFFICES ASSUME TypeOK, OperationsOK, ActivationIsCurrent, Joins, [Next]_vars
             PROVE  Joins'
  BY DEF IInv
<1> USE DEF shutdownVars, historyVars
<1>a. \A t \in Threads : t \in Contexts
  BY DEF Contexts
<1>b. \A c \in Contexts : c \in Callers
  BY DEF Callers
<1>c. RestingSteps \subseteq RegisteredSteps
  BY DEF RestingSteps, RegisteredSteps
\* A caller outside a registration moves to another place outside.
<1>d. ASSUME NEW c \in Callers, UNCHANGED <<joinWaiters, activations, control>>,
             \A d \in Callers \ {c} : pc'[d] = pc[d] /\ call'[d] = call[d],
             pc[c] \notin RegisteredSteps, pc'[c] \notin RegisteredSteps,
             \A d \in Contexts \ {c} : d \in signalled => d \in signalled'
      PROVE  Joins'
  <2>1. \A d \in Contexts : pc'[d] \in RegisteredSteps <=> pc[d] \in RegisteredSteps
    BY <1>b, <1>d
  <2>2. \A d \in Contexts : pc[d] \in RegisteredSteps => call'[d] = call[d]
    BY <1>b, <1>d
  <2>3. \A d \in Contexts : pc'[d] \in RestingSteps =>
            pc[d] \in RestingSteps /\ (d \in signalled => d \in signalled')
    BY <1>b, <1>c, <1>d
  <2> QED BY <1>d, <2>1, <2>2, <2>3, JoinsKept
\* Every caller stays where it is, and no activation ends.
<1>e. ASSUME UNCHANGED <<joinWaiters, activations, pc, call>>, signalled \subseteq signalled',
             \A t \in Threads : control'[t].phase = control[t].phase,
             \A t \in Threads : \/ control'[t].state = control[t].state
                                \/ control'[t].state \in Active /\ control[t].state \in Active
      PROVE  Joins'
  BY <1>e, JoinsKept
<1>1. ASSUME NEW t \in Threads,
             \/ TrampolineReadsLifecycle(t) \/ TrampolineInspects(t) \/ TrampolineWakes(t)
             \/ CallableReturns(t)
      PROVE  Joins'
  <2>1. PICK step \in {"exited", "inspect", "user", "idle", "loop", "returned"} : Goto(t, step)
    BY <1>1 DEF TrampolineReadsLifecycle, TrampolineInspects, TrampolineWakes, CallableReturns
  <2>2. \A d \in Callers \ {t} : pc'[d] = pc[d] /\ call'[d] = call[d]
    BY <1>1, <2>1
       DEF TrampolineReadsLifecycle, TrampolineInspects, TrampolineWakes, CallableReturns, Goto,
           TypeOK
  <2>3. pc[t] \notin RegisteredSteps
    BY <1>1 DEF TrampolineReadsLifecycle, TrampolineInspects, TrampolineWakes, CallableReturns,
       RegisteredSteps
  <2>4. pc'[t] \notin RegisteredSteps
    BY <1>a, <1>b, <2>1 DEF Goto, TypeOK, RegisteredSteps
  <2>5. UNCHANGED <<joinWaiters, activations, control>>
    BY <1>1 DEF TrampolineReadsLifecycle, TrampolineInspects, TrampolineWakes, CallableReturns
  <2>6. \A d \in Contexts \ {t} : d \in signalled => d \in signalled'
    BY <1>1 DEF TrampolineReadsLifecycle, TrampolineInspects, TrampolineWakes, CallableReturns,
       TakeSignal
  <2> QED BY <1>a, <1>b, <1>d, <2>2, <2>3, <2>4, <2>5, <2>6
<1>2. ASSUME NEW t \in Threads, PublishStopped(t) PROVE Joins'
  BY <1>2, EndIsAnnounced
<1>3. ASSUME NEW c \in Callers, NEW t \in Threads, NEW budget \in Budgets,
             BeginContextWait(c, budget) \/ BeginJoin(c, t, budget)
      PROVE  Joins'
  <2>1. PICK step \in {"wait-asleep", "join"} : Goto(c, step)
    BY <1>3 DEF BeginContextWait, BeginJoin
  <2>2. \A d \in Callers \ {c} : pc'[d] = pc[d] /\ call'[d] = call[d]
    BY <1>3, <2>1 DEF BeginContextWait, BeginJoin, Goto, TypeOK
  <2>3. pc[c] \notin RegisteredSteps /\ pc'[c] \notin RegisteredSteps
    BY <1>3, <2>1 DEF BeginContextWait, BeginJoin, Goto, TypeOK, RegisteredSteps
  <2>4. UNCHANGED <<joinWaiters, activations, control, signalled>>
    BY <1>3 DEF BeginContextWait, BeginJoin
  <2> QED BY <1>d, <2>2, <2>3, <2>4
<1>4. ASSUME NEW c \in Callers, NEW t \in Threads, BeginStart(c, t) PROVE Joins'
  <2>1. \A d \in Callers \ {c} : pc'[d] = pc[d] /\ call'[d] = call[d]
    BY <1>4 DEF BeginStart, Goto, TypeOK
  <2>2. pc[c] \notin RegisteredSteps /\ pc'[c] \notin RegisteredSteps
    BY <1>4 DEF BeginStart, Goto, TypeOK, RegisteredSteps
  <2>3. UNCHANGED <<joinWaiters, activations, control, signalled>>
    BY <1>4 DEF BeginStart
  <2> QED BY <1>d, <2>1, <2>2, <2>3
<1>5. ASSUME NEW c \in Callers,
             StartChecks(c) \/ StartFails(c) \/ ContextWaitEnds(c) \/ JoinFindsStopped(c)
      PROVE  Joins'
  <2>1. \/ Return(c)
        \/ Goto(c, "activate") /\ UNCHANGED call
    BY <1>5 DEF StartChecks, StartFails, ContextWaitEnds, JoinFindsStopped
  <2>2. \A d \in Callers \ {c} : pc'[d] = pc[d] /\ call'[d] = call[d]
    BY <2>1 DEF Return, Goto, TypeOK
  <2>3. pc[c] \notin RegisteredSteps
    BY <1>5 DEF StartChecks, StartFails, ContextWaitEnds, JoinFindsStopped, RegisteredSteps
  <2>4. pc'[c] \notin RegisteredSteps
    BY <2>1 DEF Return, Goto, TypeOK, RegisteredSteps
  <2>5. UNCHANGED <<joinWaiters, activations, control>>
    BY <1>5 DEF StartChecks, StartFails, ContextWaitEnds, JoinFindsStopped
  <2>6. \A d \in Contexts \ {c} : d \in signalled => d \in signalled'
    BY <1>5 DEF StartChecks, StartFails, ContextWaitEnds, JoinFindsStopped, TakeSignal
  <2> QED BY <1>d, <2>2, <2>3, <2>4, <2>5, <2>6
<1>6. ASSUME NEW c \in Callers, StartActivates(c) PROVE Joins'
  BY <1>6, StartLeavesJoins
<1>7. ASSUME NEW c \in Callers, JoinRegisters(c) PROVE Joins'
  BY <1>7, Registration
<1>8. ASSUME NEW c \in Callers, JoinSucceeds(c) \/ JoinLeaves(c) PROVE Joins'
  BY <1>8, Deregistration DEF JoinSucceeds, JoinLeaves, RegisteredSteps
<1>9. ASSUME NEW c \in Callers,
             JoinWakes(c) \/ JoinExpires(c) \/ JoinContinues(c) \/ JoinSettles(c)
      PROVE  Joins'
  <2>1. PICK step \in RegisteredSteps : Goto(c, step)
    BY <1>9 DEF JoinWakes, JoinExpires, JoinContinues, JoinSettles, RegisteredSteps
  <2>2. pc[c] \in RegisteredSteps
    BY <1>9 DEF JoinWakes, JoinExpires, JoinContinues, JoinSettles, RegisteredSteps
  <2>3. /\ \A d \in Callers \ {c} : pc'[d] = pc[d]
        /\ pc'[c] = step
    BY <2>1 DEF Goto, TypeOK
  <2>4. UNCHANGED <<joinWaiters, activations, control, call>>
    BY <1>9 DEF JoinWakes, JoinExpires, JoinContinues, JoinSettles
  <2>5. \A d \in Contexts : pc'[d] \in RegisteredSteps <=> pc[d] \in RegisteredSteps
    BY <1>b, <2>2, <2>3
  <2>6. \A d \in Contexts \ {c} : d \in signalled => d \in signalled'
    BY <1>9 DEF JoinWakes, JoinExpires, JoinContinues, JoinSettles, TakeSignal
  <2>7. pc'[c] \in RestingSteps =>
            \/ pc[c] \in RestingSteps /\ UNCHANGED signalled
            \/ ~IsActivationStopped(call[c].target, call[c].phase)
    BY <1>9, <2>3 DEF JoinWakes, JoinExpires, JoinContinues, JoinSettles, Goto, TypeOK,
       RestingSteps
  <2>8. \A d \in Contexts : pc'[d] \in RestingSteps =>
            \/ pc[d] \in RestingSteps /\ (d \in signalled => d \in signalled')
            \/ ~IsActivationStopped(call[d].target, call[d].phase)
    BY <1>b, <2>3, <2>6, <2>7
  <2> QED BY <2>4, <2>5, <2>8, JoinsKept
<1>10. ASSUME NEW t \in Threads, RequestStop(t) \/ ShutdownStops(t) PROVE Joins'
  <2>1. StopAccepted(t) \/ UNCHANGED <<control, signalled>>
    BY <1>10 DEF RequestStop, ShutdownStops
  <2>2. /\ \A u \in Threads : control'[u].phase = control[u].phase
        /\ \A u \in Threads : \/ control'[u].state = control[u].state
                              \/ control'[u].state \in Active /\ control[u].state \in Active
    BY <2>1 DEF StopAccepted, TypeOK, Control, Active
  <2>3. signalled \subseteq signalled'
    BY <2>1 DEF StopAccepted, Notify
  <2> QED BY <1>10, <1>e, <2>2, <2>3 DEF RequestStop, ShutdownStops
<1>11. ASSUME NEW c \in Contexts, Wake(c) PROVE Joins'
  BY <1>11, <1>e DEF Wake
<1>12. ASSUME BeginShutdown \/ ShutdownApplied \/ BeginFinalize \/ FinalizeShutdown PROVE Joins'
  BY <1>12, <1>e DEF BeginShutdown, ShutdownApplied, BeginFinalize, FinalizeShutdown
<1>13. ASSUME NEW t \in Threads, PollQuiescence(t) \/ FinalizeWakes(t) PROVE Joins'
  BY <1>13, <1>e DEF PollQuiescence, FinalizeWakes, Notify
<1>14. CASE UNCHANGED vars
  BY <1>14, <1>e DEF vars
<1> QED
  BY <1>a, <1>b, <1>1, <1>2, <1>3, <1>4, <1>5, <1>6, <1>7, <1>8, <1>9, <1>10, <1>11, <1>12,
     <1>13, <1>14, ThreadAssumption
     DEF Next, Trampoline, Proceed, Request, ShutdownStep

\* Only a Join that finds its activation stopped returns from where it looks.
LEMMA JoinReturnsAfterEnd ==
  ASSUME IInv, Joins, [Next]_vars, NEW c \in Callers, pc[c] = "join-woken", pc'[c] = "user"
  PROVE  Ended(call[c].target, call[c].activation)
<1>1. TypeOK /\ OperationsOK /\ ActivationIsCurrent
  BY DEF IInv
<1>2. JoinSucceeds(c)
  <2>1. ASSUME NEW t \in Threads, Trampoline(t) \/ CallableReturns(t) PROVE FALSE
    BY <1>1, <2>1
       DEF Trampoline, TrampolineReadsLifecycle, TrampolineInspects, TrampolineWakes,
           PublishStopped, CallableReturns, Goto, TypeOK, Callers, Contexts
  <2>2. ASSUME NEW d \in Callers, Proceed(d) PROVE JoinSucceeds(c)
    <3>1. d = c
      <4>1. \A e \in Callers \ {d} : pc'[e] = pc[e]
        BY <1>1, <2>2
           DEF Proceed, StartChecks, StartActivates, StartFails, ContextWaitEnds,
               JoinFindsStopped, JoinRegisters, JoinWakes, JoinExpires, JoinSucceeds,
               JoinContinues, JoinSettles, JoinLeaves, Return, Goto, TypeOK
      <4> QED BY <4>1
    <3>2. JoinSucceeds(c) \/ JoinContinues(c)
      BY <2>2, <3>1
         DEF Proceed, StartChecks, StartActivates, StartFails, ContextWaitEnds,
             JoinFindsStopped, JoinRegisters, JoinWakes, JoinExpires, JoinSettles, JoinLeaves
    <3> QED BY <1>1, <3>2 DEF JoinContinues, Goto, TypeOK
  <2>3. ASSUME Request PROVE FALSE
    <3>1. ASSUME NEW d \in Callers, NEW step \in {"start", "wait-asleep", "join"}, Goto(d, step)
          PROVE  FALSE
      BY <1>1, <3>1 DEF Goto, TypeOK
    <3>2. ASSUME UNCHANGED pc PROVE FALSE
      BY <3>2
    <3> QED BY <2>3, <3>1, <3>2, ThreadAssumption
        DEF Request, BeginStart, BeginJoin, RequestStop, BeginContextWait, Wake, BeginShutdown,
            Callers, Contexts
  <2>4. ASSUME ShutdownStep PROVE FALSE
    BY <2>4
       DEF ShutdownStep, ShutdownStops, PollQuiescence, FinalizeWakes, ShutdownApplied,
           BeginFinalize, FinalizeShutdown
  <2>5. CASE UNCHANGED vars
    BY <2>5 DEF vars
  <2> QED BY <2>1, <2>2, <2>3, <2>4, <2>5 DEF Next
<1> DEFINE t == call[c].target
           n == call[c].activation
<1>3. c \in Contexts /\ t \in Threads /\ n \in Nat /\ activations[t] \in Nat
  BY <1>1 DEF OperationsOK, HasTarget, JoinSteps, RegisteredSteps, TypeOK, Call
<1>4. n <= activations[t] /\ (n = activations[t] => call[c].phase = control[t].phase)
  BY <1>3 DEF Joins, JoinsCaptured, RegisteredSteps
<1>5. CASE control[t].state = "Stopped"
  <2>1. ~InCallable(t)
    BY <1>1, <1>3, <1>5 DEF ActivationIsCurrent, Active
  <2> QED BY <1>5, <2>1 DEF Ended
<1>6. CASE control[t].phase # call[c].phase
  <2>1. n < activations[t]
    BY <1>3, <1>4, <1>6
  <2>2. InCallable(t) => executing[t] # n
    BY <1>1, <1>3, <2>1 DEF ActivationIsCurrent
  <2> QED BY <2>1, <2>2 DEF Ended
<1> QED BY <1>2, <1>5, <1>6 DEF JoinSucceeds, IsActivationStopped

\* Registrations are those of the Joins in progress, they name a past activation or the
\* current one, and no joiner sleeps through the end of its own.
THEOREM JoinsHold == Spec => []Joins
<1>1. Init => Joins
  <2> SUFFICES ASSUME Init
               PROVE  Joins
    OBVIOUS
  <2>1. \A c \in Contexts : pc[c] \notin RegisteredSteps /\ pc[c] \notin RestingSteps
    BY DEF Init, Callers, RegisteredSteps, RestingSteps
  <2>2. JoinRegistrationsLive
    BY <2>1 DEF Init, JoinRegistrationsLive
  <2> QED BY <2>1, <2>2 DEF Joins, JoinsCaptured, JoinersAwake
<1>2. IInv /\ Joins /\ [Next]_vars => Joins'
  BY NextJoins
<1> QED BY <1>1, <1>2, ThreadInvariantHolds, PTL DEF Spec

\* No Join leaves its registration behind, however it ends, and none loses it while it waits.
THEOREM RegistrationsCorrect == Spec => []JoinRegistrationsLive
<1>1. Joins => JoinRegistrationsLive
  BY DEF Joins
<1> QED BY <1>1, JoinsHold, PTL

\* The end of the phase a joiner captured reaches it, also between its look and its sleep.
THEOREM JoinWakeupCorrect == Spec => []NoLostJoinWakeup
<1>1. Joins => NoLostJoinWakeup
  BY DEF Joins, JoinersAwake, NoLostJoinWakeup, RestingSteps
<1> QED BY <1>1, JoinsHold, PTL

\* Joined is answered only when the activation that was joined is over, although the code
\* compares one bit.
THEOREM JoinCorrect == Spec => JoinedMeansEnded
<1>1. IInv /\ Joins /\ [Next]_vars =>
        [\A c \in Callers : pc[c] = "join-woken" /\ pc'[c] = "user"
              => Ended(call[c].target, call[c].activation)]_vars
  BY JoinReturnsAfterEnd
<1> QED BY <1>1, ThreadInvariantHolds, JoinsHold, PTL DEF Spec, JoinedMeansEnded

-----------------------------------------------------------------------------
(* The numbers of the activations. The phase is the last bit of the number *)
(* of the activation, both in the control and in what a Join captures, and *)
(* a trampoline that is outside its callable has the activation that is    *)
(* current still to take up.                                               *)

ThreadsNumbered ==
  \A t \in Threads :
     /\ control[t].phase <=> activations[t] % 2 = 1
     /\ executing[t] <= activations[t]
     /\ control[t].state \in Active /\ ~InCallable(t) => executing[t] < activations[t]

JoinsNumbered ==
  \A c \in Contexts : pc[c] \in RegisteredSteps => (call[c].phase <=> call[c].activation % 2 = 1)

\* A step that begins no activation, takes none up and registers nobody, and that leaves a
\* callable only when its activation ends.
LEMMA NumbersKept ==
  ASSUME TypeOK, ThreadsNumbered, JoinsNumbered, UNCHANGED <<activations, executing>>,
         \A t \in Threads : control'[t].phase = control[t].phase,
         \A t \in Threads : control'[t].state \in Active =>
            control[t].state \in Active /\ (InCallable(t) => pc'[t] \in CallableSteps),
         \A d \in Contexts : pc'[d] \in RegisteredSteps =>
            pc[d] \in RegisteredSteps /\ call'[d] = call[d]
  PROVE  ThreadsNumbered' /\ JoinsNumbered'
<1>1. ThreadsNumbered'
  BY DEF ThreadsNumbered, InCallable
<1>2. JoinsNumbered'
  BY DEF JoinsNumbered
<1> QED BY <1>1, <1>2

\* The same of a caller that moves within the callable of a thread, or outside of it, and
\* does not register.
LEMMA MoveNumbered ==
  ASSUME TypeOK, ThreadsNumbered, JoinsNumbered, NEW c \in Callers,
         UNCHANGED <<control, activations, executing>>,
         \A d \in Callers \ {c} : pc'[d] = pc[d] /\ call'[d] = call[d],
         pc[c] \in CallableSteps => pc'[c] \in CallableSteps,
         pc'[c] \in RegisteredSteps => pc[c] \in RegisteredSteps /\ call'[c] = call[c]
  PROVE  ThreadsNumbered' /\ JoinsNumbered'
<1>1. \A d \in Contexts : d \in Callers
  BY DEF Callers
<1>2. \A t \in Threads : InCallable(t) => pc'[t] \in CallableSteps
  BY DEF InCallable, Callers, Contexts
<1>3. \A d \in Contexts : pc'[d] \in RegisteredSteps =>
          pc[d] \in RegisteredSteps /\ call'[d] = call[d]
  BY <1>1
<1> QED BY <1>2, <1>3, NumbersKept

\* Every step keeps the numbers: a start counts on and toggles the phase together, and a
\* trampoline takes up the activation that is current.
LEMMA NextNumbered ==
  IInv /\ ThreadsNumbered /\ JoinsNumbered /\ [Next]_vars => ThreadsNumbered' /\ JoinsNumbered'
<1> SUFFICES ASSUME TypeOK, OperationsOK, ActivationIsCurrent, ThreadsNumbered, JoinsNumbered,
                    [Next]_vars
             PROVE  ThreadsNumbered' /\ JoinsNumbered'
  BY DEF IInv
<1> USE DEF shutdownVars, historyVars
<1>a. \A t \in Threads : t \in Contexts
  BY DEF Contexts
<1>b. \A c \in Contexts : c \in Callers
  BY DEF Callers
<1>c. RegisteredSteps \subseteq CallableSteps
  BY DEF CallableSteps, JoinSteps
\* Every caller stays where it is.
<1>e. ASSUME UNCHANGED <<activations, executing, pc, call>>,
             \A t \in Threads : control'[t].phase = control[t].phase,
             \A t \in Threads : control'[t].state \in Active => control[t].state \in Active
      PROVE  ThreadsNumbered' /\ JoinsNumbered'
  BY <1>e, NumbersKept DEF InCallable
<1>1. ASSUME NEW t \in Threads,
             TrampolineReadsLifecycle(t) \/ TrampolineWakes(t) \/ CallableReturns(t)
      PROVE  ThreadsNumbered' /\ JoinsNumbered'
  <2>1. PICK step \in {"exited", "inspect", "loop", "returned"} :
           Goto(t, step) /\ (pc[t] \in CallableSteps => step = "returned")
    BY <1>1
       DEF TrampolineReadsLifecycle, TrampolineWakes, CallableReturns, CallableSteps, JoinSteps,
           RegisteredSteps
  <2>2. /\ \A d \in Callers \ {t} : pc'[d] = pc[d]
        /\ pc'[t] = step
    BY <1>a, <1>b, <2>1 DEF Goto, TypeOK
  <2>3. UNCHANGED <<control, activations, executing, call>>
    BY <1>1 DEF TrampolineReadsLifecycle, TrampolineWakes, CallableReturns
  <2> QED BY <1>a, <1>b, <2>1, <2>2, <2>3, MoveNumbered DEF CallableSteps, RegisteredSteps
<1>2. ASSUME NEW t \in Threads, TrampolineInspects(t) PROVE ThreadsNumbered' /\ JoinsNumbered'
  <2>1. /\ \A d \in Callers \ {t} : pc'[d] = pc[d]
        /\ pc'[t] = IF control[t].state \in Active THEN "user" ELSE "idle"
    BY <1>2, <1>a, <1>b DEF TrampolineInspects, Goto, TypeOK
  <2>2. UNCHANGED <<control, activations, call>>
    BY <1>2 DEF TrampolineInspects
  <2>3. \A u \in Threads : executing'[u] = IF u = t /\ control[t].state \in Active
                                             THEN activations[u] ELSE executing[u]
    BY <1>2 DEF TrampolineInspects, TypeOK
  <2>4. ThreadsNumbered'
    <3> SUFFICES ASSUME NEW u \in Threads
                 PROVE  /\ control'[u].phase <=> activations'[u] % 2 = 1
                        /\ executing'[u] <= activations'[u]
                        /\ control'[u].state \in Active /\ ~InCallable(u)'
                              => executing'[u] < activations'[u]
      BY DEF ThreadsNumbered
    <3>1. activations[u] \in Nat /\ executing[u] \in Nat
      BY DEF TypeOK
    <3>2. CASE u = t
      <4>1. control[t].state \in Active => InCallable(t)'
        BY <2>1 DEF InCallable, CallableSteps
      <4> QED BY <2>2, <2>3, <3>1, <3>2, <4>1 DEF ThreadsNumbered
    <3>3. CASE u # t
      <4>1. InCallable(u)' <=> InCallable(u)
        BY <1>a, <1>b, <2>1, <3>3 DEF InCallable
      <4> QED BY <2>2, <2>3, <3>3, <4>1 DEF ThreadsNumbered
    <3> QED BY <3>2, <3>3
  <2>5. JoinsNumbered'
    BY <1>b, <2>1, <2>2 DEF JoinsNumbered, RegisteredSteps
  <2> QED BY <2>4, <2>5
<1>3. ASSUME NEW t \in Threads, PublishStopped(t) PROVE ThreadsNumbered' /\ JoinsNumbered'
  <2>1. control' = [control EXCEPT ![t].state = "Stopped"]
    BY <1>3 DEF PublishStopped, ActivationIsCurrent, InCallable, CallableSteps
  <2>2. /\ \A u \in Threads \ {t} : control'[u] = control[u]
        /\ control'[t].state = "Stopped" /\ control'[t].phase = control[t].phase
    BY <2>1 DEF TypeOK, Control
  <2>3. /\ \A d \in Callers \ {t} : pc'[d] = pc[d]
        /\ pc'[t] = "loop"
    BY <1>3, <1>a, <1>b DEF PublishStopped, Goto, TypeOK
  <2>4. UNCHANGED <<activations, executing, call>>
    BY <1>3 DEF PublishStopped
  <2>5. \A u \in Threads : control'[u].state \in Active =>
            control[u].state \in Active /\ (InCallable(u) => pc'[u] \in CallableSteps)
    BY <1>a, <1>b, <2>2, <2>3 DEF InCallable, Active
  <2>6. \A d \in Contexts : pc'[d] \in RegisteredSteps =>
            pc[d] \in RegisteredSteps /\ call'[d] = call[d]
    BY <1>b, <2>3, <2>4 DEF RegisteredSteps
  <2> QED BY <2>2, <2>4, <2>5, <2>6, NumbersKept
<1>4. ASSUME NEW c \in Callers, NEW t \in Threads, NEW budget,
             BeginStart(c, t) \/ BeginContextWait(c, budget) \/ BeginJoin(c, t, budget)
      PROVE  ThreadsNumbered' /\ JoinsNumbered'
  <2>1. PICK step \in {"start", "wait-asleep", "join"} : Goto(c, step)
    BY <1>4 DEF BeginStart, BeginContextWait, BeginJoin
  <2>2. /\ \A d \in Callers \ {c} : pc'[d] = pc[d] /\ call'[d] = call[d]
        /\ pc'[c] = step
    BY <1>4, <2>1 DEF BeginStart, BeginContextWait, BeginJoin, Goto, TypeOK
  <2>3. UNCHANGED <<control, activations, executing>>
    BY <1>4 DEF BeginStart, BeginContextWait, BeginJoin
  <2> QED BY <2>2, <2>3, MoveNumbered DEF CallableSteps, JoinSteps, RegisteredSteps
<1>5. ASSUME NEW c \in Callers,
             \/ StartChecks(c) \/ StartFails(c) \/ ContextWaitEnds(c) \/ JoinFindsStopped(c)
             \/ JoinSucceeds(c) \/ JoinLeaves(c)
      PROVE  ThreadsNumbered' /\ JoinsNumbered'
  <2>1. \/ Return(c)
        \/ Goto(c, "activate") /\ UNCHANGED call
    BY <1>5 DEF StartChecks, StartFails, ContextWaitEnds, JoinFindsStopped, JoinSucceeds, JoinLeaves
  <2>2. /\ \A d \in Callers \ {c} : pc'[d] = pc[d] /\ call'[d] = call[d]
        /\ pc'[c] \in {"user", "activate"}
    BY <2>1 DEF Return, Goto, TypeOK
  <2>3. UNCHANGED <<control, activations, executing>>
    BY <1>5 DEF StartChecks, StartFails, ContextWaitEnds, JoinFindsStopped, JoinSucceeds, JoinLeaves
  <2> QED BY <2>2, <2>3, MoveNumbered DEF CallableSteps, RegisteredSteps
<1>6. ASSUME NEW c \in Callers, StartActivates(c) PROVE ThreadsNumbered' /\ JoinsNumbered'
  <2> DEFINE t == call[c].target
  <2>1. t \in Threads /\ control[t].state \notin Active
    BY <1>6 DEF StartActivates, OperationsOK, HasTarget
  <2>2. /\ \A u \in Threads \ {t} : control'[u] = control[u] /\ activations'[u] = activations[u]
        /\ control'[t].phase = ~control[t].phase /\ activations'[t] = activations[t] + 1
        /\ UNCHANGED executing
    BY <1>6, <2>1 DEF StartActivates, TypeOK, Control
  <2>3. /\ \A d \in Callers \ {c} : pc'[d] = pc[d] /\ call'[d] = call[d]
        /\ pc'[c] = "user" /\ pc[c] = "activate"
    BY <1>6 DEF StartActivates, Return, Goto, TypeOK
  <2>4. ThreadsNumbered'
    <3> SUFFICES ASSUME NEW u \in Threads
                 PROVE  /\ control'[u].phase <=> activations'[u] % 2 = 1
                        /\ executing'[u] <= activations'[u]
                        /\ control'[u].state \in Active /\ ~InCallable(u)'
                              => executing'[u] < activations'[u]
      BY DEF ThreadsNumbered
    <3>1. activations[u] \in Nat /\ executing[u] \in Nat
      BY DEF TypeOK
    <3>2. CASE u = t
      <4>1. (activations[u] + 1) % 2 = 1 <=> ~(activations[u] % 2 = 1)
        BY <3>1
      <4>2. control'[u].phase <=> activations'[u] % 2 = 1
        BY <2>2, <3>1, <3>2, <4>1 DEF ThreadsNumbered
      <4>3. executing'[u] < activations'[u]
        BY <2>1, <2>2, <3>1, <3>2 DEF ThreadsNumbered
      <4> QED BY <2>2, <3>1, <3>2, <4>2, <4>3
    <3>3. CASE u # t
      <4>1. InCallable(u)' <=> InCallable(u)
        BY <1>a, <1>b, <2>3 DEF InCallable, CallableSteps
      <4> QED BY <2>2, <3>3, <4>1 DEF ThreadsNumbered
    <3> QED BY <3>2, <3>3
  <2>5. JoinsNumbered'
    BY <1>b, <2>3 DEF JoinsNumbered, RegisteredSteps
  <2> QED BY <2>4, <2>5
<1>7. ASSUME NEW c \in Callers, JoinRegisters(c) PROVE ThreadsNumbered' /\ JoinsNumbered'
  <2> DEFINE t == call[c].target
  <2>1. c \in Contexts /\ t \in Threads
    BY <1>7 DEF JoinRegisters, OperationsOK, HasTarget, JoinSteps
  <2>2. /\ \A d \in Callers \ {c} : pc'[d] = pc[d] /\ call'[d] = call[d]
        /\ pc'[c] = "join-asleep" /\ pc[c] = "join"
    BY <1>7 DEF JoinRegisters, Goto, TypeOK
  <2>3. call'[c].phase = control[t].phase /\ call'[c].activation = activations[t]
    <3>1. call[c] \in Call
      BY DEF TypeOK
    <3>2. call'[c] = [call[c] EXCEPT !.phase = control[t].phase, !.activation = activations[t]]
      BY <1>7 DEF JoinRegisters, TypeOK
    <3> QED BY <3>1, <3>2 DEF Call
  <2>4. UNCHANGED <<control, activations, executing>>
    BY <1>7 DEF JoinRegisters
  <2>5. \A u \in Threads : InCallable(u)' <=> InCallable(u)
    BY <1>a, <1>b, <2>2 DEF InCallable, CallableSteps, JoinSteps, RegisteredSteps
  <2>6. ThreadsNumbered'
    BY <2>4, <2>5 DEF ThreadsNumbered
  <2>7. JoinsNumbered'
    BY <1>b, <2>1, <2>2, <2>3 DEF JoinsNumbered, ThreadsNumbered
  <2> QED BY <2>6, <2>7
<1>8. ASSUME NEW c \in Callers,
             JoinWakes(c) \/ JoinExpires(c) \/ JoinContinues(c) \/ JoinSettles(c)
      PROVE  ThreadsNumbered' /\ JoinsNumbered'
  <2>1. PICK step \in RegisteredSteps : Goto(c, step)
    BY <1>8 DEF JoinWakes, JoinExpires, JoinContinues, JoinSettles, RegisteredSteps
  <2>2. pc[c] \in RegisteredSteps
    BY <1>8 DEF JoinWakes, JoinExpires, JoinContinues, JoinSettles, RegisteredSteps
  <2>3. /\ \A d \in Callers \ {c} : pc'[d] = pc[d]
        /\ pc'[c] = step
    BY <2>1 DEF Goto, TypeOK
  <2>4. UNCHANGED <<control, activations, executing, call>>
    BY <1>8 DEF JoinWakes, JoinExpires, JoinContinues, JoinSettles
  <2> QED BY <1>c, <2>1, <2>2, <2>3, <2>4, MoveNumbered
<1>9. ASSUME NEW t \in Threads, RequestStop(t) \/ ShutdownStops(t)
      PROVE  ThreadsNumbered' /\ JoinsNumbered'
  <2>1. StopAccepted(t) \/ UNCHANGED <<control, signalled>>
    BY <1>9 DEF RequestStop, ShutdownStops
  <2>2. /\ \A u \in Threads : control'[u].phase = control[u].phase
        /\ \A u \in Threads : control'[u].state \in Active => control[u].state \in Active
    BY <2>1 DEF StopAccepted, TypeOK, Control, Active
  <2> QED BY <1>9, <1>e, <2>2 DEF RequestStop, ShutdownStops
<1>10. ASSUME NEW c \in Contexts, Wake(c) PROVE ThreadsNumbered' /\ JoinsNumbered'
  BY <1>10, <1>e DEF Wake
<1>11. ASSUME \/ BeginShutdown \/ ShutdownApplied \/ BeginFinalize \/ FinalizeShutdown
              \/ \E t \in Threads : PollQuiescence(t) \/ FinalizeWakes(t)
              \/ UNCHANGED vars
       PROVE  ThreadsNumbered' /\ JoinsNumbered'
  BY <1>11, <1>e
     DEF BeginShutdown, ShutdownApplied, BeginFinalize, FinalizeShutdown, PollQuiescence,
         FinalizeWakes, vars
<1> QED
  BY <1>a, <1>b, <1>1, <1>2, <1>3, <1>4, <1>5, <1>6, <1>7, <1>8, <1>9, <1>10, <1>11,
     ThreadAssumption
     DEF Next, Trampoline, Proceed, Request, ShutdownStep

\* The phase is the last bit of the number of the activation, for as long as the system runs.
THEOREM ActivationsNumbered == Spec => [](ThreadsNumbered /\ JoinsNumbered)
<1>1. Init => ThreadsNumbered /\ JoinsNumbered
  <2> SUFFICES ASSUME Init
               PROVE  ThreadsNumbered /\ JoinsNumbered
    OBVIOUS
  <2>1. \A c \in Contexts : pc[c] \notin RegisteredSteps
    BY DEF Init, Callers, RegisteredSteps
  <2>2. \A t \in Threads : activations[t] = 0 /\ executing[t] = 0 /\ control[t].phase = FALSE
                             /\ control[t].state \notin Active
    BY DEF Init, Active
  <2> QED BY <2>1, <2>2 DEF ThreadsNumbered, JoinsNumbered
<1>2. IInv /\ ThreadsNumbered /\ JoinsNumbered /\ [Next]_vars => ThreadsNumbered' /\ JoinsNumbered'
  BY NextNumbered
<1> QED BY <1>1, <1>2, ThreadInvariantHolds, PTL DEF Spec

\* A joiner that sleeps although the activation it joined has ended, and that nothing will
\* wake, sleeps on a later activation of the same phase.
RetargetedByTwo ==
  \A c \in Contexts \ Faulty :
     LET t == call[c].target
         n == call[c].activation
     IN  pc[c] = "join-asleep" /\ Ended(t, n) /\ c \notin signalled
            => /\ control[t].state \in Active
               /\ activations[t] % 2 = n % 2
               /\ n + 2 <= activations[t]

\* The documentation says that a restart never retargets a Join. One restart never does;
\* what the one bit of the phase misses is an even number of them, the two or more that
\* the joiner sleeps through without a wake.
THEOREM OneRestartIsSafe == Spec => []RetargetedByTwo
<1>1. IInv /\ Joins /\ ThreadsNumbered /\ JoinsNumbered => RetargetedByTwo
  <2> SUFFICES ASSUME TypeOK, OperationsOK, Joins, ThreadsNumbered, JoinsNumbered,
                      NEW c \in Contexts \ Faulty,
                      pc[c] = "join-asleep", Ended(call[c].target, call[c].activation),
                      c \notin signalled
               PROVE  /\ control[call[c].target].state \in Active
                      /\ activations[call[c].target] % 2 = call[c].activation % 2
                      /\ call[c].activation + 2 <= activations[call[c].target]
    BY DEF IInv, RetargetedByTwo
  <2> DEFINE t == call[c].target
             n == call[c].activation
  <2>1. "join-asleep" \in RegisteredSteps /\ "join-asleep" \in RestingSteps
    BY DEF RegisteredSteps, RestingSteps
  <2>2. t \in Threads /\ n \in Nat /\ activations[t] \in Nat
    BY <2>1 DEF OperationsOK, HasTarget, JoinSteps, Callers, TypeOK, Call
  <2>3. control[t].phase = call[c].phase /\ control[t].state # "Stopped"
    BY <2>1 DEF Joins, JoinersAwake, IsActivationStopped
  <2>4. control[t].state \in Active
    BY <2>1, <2>2, <2>3 DEF Joins, JoinsCaptured, TypeOK, Control
  <2>5. n < activations[t]
    BY <2>3 DEF Ended
  <2>6. activations[t] % 2 = 1 <=> n % 2 = 1
    BY <2>1, <2>2, <2>3 DEF ThreadsNumbered, JoinsNumbered
  <2>7. \A a, b \in Nat : (a % 2 = 1 <=> b % 2 = 1) /\ a < b => a + 2 <= b /\ b % 2 = a % 2
    OBVIOUS
  <2> QED BY <2>2, <2>4, <2>5, <2>6, <2>7
<1> QED BY <1>1, ThreadInvariantHolds, JoinsHold, ActivationsNumbered, PTL

-----------------------------------------------------------------------------
(* The refinement. Each action of the abstract specification is the step   *)
(* that decides: the toggle of the phase begins an activation and the      *)
(* publication of the stop ends it, whatever lies before and after them.   *)

Busy == CallableSteps \ {"returned"}

JoinOf(c) == [caller |-> c, thread |-> call[c].target, activation |-> call[c].activation]

\* What is promised about a thread depends on its state and its number, and on shutdown.
LEMMA ThreadsSeen ==
  ASSUME UNCHANGED <<activations, executing>>,
         \A t \in Threads : control'[t].state = control[t].state,
         \A t \in Threads : StopApplied(t)' <=> StopApplied(t)
  PROVE  UNCHANGED <<activations, executing, EndedActivations, Asked, Retired>>
<1>1. EndedActivations' = EndedActivations
  BY DEF EndedActivations
<1>2. Asked' = Asked /\ Retired' = Retired
  BY DEF Asked, Retired
<1> QED BY <1>1, <1>2

\* What is promised to a caller depends on where it is and on what its Join has captured.
LEMMA CallersSeen ==
  ASSUME \A d \in Callers : pc'[d] \in Busy <=> pc[d] \in Busy,
         \A d \in Callers : pc'[d] \in WaitingSteps <=> pc[d] \in WaitingSteps,
         \A d \in Callers : pc'[d] = "join-leave" <=> pc[d] = "join-leave",
         \A d \in Callers : pc[d] \in WaitingSteps => call'[d] = call[d]
  PROVE  UNCHANGED <<Inside, Joining, Leaving>>
<1>1. Inside' = Inside
  BY DEF Inside, InCallable, Busy, Callers, Contexts
<1>2. {d \in Callers : pc'[d] \in WaitingSteps} = {d \in Callers : pc[d] \in WaitingSteps}
  OBVIOUS
<1>3. \A d \in {e \in Callers : pc[e] \in WaitingSteps} : JoinOf(d)' = JoinOf(d)
  BY DEF JoinOf
<1>4. Joining' = Joining
  BY <1>2, <1>3 DEF Joining, JoinOf
<1>5. Leaving' = Leaving
  BY DEF Leaving
<1> QED BY <1>1, <1>4, <1>5

\* The same of one caller that moves.
LEMMA CallerSeen ==
  ASSUME NEW c \in Callers,
         \A d \in Callers \ {c} : pc'[d] = pc[d] /\ call'[d] = call[d],
         pc'[c] \in Busy <=> pc[c] \in Busy,
         pc'[c] \in WaitingSteps <=> pc[c] \in WaitingSteps,
         pc'[c] = "join-leave" <=> pc[c] = "join-leave",
         pc[c] \in WaitingSteps => call'[c] = call[c]
  PROVE  UNCHANGED <<Inside, Joining, Leaving>>
<1>1. \A d \in Callers : pc'[d] \in Busy <=> pc[d] \in Busy
  OBVIOUS
<1>2. \A d \in Callers : pc'[d] \in WaitingSteps <=> pc[d] \in WaitingSteps
  OBVIOUS
<1>3. \A d \in Callers : pc'[d] = "join-leave" <=> pc[d] = "join-leave"
  OBVIOUS
<1>4. \A d \in Callers : pc[d] \in WaitingSteps => call'[d] = call[d]
  OBVIOUS
<1> QED BY <1>1, <1>2, <1>3, <1>4, CallersSeen

\* A caller that stops waiting, to return or to leave, takes its Join out of those that wait.
LEMMA WaitIsOver ==
  ASSUME NEW c \in Callers, pc[c] \in WaitingSteps, pc'[c] \notin WaitingSteps,
         \A d \in Callers \ {c} : pc'[d] = pc[d] /\ call'[d] = call[d]
  PROVE  JoinOf(c) \in Joining /\ Joining' = Joining \ {JoinOf(c)}
<1>1. {d \in Callers : pc'[d] \in WaitingSteps} = {d \in Callers : pc[d] \in WaitingSteps} \ {c}
  OBVIOUS
<1>2. \A d \in Callers \ {c} : JoinOf(d)' = JoinOf(d) /\ JoinOf(d) # JoinOf(c)
  BY DEF JoinOf
<1>3. Joining = {JoinOf(d) : d \in {e \in Callers : pc[e] \in WaitingSteps}}
  BY DEF Joining, JoinOf
<1>4. Joining' = {JoinOf(d)' : d \in {e \in Callers : pc'[e] \in WaitingSteps}}
  BY DEF Joining, JoinOf
<1> QED BY <1>1, <1>2, <1>3, <1>4

\* The step of one caller that the promise does not see.
LEMMA Unseen ==
  ASSUME NEW c \in Callers,
         UNCHANGED <<lifecycle, visited, control, activations, executing>>,
         \A d \in Callers \ {c} : pc'[d] = pc[d] /\ call'[d] = call[d],
         pc'[c] \in Busy <=> pc[c] \in Busy,
         pc'[c] \in WaitingSteps <=> pc[c] \in WaitingSteps,
         pc'[c] = "join-leave" <=> pc[c] = "join-leave",
         pc[c] \in WaitingSteps => call'[c] = call[c]
  PROVE  UNCHANGED Promise!promised
<1>1. \A t \in Threads : StopApplied(t)' <=> StopApplied(t)
  BY DEF StopApplied
<1> QED BY <1>1, ThreadsSeen, CallerSeen DEF Promise!promised

LEMMA InitPromised == Init => Promise!Init
<1> SUFFICES ASSUME Init PROVE Promise!Init
  OBVIOUS
<1>1. \A c \in Callers : pc[c] \in {"loop", "user"}
  BY DEF Init
<1>2. Joining = {} /\ Leaving = {}
  BY <1>1 DEF Joining, Leaving, WaitingSteps
<1>3. Inside = {}
  BY DEF Init, Inside, InCallable, CallableSteps, JoinSteps, RegisteredSteps, Callers, Contexts
<1>4. Asked = {} /\ Retired = {}
  BY DEF Init, Asked, Retired, StopApplied
<1>5. EndedActivations = [t \in Threads |-> 0]
  BY DEF Init, EndedActivations, Active
<1> QED BY <1>2, <1>3, <1>4, <1>5 DEF Init, Promise!Init

\* The trampoline takes up the activation that is current, once.
LEMMA InspectionPromised ==
  ASSUME TypeOK, ActivationIsCurrent, ThreadsNumbered, NEW t \in Threads, TrampolineInspects(t)
  PROVE  Promise!TakeUp(t) \/ UNCHANGED Promise!promised
<1>1. t \in Callers
  BY DEF Callers, Contexts
<1>2. /\ \A d \in Callers \ {t} : pc'[d] = pc[d] /\ call'[d] = call[d]
      /\ pc'[t] = IF control[t].state \in Active THEN "user" ELSE "idle"
      /\ pc[t] = "inspect"
  BY <1>1 DEF TrampolineInspects, Goto, TypeOK
<1>3. UNCHANGED <<lifecycle, visited, control, activations, call>>
  BY DEF TrampolineInspects, shutdownVars
<1>4. CASE control[t].state \in Active
  <2>1. executing' = [executing EXCEPT ![t] = activations[t]]
    BY <1>4 DEF TrampolineInspects
  <2>2. t \notin Inside /\ executing[t] < activations[t]
    BY <1>2, <1>4
       DEF Inside, InCallable, CallableSteps, JoinSteps, RegisteredSteps, ThreadsNumbered
  <2>3. Inside' = Inside \cup {t}
    <3>1. \A u \in Threads \ {t} : pc'[u] = pc[u]
      BY <1>2 DEF Callers, Contexts
    <3>2. pc'[t] = "user" /\ "user" \in CallableSteps
      BY <1>2, <1>4 DEF CallableSteps
    <3> QED BY <3>1, <3>2 DEF Inside, InCallable
  <2>4. UNCHANGED <<EndedActivations, Asked, Retired>>
    BY <1>3 DEF EndedActivations, Asked, Retired, StopApplied
  <2>5. UNCHANGED <<Joining, Leaving>>
    <3>1. {d \in Callers : pc'[d] \in WaitingSteps} = {d \in Callers : pc[d] \in WaitingSteps}
      BY <1>2, <1>4 DEF WaitingSteps
    <3>2. Leaving' = Leaving
      BY <1>2, <1>4 DEF Leaving
    <3> QED BY <1>3, <3>1, <3>2 DEF Joining
  <2>6. EndedActivations[t] < activations[t]
    BY <1>4 DEF EndedActivations, TypeOK
  <2> QED BY <1>3, <2>1, <2>2, <2>3, <2>4, <2>5, <2>6 DEF Promise!TakeUp, Promise!IsActive
<1>5. CASE control[t].state \notin Active
  <2>1. executing' = executing
    BY <1>5 DEF TrampolineInspects
  <2> QED BY <1>1, <1>2, <1>3, <1>5, <2>1, Unseen
      DEF Busy, CallableSteps, WaitingSteps, JoinSteps, RegisteredSteps
<1> QED BY <1>4, <1>5

LEMMA ReturnPromised ==
  ASSUME TypeOK, NEW t \in Threads, CallableReturns(t)
  PROVE  Promise!Return(t)
<1>1. \A u \in Threads : u \in Callers
  BY DEF Callers, Contexts
<1>2. /\ \A d \in Callers \ {t} : pc'[d] = pc[d]
      /\ pc'[t] = "returned" /\ pc[t] = "user"
  BY <1>1 DEF CallableReturns, Goto, TypeOK
<1>3. UNCHANGED <<lifecycle, visited, control, activations, executing, call>>
  BY DEF CallableReturns, shutdownVars, historyVars
<1>4. t \in Inside /\ Inside' = Inside \ {t}
  BY <1>1, <1>2 DEF Inside, InCallable, CallableSteps
<1>5. UNCHANGED <<EndedActivations, Asked, Retired>>
  BY <1>3 DEF EndedActivations, Asked, Retired, StopApplied
<1>6. {d \in Callers : pc'[d] \in WaitingSteps} = {d \in Callers : pc[d] \in WaitingSteps}
  BY <1>2 DEF WaitingSteps
<1>7. Joining' = Joining
  BY <1>3, <1>6 DEF Joining
<1>8. Leaving' = Leaving
  BY <1>2 DEF Leaving
<1> QED BY <1>3, <1>4, <1>5, <1>7, <1>8 DEF Promise!Return

\* What PublishStopped ends is the activation whose callable has just returned.
LEMMA StopPromised ==
  ASSUME TypeOK, ActivationIsCurrent, NEW t \in Threads, PublishStopped(t)
  PROVE  Promise!End(t)
<1>1. t \in Callers
  BY DEF Callers, Contexts
<1>2. control[t].state \in Active /\ phase[t] = control[t].phase /\ executing[t] = activations[t]
  BY DEF PublishStopped, ActivationIsCurrent, InCallable, CallableSteps
<1>3. control' = [control EXCEPT ![t].state = "Stopped"]
  BY <1>2 DEF PublishStopped
<1>4. /\ \A u \in Threads \ {t} : control'[u] = control[u]
      /\ control'[t].state = "Stopped"
  BY <1>3 DEF TypeOK, Control
<1>5. /\ \A d \in Callers \ {t} : pc'[d] = pc[d] /\ call'[d] = call[d]
      /\ pc'[t] = "loop" /\ pc[t] = "returned"
  BY <1>1 DEF PublishStopped, Goto, TypeOK
<1>6. UNCHANGED <<lifecycle, visited, activations, executing>>
  BY DEF PublishStopped, shutdownVars, historyVars
<1>7. EndedActivations' = [EndedActivations EXCEPT ![t] = activations[t]]
  BY <1>4, <1>6 DEF EndedActivations, Active
<1>8. Asked' = Asked \ {t}
  BY <1>4 DEF Asked
<1>9. Retired' = Retired
  BY <1>6 DEF Retired, StopApplied
<1>10. UNCHANGED <<Inside, Joining, Leaving>>
  BY <1>1, <1>5, CallerSeen
     DEF Busy, CallableSteps, WaitingSteps, JoinSteps, RegisteredSteps
<1>11. t \notin Inside /\ EndedActivations[t] < activations[t]
  BY <1>2, <1>5 DEF Inside, EndedActivations, TypeOK
<1> QED BY <1>2, <1>6, <1>7, <1>8, <1>9, <1>10, <1>11 DEF Promise!End, Promise!IsActive

\* Whoever holds the mutex of a thread that shutdown has reached has not found it startable.
LEMMA StartPromised ==
  ASSUME TypeOK, OperationsOK, ShutdownProgress, NEW c \in Callers, StartActivates(c)
  PROVE  Promise!Begin(call[c].target)
<1> DEFINE t == call[c].target
<1>1. t \in Threads /\ control[t].state \notin Active
  BY DEF StartActivates, OperationsOK, HasTarget
<1>2. /\ \A u \in Threads \ {t} : control'[u] = control[u]
      /\ control'[t].state = "Running"
      /\ activations' = [activations EXCEPT ![t] = @ + 1]
  BY <1>1 DEF StartActivates, TypeOK
<1>3. /\ \A d \in Callers \ {c} : pc'[d] = pc[d] /\ call'[d] = call[d]
      /\ pc'[c] = "user" /\ pc[c] = "activate"
  BY DEF StartActivates, Return, Goto, TypeOK
<1>4. UNCHANGED <<lifecycle, visited, executing>>
  BY DEF StartActivates, shutdownVars
<1>5. EndedActivations' = EndedActivations
  <2>1. \A u \in Threads :
           (IF control'[u].state \in Active THEN activations'[u] - 1 ELSE activations'[u])
             = IF control[u].state \in Active THEN activations[u] - 1 ELSE activations[u]
    BY <1>1, <1>2 DEF TypeOK, Active
  <2> QED BY <2>1 DEF EndedActivations
<1>6. Asked' = Asked
  BY <1>1, <1>2 DEF Asked, Active
<1>7. Retired' = Retired
  BY <1>4 DEF Retired, StopApplied
<1>8. UNCHANGED <<Inside, Joining, Leaving>>
  BY <1>3, CallerSeen DEF Busy, CallableSteps, WaitingSteps, JoinSteps, RegisteredSteps
<1>9. t \notin Retired
  BY <1>3 DEF Retired, ShutdownProgress
<1>10. ~(EndedActivations[t] < activations[t])
  BY <1>1 DEF EndedActivations, TypeOK
<1> QED BY <1>2, <1>4, <1>5, <1>6, <1>7, <1>8, <1>9, <1>10 DEF Promise!Begin, Promise!IsActive

\* A stop request that is accepted reaches an activation that has not ended.
LEMMA AcceptedStop ==
  ASSUME TypeOK, NEW t \in Threads, StopAccepted(t), UNCHANGED activations
  PROVE  /\ EndedActivations[t] < activations[t] /\ t \notin Asked
         /\ Asked' = Asked \cup {t} /\ EndedActivations' = EndedActivations
<1>1. /\ control[t].state = "Running" /\ control'[t].state = "RunningStopRequested"
      /\ \A u \in Threads \ {t} : control'[u] = control[u]
  BY DEF StopAccepted, TypeOK, Control
<1>2. EndedActivations' = EndedActivations
  BY <1>1 DEF EndedActivations, Active
<1> QED BY <1>1, <1>2 DEF EndedActivations, Asked, Active, TypeOK

LEMMA AskPromised ==
  ASSUME TypeOK, NEW t \in Threads, RequestStop(t)
  PROVE  Promise!Ask(t)
<1>1. UNCHANGED <<lifecycle, visited, activations, executing, pc, call>> /\ StopAccepted(t)
  BY DEF RequestStop, shutdownVars, historyVars
<1>2. Retired' = Retired
  BY <1>1 DEF Retired, StopApplied
<1>3. UNCHANGED <<Inside, Joining, Leaving>>
  BY <1>1, CallersSeen
<1> QED BY <1>1, <1>2, <1>3, AcceptedStop DEF Promise!Ask, Promise!IsActive

LEMMA RetirePromised ==
  ASSUME TypeOK, NEW t \in Threads, ShutdownStops(t)
  PROVE  Promise!Retire(t)
<1>1. /\ UNCHANGED <<lifecycle, activations, executing, pc, call>>
      /\ lifecycle = "ShuttingDown" /\ t \notin visited /\ visited' = visited \cup {t}
  BY DEF ShutdownStops, historyVars
<1>2. t \notin Retired /\ Retired' = Retired \cup {t}
  BY <1>1 DEF Retired, StopApplied
<1>3. UNCHANGED <<Inside, Joining, Leaving>>
  BY <1>1, CallersSeen
<1>4. /\ Asked' = IF EndedActivations[t] < activations[t] THEN Asked \cup {t} ELSE Asked
      /\ EndedActivations' = EndedActivations
  <2>1. CASE StopAccepted(t)
    BY <1>1, <2>1, AcceptedStop
  <2>2. CASE control[t].state # "Running" /\ UNCHANGED control
    <3>1. Asked' = Asked /\ EndedActivations' = EndedActivations
      BY <1>1, <2>2 DEF Asked, EndedActivations
    <3>2. EndedActivations[t] < activations[t] => t \in Asked
      BY <2>2 DEF EndedActivations, Asked, Active, TypeOK
    <3> QED BY <3>1, <3>2
  <2> QED BY <2>1, <2>2 DEF ShutdownStops
<1> QED BY <1>1, <1>2, <1>3, <1>4 DEF Promise!Retire, Promise!IsActive

LEMMA RegistrationPromised ==
  ASSUME TypeOK, OperationsOK, NEW c \in Callers, JoinRegisters(c)
  PROVE  Promise!Join(c, call[c].target)
<1> DEFINE t == call[c].target
<1>1. t \in Threads /\ control[t].state \in Active
  BY DEF JoinRegisters, OperationsOK, HasTarget, JoinSteps
<1>2. /\ \A d \in Callers \ {c} : pc'[d] = pc[d] /\ call'[d] = call[d]
      /\ pc'[c] = "join-asleep" /\ pc[c] = "join"
  BY DEF JoinRegisters, Goto, TypeOK
<1>3. call'[c].target = t /\ call'[c].activation = activations[t]
  <2>1. call[c] \in Call
    BY DEF TypeOK
  <2>2. call'[c] = [call[c] EXCEPT !.phase = control[t].phase, !.activation = activations[t]]
    BY DEF JoinRegisters, TypeOK
  <2> QED BY <2>1, <2>2 DEF Call
<1>4. UNCHANGED <<lifecycle, visited, control, activations, executing>>
  BY DEF JoinRegisters, shutdownVars, historyVars
<1>5. UNCHANGED <<EndedActivations, Asked, Retired>>
  BY <1>4 DEF EndedActivations, Asked, Retired, StopApplied
<1>6. UNCHANGED <<Inside, Leaving>>
  <2>1. Inside' = Inside
    BY <1>2 DEF Inside, InCallable, CallableSteps, JoinSteps, RegisteredSteps, Callers, Contexts
  <2>2. Leaving' = Leaving
    BY <1>2 DEF Leaving
  <2> QED BY <2>1, <2>2
<1>7. Joining' = Joining \cup {[caller |-> c, thread |-> t, activation |-> activations[t]]}
  <2>1. {d \in Callers : pc'[d] \in WaitingSteps}
          = {d \in Callers : pc[d] \in WaitingSteps} \cup {c}
    BY <1>2 DEF WaitingSteps
  <2>2. \A d \in Callers \ {c} : JoinOf(d)' = JoinOf(d)
    BY <1>2 DEF JoinOf
  <2>3. JoinOf(c)' = [caller |-> c, thread |-> t, activation |-> activations[t]]
    BY <1>3 DEF JoinOf
  <2>4. pc[c] \notin WaitingSteps
    BY <1>2 DEF WaitingSteps
  <2>5. Joining = {JoinOf(d) : d \in {e \in Callers : pc[e] \in WaitingSteps}}
    BY DEF Joining, JoinOf
  <2>6. Joining' = {JoinOf(d)' : d \in {e \in Callers : pc'[e] \in WaitingSteps}}
    BY DEF Joining, JoinOf
  <2> QED BY <2>1, <2>2, <2>3, <2>4, <2>5, <2>6
<1>8. c \notin Leaving /\ \A j \in Joining : j.caller # c
  BY <1>2 DEF Leaving, Joining, WaitingSteps
<1>9. EndedActivations[t] < activations[t]
  BY <1>1 DEF EndedActivations, TypeOK
<1> QED BY <1>4, <1>5, <1>6, <1>7, <1>8, <1>9 DEF Promise!Join, Promise!IsActive

\* The bit that JoinSucceeds compares tells that the number has been passed.
LEMMA JoinedPromised ==
  ASSUME TypeOK, OperationsOK, JoinsCaptured, NEW c \in Callers, JoinSucceeds(c)
  PROVE  \E j \in Joining : Promise!Joined(j)
<1> DEFINE t == call[c].target
           n == call[c].activation
<1>1. /\ \A d \in Callers \ {c} : pc'[d] = pc[d] /\ call'[d] = call[d]
      /\ pc'[c] = "user" /\ pc[c] = "join-woken"
  BY DEF JoinSucceeds, Return, Goto, TypeOK
<1>2. UNCHANGED <<lifecycle, visited, control, activations, executing>>
  BY DEF JoinSucceeds, shutdownVars, historyVars
<1>3. c \in Contexts /\ t \in Threads /\ n \in Nat /\ activations[t] \in Nat
  BY <1>1 DEF OperationsOK, HasTarget, JoinSteps, RegisteredSteps, TypeOK, Call
<1>4. n <= EndedActivations[t]
  <2>1. n <= activations[t] /\ (n = activations[t] => call[c].phase = control[t].phase)
    BY <1>1, <1>3 DEF JoinsCaptured, RegisteredSteps
  <2>2. CASE control[t].state = "Stopped"
    BY <1>3, <2>1, <2>2 DEF EndedActivations, Active
  <2>3. CASE control[t].phase # call[c].phase
    BY <1>3, <2>1, <2>3 DEF EndedActivations
  <2> QED BY <2>2, <2>3 DEF JoinSucceeds, IsActivationStopped
<1>5. UNCHANGED <<EndedActivations, Asked, Retired>>
  BY <1>2 DEF EndedActivations, Asked, Retired, StopApplied
<1>6. UNCHANGED <<Inside, Leaving>>
  <2>1. Inside' = Inside
    BY <1>1 DEF Inside, InCallable, CallableSteps, JoinSteps, RegisteredSteps, Callers, Contexts
  <2>2. Leaving' = Leaving
    BY <1>1 DEF Leaving
  <2> QED BY <2>1, <2>2
<1>7. JoinOf(c) \in Joining /\ Joining' = Joining \ {JoinOf(c)}
  BY <1>1, WaitIsOver DEF WaitingSteps
<1>8. JoinOf(c).thread = t /\ JoinOf(c).activation = n
  BY DEF JoinOf
<1>9. Promise!Joined(JoinOf(c))
  BY <1>2, <1>4, <1>5, <1>6, <1>7, <1>8 DEF Promise!Joined
<1> QED BY <1>7, <1>9

\* A Join that runs out of budget, is interrupted or whose wait fails is given up.
LEMMA GiveUpPromised ==
  ASSUME TypeOK, NEW c \in Callers, pc[c] \in WaitingSteps, Goto(c, "join-leave"),
         UNCHANGED <<lifecycle, visited, control, activations, executing, call>>
  PROVE  \E j \in Joining : Promise!GiveUp(j)
<1>1. /\ \A d \in Callers \ {c} : pc'[d] = pc[d]
      /\ pc'[c] = "join-leave"
  BY DEF Goto, TypeOK
<1>2. UNCHANGED <<EndedActivations, Asked, Retired>>
  BY DEF EndedActivations, Asked, Retired, StopApplied
<1>3. Inside' = Inside
  BY <1>1 DEF Inside, InCallable, CallableSteps, JoinSteps, RegisteredSteps, WaitingSteps, Callers,
     Contexts
<1>4. JoinOf(c) \in Joining /\ Joining' = Joining \ {JoinOf(c)}
  BY <1>1, WaitIsOver DEF WaitingSteps
<1>5. Leaving' = Leaving \cup {JoinOf(c).caller}
  BY <1>1 DEF Leaving, JoinOf
<1>6. Promise!GiveUp(JoinOf(c))
  BY <1>2, <1>3, <1>4, <1>5 DEF Promise!GiveUp
<1> QED BY <1>4, <1>6

LEMMA LeavePromised ==
  ASSUME TypeOK, NEW c \in Callers, JoinLeaves(c)
  PROVE  Promise!Leave(c)
<1>1. /\ \A d \in Callers \ {c} : pc'[d] = pc[d] /\ call'[d] = call[d]
      /\ pc'[c] = "user" /\ pc[c] = "join-leave"
  BY DEF JoinLeaves, Return, Goto, TypeOK
<1>2. UNCHANGED <<lifecycle, visited, control, activations, executing>>
  BY DEF JoinLeaves, shutdownVars, historyVars
<1>3. UNCHANGED <<EndedActivations, Asked, Retired>>
  BY <1>2 DEF EndedActivations, Asked, Retired, StopApplied
<1>4. Inside' = Inside
  BY <1>1 DEF Inside, InCallable, CallableSteps, JoinSteps, RegisteredSteps, Callers, Contexts
<1>5. Joining' = Joining
  <2>1. {d \in Callers : pc'[d] \in WaitingSteps} = {d \in Callers : pc[d] \in WaitingSteps}
    BY <1>1 DEF WaitingSteps
  <2>2. \A d \in {e \in Callers : pc[e] \in WaitingSteps} : JoinOf(d)' = JoinOf(d)
    BY <1>1 DEF WaitingSteps, JoinOf
  <2> QED BY <2>1, <2>2 DEF Joining, JoinOf
<1>6. c \in Leaving /\ Leaving' = Leaving \ {c}
  BY <1>1 DEF Leaving
<1> QED BY <1>2, <1>3, <1>4, <1>5, <1>6 DEF Promise!Leave

\* Shutdown goes on to its next phase: what it has reached before it has reached still.
LEMMA ShutdownUnseen ==
  ASSUME TypeOK, ShutdownProgress,
         \/ BeginShutdown \/ ShutdownApplied \/ BeginFinalize \/ FinalizeShutdown
         \/ \E t \in Threads : PollQuiescence(t) \/ FinalizeWakes(t)
  PROVE  UNCHANGED Promise!promised
<1>1. UNCHANGED <<control, pc, call, activations, executing>>
  BY DEF BeginShutdown, ShutdownApplied, BeginFinalize, FinalizeShutdown, PollQuiescence,
         FinalizeWakes, historyVars
<1>2. \A t \in Threads : StopApplied(t)' <=> StopApplied(t)
  BY DEF BeginShutdown, ShutdownApplied, BeginFinalize, FinalizeShutdown, PollQuiescence,
         FinalizeWakes, StopApplied, ShutdownProgress
<1>3. UNCHANGED <<Inside, Joining, Leaving>>
  BY <1>1, CallersSeen
<1> QED BY <1>1, <1>2, <1>3, ThreadsSeen DEF Promise!promised

\* Every step keeps the promise or is not seen in it.
LEMMA NextPromised ==
  IInv /\ Joins /\ ThreadsNumbered /\ [Next]_vars => [Promise!Next]_(Promise!promised)
<1> SUFFICES ASSUME TypeOK, OperationsOK, ActivationIsCurrent, ShutdownProgress, JoinsCaptured,
                    ThreadsNumbered, [Next]_vars
             PROVE  [Promise!Next]_(Promise!promised)
  BY DEF IInv, Joins
<1> USE DEF shutdownVars, historyVars
<1>a. \A t \in Threads : t \in Callers
  BY DEF Callers, Contexts
<1>1. ASSUME NEW t \in Threads, TrampolineReadsLifecycle(t) \/ TrampolineWakes(t)
      PROVE  UNCHANGED Promise!promised
  <2>1. PICK step \in {"exited", "inspect", "loop"} : Goto(t, step)
    BY <1>1 DEF TrampolineReadsLifecycle, TrampolineWakes
  <2>2. /\ \A d \in Callers \ {t} : pc'[d] = pc[d] /\ call'[d] = call[d]
        /\ pc'[t] = step /\ pc[t] \in {"loop", "idle"}
    BY <1>1, <1>a, <2>1 DEF TrampolineReadsLifecycle, TrampolineWakes, Goto, TypeOK
  <2>3. UNCHANGED <<lifecycle, visited, control, activations, executing>>
    BY <1>1 DEF TrampolineReadsLifecycle, TrampolineWakes
  <2> QED BY <1>a, <2>2, <2>3, Unseen
      DEF Busy, CallableSteps, WaitingSteps, JoinSteps, RegisteredSteps
<1>2. ASSUME NEW t \in Threads, TrampolineInspects(t) PROVE [Promise!Next]_(Promise!promised)
  BY <1>2, InspectionPromised DEF Promise!Next
<1>3. ASSUME NEW t \in Threads, CallableReturns(t) PROVE Promise!Next
  BY <1>3, ReturnPromised DEF Promise!Next
<1>4. ASSUME NEW t \in Threads, PublishStopped(t) PROVE Promise!Next
  BY <1>4, StopPromised DEF Promise!Next
<1>5. ASSUME NEW c \in Callers, NEW t, NEW budget,
             BeginStart(c, t) \/ BeginContextWait(c, budget) \/ BeginJoin(c, t, budget)
      PROVE  UNCHANGED Promise!promised
  <2>1. PICK step \in {"start", "wait-asleep", "join"} : Goto(c, step)
    BY <1>5 DEF BeginStart, BeginContextWait, BeginJoin
  <2>2. /\ \A d \in Callers \ {c} : pc'[d] = pc[d] /\ call'[d] = call[d]
        /\ pc'[c] = step /\ pc[c] = "user"
    BY <1>5, <2>1 DEF BeginStart, BeginContextWait, BeginJoin, Goto, TypeOK
  <2>3. UNCHANGED <<lifecycle, visited, control, activations, executing>>
    BY <1>5 DEF BeginStart, BeginContextWait, BeginJoin
  <2> QED BY <2>2, <2>3, Unseen
      DEF Busy, CallableSteps, WaitingSteps, JoinSteps, RegisteredSteps
<1>6. ASSUME NEW c \in Callers,
             StartChecks(c) \/ StartFails(c) \/ ContextWaitEnds(c) \/ JoinFindsStopped(c)
      PROVE  UNCHANGED Promise!promised
  <2>1. \/ Return(c)
        \/ Goto(c, "activate") /\ UNCHANGED call
    BY <1>6 DEF StartChecks, StartFails, ContextWaitEnds, JoinFindsStopped
  <2>2. /\ \A d \in Callers \ {c} : pc'[d] = pc[d] /\ call'[d] = call[d]
        /\ pc'[c] \in {"user", "activate"}
    BY <2>1 DEF Return, Goto, TypeOK
  <2>3. pc[c] \in {"start", "activate", "wait-asleep", "join"}
    BY <1>6 DEF StartChecks, StartFails, ContextWaitEnds, JoinFindsStopped
  <2>4. UNCHANGED <<lifecycle, visited, control, activations, executing>>
    BY <1>6 DEF StartChecks, StartFails, ContextWaitEnds, JoinFindsStopped
  <2> QED BY <2>2, <2>3, <2>4, Unseen
      DEF Busy, CallableSteps, WaitingSteps, JoinSteps, RegisteredSteps
<1>7. ASSUME NEW c \in Callers, StartActivates(c) PROVE Promise!Next
  <2>1. call[c].target \in Threads
    BY <1>7 DEF StartActivates, OperationsOK, HasTarget
  <2> QED BY <1>7, <2>1, StartPromised DEF Promise!Next
<1>8. ASSUME NEW c \in Callers, JoinRegisters(c) PROVE Promise!Next
  <2>1. call[c].target \in Threads
    BY <1>8 DEF JoinRegisters, OperationsOK, HasTarget, JoinSteps
  <2> QED BY <1>8, <2>1, RegistrationPromised DEF Promise!Next
<1>9. ASSUME NEW c \in Callers, JoinSucceeds(c) PROVE Promise!Next
  BY <1>9, JoinedPromised DEF Promise!Next
<1>10. ASSUME NEW c \in Callers, JoinLeaves(c) PROVE Promise!Next
  BY <1>10, LeavePromised DEF Promise!Next
<1>11. ASSUME NEW c \in Callers,
              JoinWakes(c) \/ JoinExpires(c) \/ JoinContinues(c) \/ JoinSettles(c)
       PROVE  [Promise!Next]_(Promise!promised)
  <2>1. PICK step \in {"join-asleep", "join-woken", "join-settle", "join-leave"} : Goto(c, step)
    BY <1>11 DEF JoinWakes, JoinExpires, JoinContinues, JoinSettles
  <2>2. pc[c] \in WaitingSteps
    BY <1>11 DEF JoinWakes, JoinExpires, JoinContinues, JoinSettles, WaitingSteps
  <2>3. UNCHANGED <<lifecycle, visited, control, activations, executing, call>>
    BY <1>11 DEF JoinWakes, JoinExpires, JoinContinues, JoinSettles
  <2>4. CASE step = "join-leave"
    BY <2>1, <2>2, <2>3, <2>4, GiveUpPromised DEF Promise!Next
  <2>5. CASE step # "join-leave"
    <3>1. /\ \A d \in Callers \ {c} : pc'[d] = pc[d] /\ call'[d] = call[d]
          /\ pc'[c] = step
      BY <2>1, <2>3 DEF Goto, TypeOK
    <3>2. pc'[c] \in WaitingSteps
      BY <2>5, <3>1 DEF WaitingSteps
    <3>3. WaitingSteps \subseteq Busy /\ "join-leave" \notin WaitingSteps
      BY DEF Busy, CallableSteps, WaitingSteps, JoinSteps, RegisteredSteps
    <3> QED BY <2>2, <2>3, <3>1, <3>2, <3>3, Unseen
  <2> QED BY <2>4, <2>5
<1>12. ASSUME NEW t \in Threads, RequestStop(t) PROVE Promise!Next
  BY <1>12, AskPromised DEF Promise!Next
<1>13. ASSUME NEW t \in Threads, ShutdownStops(t) PROVE Promise!Next
  BY <1>13, RetirePromised DEF Promise!Next
<1>14. ASSUME NEW c \in Contexts, Wake(c) PROVE UNCHANGED Promise!promised
  <2>1. UNCHANGED <<lifecycle, visited, control, activations, executing, pc, call>>
    BY <1>14 DEF Wake
  <2>2. \A t \in Threads : StopApplied(t)' <=> StopApplied(t)
    BY <2>1 DEF StopApplied
  <2> QED BY <2>1, <2>2, ThreadsSeen, CallersSeen DEF Promise!promised
<1>15. ASSUME \/ BeginShutdown \/ ShutdownApplied \/ BeginFinalize \/ FinalizeShutdown
              \/ \E t \in Threads : PollQuiescence(t) \/ FinalizeWakes(t)
       PROVE  UNCHANGED Promise!promised
  BY <1>15, ShutdownUnseen
<1>16. CASE UNCHANGED vars
  <2>1. \A t \in Threads : StopApplied(t)' <=> StopApplied(t)
    BY <1>16 DEF vars, StopApplied
  <2> QED BY <1>16, <2>1, ThreadsSeen, CallersSeen DEF vars, Promise!promised
<1> QED
  BY <1>a, <1>1, <1>2, <1>3, <1>4, <1>5, <1>6, <1>7, <1>8, <1>9, <1>10, <1>11, <1>12, <1>13,
     <1>14, <1>15, <1>16, ThreadAssumption
     DEF Next, Trampoline, Proceed, Request, ShutdownStep

\* The Dedicated Threads keep what ThreadActivations promises: one activation after the
\* other, one callable each, none after shutdown, and Joined only for what has ended.
THEOREM ThreadImplementsActivations == Spec => ImplementsActivations
<1>1. IInv /\ Joins /\ ThreadsNumbered /\ [Next]_vars => [Promise!Next]_(Promise!promised)
  BY NextPromised
<1> QED
  BY <1>1, InitPromised, ThreadInvariantHolds, JoinsHold, ActivationsNumbered, PTL
     DEF Spec, ImplementsActivations, Promise!Spec

-----------------------------------------------------------------------------
(* The mutexes. Only StartActivation keeps one from one step to the next.  *)

\* Whoever holds the mutex of a thread is about to activate that thread.
HoldersActivate ==
  \A t \in Threads : lock[t] # None =>
     lock[t] \in Callers /\ pc[lock[t]] = "activate" /\ call[lock[t]].target = t

\* A step that moves a caller from elsewhere leaves the holders where they are.
LEMMA HoldersStay ==
  ASSUME TypeOK, HoldersActivate, NEW c \in Callers, pc[c] # "activate",
         \A d \in Callers \ {c} : pc'[d] = pc[d] /\ call'[d] = call[d],
         UNCHANGED lock
  PROVE  HoldersActivate'
BY DEF HoldersActivate

LEMMA NextHolders == IInv /\ HoldersActivate /\ [Next]_vars => HoldersActivate'
<1> SUFFICES ASSUME TypeOK, OperationsOK, HoldersActivate, [Next]_vars
             PROVE  HoldersActivate'
  BY DEF IInv
<1>a. \A t \in Threads : t \in Callers
  BY DEF Callers, Contexts
<1>1. ASSUME NEW t \in Threads, Trampoline(t) \/ CallableReturns(t) PROVE HoldersActivate'
  <2>1. PICK step : Goto(t, step)
    BY <1>1 DEF Trampoline, TrampolineReadsLifecycle, TrampolineInspects, TrampolineWakes,
       PublishStopped, CallableReturns
  <2>2. pc[t] # "activate" /\ UNCHANGED <<lock, call>>
    BY <1>1 DEF Trampoline, TrampolineReadsLifecycle, TrampolineInspects, TrampolineWakes,
       PublishStopped, CallableReturns
  <2> QED BY <1>a, <2>1, <2>2, HoldersStay DEF Goto, TypeOK
<1>2. ASSUME NEW c \in Callers, NEW t, NEW budget,
             BeginStart(c, t) \/ BeginContextWait(c, budget) \/ BeginJoin(c, t, budget)
      PROVE  HoldersActivate'
  <2>1. \A d \in Callers \ {c} : pc'[d] = pc[d] /\ call'[d] = call[d]
    BY <1>2 DEF BeginStart, BeginContextWait, BeginJoin, Goto, TypeOK
  <2> QED BY <1>2, <2>1, HoldersStay DEF BeginStart, BeginContextWait, BeginJoin
<1>3. ASSUME NEW c \in Callers, StartChecks(c) PROVE HoldersActivate'
  <2> DEFINE t == call[c].target
  <2>1. t \in Threads /\ pc[c] = "start" /\ lock[t] = None
    BY <1>3 DEF StartChecks, OperationsOK, HasTarget
  <2>2. CASE Return(c) /\ UNCHANGED lock
    <3>1. \A d \in Callers \ {c} : pc'[d] = pc[d] /\ call'[d] = call[d]
      BY <2>2 DEF Return, Goto, TypeOK
    <3> QED BY <2>1, <2>2, <3>1, HoldersStay
  <2>3. CASE Goto(c, "activate") /\ lock' = [lock EXCEPT ![t] = c] /\ UNCHANGED call
    <3>1. /\ \A d \in Callers \ {c} : pc'[d] = pc[d]
          /\ pc'[c] = "activate"
      BY <2>3 DEF Goto, TypeOK
    <3>2. lock'[t] = c /\ \A u \in Threads \ {t} : lock'[u] = lock[u]
      BY <2>1, <2>3 DEF TypeOK
    <3> QED BY <2>1, <2>3, <3>1, <3>2 DEF HoldersActivate
  <2> QED BY <1>3, <2>2, <2>3 DEF StartChecks
<1>4. ASSUME NEW c \in Callers, StartActivates(c) \/ StartFails(c) PROVE HoldersActivate'
  <2> DEFINE t == call[c].target
  <2>1. t \in Threads /\ lock[t] = c
    BY <1>4 DEF StartActivates, StartFails, OperationsOK, HasTarget
  <2>2. Return(c) /\ lock' = [lock EXCEPT ![t] = None]
    BY <1>4 DEF StartActivates, StartFails
  <2>3. \A d \in Callers \ {c} : pc'[d] = pc[d] /\ call'[d] = call[d]
    BY <2>2 DEF Return, Goto, TypeOK
  <2>4. lock'[t] = None /\ \A u \in Threads \ {t} : lock'[u] = lock[u] /\ lock[u] # c
    <3>1. \A u \in Threads \ {t} : lock[u] # c
      BY <2>1, ThreadAssumption DEF HoldersActivate
    <3> QED BY <2>1, <2>2, <3>1 DEF TypeOK
  <2> QED BY <2>3, <2>4 DEF HoldersActivate
<1>5. ASSUME NEW c \in Callers,
             \/ ContextWaitEnds(c) \/ JoinFindsStopped(c) \/ JoinRegisters(c) \/ JoinWakes(c)
             \/ JoinExpires(c) \/ JoinSucceeds(c) \/ JoinContinues(c) \/ JoinSettles(c)
             \/ JoinLeaves(c)
      PROVE  HoldersActivate'
  <2>1. PICK step : Goto(c, step)
    BY <1>5 DEF ContextWaitEnds, JoinFindsStopped, JoinRegisters, JoinWakes, JoinExpires,
       JoinSucceeds, JoinContinues, JoinSettles, JoinLeaves, Return
  <2>2. pc[c] # "activate" /\ UNCHANGED lock
    BY <1>5 DEF ContextWaitEnds, JoinFindsStopped, JoinRegisters, JoinWakes, JoinExpires,
       JoinSucceeds, JoinContinues, JoinSettles, JoinLeaves
  <2>3. \A d \in Callers \ {c} : call'[d] = call[d]
    BY <1>5 DEF ContextWaitEnds, JoinFindsStopped, JoinRegisters, JoinWakes, JoinExpires,
       JoinSucceeds, JoinContinues, JoinSettles, JoinLeaves, Return, TypeOK
  <2> QED BY <2>1, <2>2, <2>3, HoldersStay DEF Goto, TypeOK
<1>6. ASSUME UNCHANGED <<lock, pc, call>> PROVE HoldersActivate'
  BY <1>6 DEF HoldersActivate
<1>7. ASSUME NEW t \in Threads,
             RequestStop(t) \/ ShutdownStops(t) \/ PollQuiescence(t) \/ FinalizeWakes(t)
      PROVE  HoldersActivate'
  BY <1>6, <1>7 DEF RequestStop, ShutdownStops, PollQuiescence, FinalizeWakes
<1>8. ASSUME \/ BeginShutdown \/ ShutdownApplied \/ BeginFinalize \/ FinalizeShutdown
             \/ \E c \in Contexts : Wake(c)
             \/ UNCHANGED vars
      PROVE  HoldersActivate'
  BY <1>6, <1>8
     DEF BeginShutdown, ShutdownApplied, BeginFinalize, FinalizeShutdown, Wake, vars
<1> QED
  BY <1>a, <1>1, <1>2, <1>3, <1>4, <1>5, <1>7, <1>8, ThreadAssumption
     DEF Next, Proceed, Request, ShutdownStep

\* No mutex of a thread is kept by a caller that waits for anything: its holder is in the
\* middle of an activation, whose next step asks for nothing, and it holds no other.
NoMutexIsKept ==
  \A t \in Threads : lock[t] # None =>
     \E c \in Callers :
        /\ lock[t] = c /\ pc[c] = "activate"
        /\ \A u \in Threads : lock[u] = c => u = t

THEOREM MutexesAreReleased == Spec => []NoMutexIsKept
<1>1. Init => HoldersActivate
  BY DEF Init, HoldersActivate
<1>2. IInv /\ HoldersActivate /\ [Next]_vars => HoldersActivate'
  BY NextHolders
<1>3. HoldersActivate => NoMutexIsKept
  BY ThreadAssumption DEF HoldersActivate, NoMutexIsKept
<1> QED BY <1>1, <1>2, <1>3, ThreadInvariantHolds, PTL DEF Spec
=============================================================================
