------------------------ MODULE PulseManagerProofs ------------------------
(***************************************************************************)
(* Proofs about PulseManager, for any sets of threads, devices, sinks and  *)
(* module indexes, any matching of devices and sinks, and every fault.     *)
(***************************************************************************)
EXTENDS PulseManager, TLAPS

-----------------------------------------------------------------------------
(* Types, and the target of an operation *)

\* The two go together: what an operation loads is the target it resolved.
TypeInv == TypeOK /\ Aimed /\ Addressed

\* Initially the types are right and nobody has a target.
LEMMA TypeInit == Init => TypeInv
<1> SUFFICES ASSUME Init PROVE TypeInv
  OBVIOUS
<1>1. ServerTypeOK
  BY ServerAssumption DEF Init, ServerInit, ServerTypeOK
<1>2. TypeOK
  BY <1>1 DEF Init, TypeOK, PcLabels, Phases
<1>3. Aimed /\ Addressed
  BY DEF Init, Aimed, Addressed, DeviceOps
<1> QED
  BY <1>2, <1>3 DEF TypeInv

\* A goroutine's call of the manager keeps the types.
LEMMA TypeCall ==
  ASSUME TypeInv, NEW t \in Threads, AnyCall(t)
  PROVE  TypeInv'
<1> USE ManagerAssumption
    DEF TypeInv, TypeOK, ServerTypeOK, Aimed, Addressed, DeviceOps, PcLabels, Phases,
        Goto, callVars, serverVars, statusVars, outputVars, recordVars, localVars
<1>1. ASSUME NEW o \in Ops, NEW d \in Devices \cup {NoDevice}, Call(t, o, d),
             o \in DeviceOps => d \in Devices
      PROVE  TypeInv'
  BY <1>1 DEF Call
<1> QED
  BY <1>1 DEF AnyCall

\* A step of an operation keeps the types.
LEMMA TypeStep ==
  ASSUME TypeInv, NEW t \in Threads, OpStep(t)
  PROVE  TypeInv'
<1> USE ManagerAssumption, ServerAssumption
    DEF TypeInv, TypeOK, ServerTypeOK, Aimed, Addressed, DeviceOps, PcLabels, Goto,
        Fail, callVars, serverVars, statusVars, outputVars, recordVars, localVars,
        managerVars
<1>1. CASE Lock(t)
  BY <1>1 DEF Lock
<1>2. CASE Unlock(t)
  BY <1>2 DEF Unlock
<1>3. CASE List(t)
  BY <1>3 DEF List, ReadSinks, AfterRefresh, AfterListing
<1>4. CASE Scan(t)
  BY <1>4 DEF Scan, ReadSinks, Outputs, Loopbacks, Stale
<1>5. CASE Sweep(t)
  BY <1>5 DEF Sweep, UnloadModule, UnloadModuleFails, ModuleKinds
<1>6. CASE Swept(t)
  BY <1>6 DEF Swept
<1>7. CASE Create(t)
  BY <1>7 DEF Create, LoadModule, ModuleKinds
<1>8. CASE ListingFails(t)
  BY <1>8 DEF ListingFails
<1>9. CASE LoadFails(t)
  BY <1>9 DEF LoadFails
<1>10. CASE LoadIsLost(t)
  BY <1>10 DEF LoadIsLost, LoadModule, ModuleKinds
<1>11. CASE Resolve(t)
  BY <1>11 DEF Resolve, ResolvesTo, Compare
<1>12. CASE ResolveFails(t)
  BY <1>12 DEF ResolveFails
<1>13. CASE Drop(t)
  BY <1>13 DEF Drop, UnloadModule, UnloadModuleFails, ModuleKinds
<1>14. CASE Clean(t)
  BY <1>14 DEF Clean, LoopbacksTo, Loopbacks
<1>15. CASE CleanOne(t)
  BY <1>15 DEF CleanOne, UnloadModule, ModuleKinds
<1>16. CASE CleanFails(t)
  BY <1>16 DEF CleanFails, UnloadModuleFails
<1>17. CASE Cleaned(t)
  BY <1>17 DEF Cleaned
<1>18. CASE Load(t)
  BY <1>18 DEF Load, LoadModule, ModuleKinds
<1>19. CASE Record(t)
  BY <1>19 DEF Record
<1>20. CASE Forget(t)
  <2>1. PICK s \in Sinks \cup {NoSink} :
          /\ target' = [target EXCEPT ![t] = s]
          /\ \/ Goto(t, "unload")
             \/ Released(t, s)
    BY <1>20 DEF Forget
  <2>2. /\ pc' \in [Threads -> PcLabels]
        /\ res' \in [Threads -> {"ok", "err"}]
        /\ \A u \in Threads \ {t} : pc'[u] = pc[u] /\ target'[u] = target[u]
        /\ pc'[t] \in {"unload", "unlock", "clean"}
        /\ pc'[t] = "clean" => s \in Sinks
    BY <2>1 DEF Released
  <2> QED
    BY <1>20, <2>1, <2>2 DEF Forget, ForgetRoute
<1>21. CASE Unload(t)
  <2>1. modules' \in [Ids -> ModuleKinds]
    BY <1>21 DEF Unload, UnloadModule, ModuleKinds
  <2>2. /\ pc' \in [Threads -> PcLabels]
        /\ res' \in [Threads -> {"ok", "err"}]
        /\ \A u \in Threads \ {t} : pc'[u] = pc[u]
        /\ pc'[t] \in {"unlock", "clean"}
        /\ pc'[t] = "clean" => target[t] \in Sinks
    BY <1>21 DEF Unload, Released
  <2> QED
    BY <1>21, <2>1, <2>2 DEF Unload
<1>22. CASE UnloadFails(t)
  BY <1>22 DEF UnloadFails, UnloadModuleFails
<1>23. CASE Adjust(t)
  BY <1>23 DEF Adjust
<1>24. CASE AdjustFails(t)
  BY <1>24 DEF AdjustFails
<1> QED
  BY <1>1, <1>2, <1>3, <1>4, <1>5, <1>6, <1>7, <1>8, <1>9, <1>10, <1>11,
     <1>12, <1>13, <1>14, <1>15, <1>16, <1>17, <1>18, <1>19, <1>20, <1>21,
     <1>22, <1>23, <1>24
  DEF OpStep

\* A step of the cleanup keeps the types.
LEMMA TypeStop ==
  ASSUME TypeInv, NEW t \in Threads, StopStep(t)
  PROVE  TypeInv'
<1> USE ManagerAssumption, ServerAssumption
    DEF TypeInv, TypeOK, ServerTypeOK, Aimed, Addressed, DeviceOps, PcLabels, Goto,
        callVars, serverVars, statusVars, outputVars, recordVars, localVars, managerVars
<1>1. CASE Collect(t)
  BY <1>1 DEF Collect, Collected, Recorded
<1>2. CASE Release(t)
  BY <1>2 DEF Release, UnloadModule, UnloadModuleFails, ModuleKinds
<1>3. CASE ReleaseOutput(t)
  BY <1>3 DEF ReleaseOutput, UnloadModule, UnloadModuleFails, ModuleKinds
<1> QED
  BY <1>1, <1>2, <1>3 DEF StopStep

\* The next daemon starts with the right types.
LEMMA TypeRestart ==
  ASSUME TypeInv, Restart
  PROVE  TypeInv'
<1>1. TypeOK'
  BY DEF Restart, TypeInv, TypeOK, ServerTypeOK, serverVars, PcLabels, Phases
<1>2. Aimed' /\ Addressed'
  BY DEF Restart, Aimed, Addressed, DeviceOps
<1> QED
  BY <1>1, <1>2 DEF TypeInv

\* The end of a call keeps the types.
LEMMA TypeFinish ==
  ASSUME TypeInv, NEW t \in Threads, Finish(t)
  PROVE  TypeInv'
BY DEF Finish, TypeInv, TypeOK, ServerTypeOK, Aimed, Addressed, DeviceOps,
       PcLabels, Phases, serverVars, statusVars, outputVars, recordVars

\* So does whatever the server does by itself.
LEMMA TypeServer ==
  ASSUME TypeInv, ServerActs
  PROVE  TypeInv'
<1>1. ServerTypeOK'
  BY DEF ServerActs, ServerStep, SinkAppears, SinkDisappears, ModuleVanishes,
         ForeignLoads, LoadModule, UnloadModule, ServerTypeOK, ModuleKinds,
         TypeInv, TypeOK
<1> QED
  BY <1>1
  DEF ServerActs, TypeInv, TypeOK, Aimed, Addressed, statusVars, outputVars,
      recordVars, callVars, localVars, managerVars

\* Every step keeps the types.
LEMMA TypeNext == TypeInv /\ [Next]_vars => TypeInv'
<1> SUFFICES ASSUME TypeInv, [Next]_vars
             PROVE  TypeInv'
  OBVIOUS
<1>1. CASE UNCHANGED vars
  BY <1>1
  DEF TypeInv, TypeOK, ServerTypeOK, Aimed, Addressed, vars, serverVars,
      statusVars, outputVars, recordVars, callVars, localVars, managerVars
<1> QED
  BY <1>1, TypeCall, TypeStep, TypeStop, TypeRestart, TypeFinish, TypeServer
  DEF Next

\* The manager's state has the types of TypeOK.
THEOREM TypeCorrect == Spec => []TypeOK
<1>1. TypeInv => TypeOK
  BY DEF TypeInv
<1> QED
  BY <1>1, TypeInit, TypeNext, PTL DEF Spec

-----------------------------------------------------------------------------
(* Mutual exclusion *)

Unrouting == {"forget", "unload", "clean", "cleaning", "unlock"}

\* The thread of a step keeps opMu and its operation, and the step moves no
\* other thread.
Inside(t) ==
  /\ opMu' = opMu
  /\ op' = op
  /\ pc[t] \in Critical
  /\ pc'[t] \in Critical
  /\ op[t] = "unroute" /\ pc[t] \in Unrouting => pc'[t] \in Unrouting
  /\ \A u \in Threads \ {t} : pc'[u] = pc[u]

\* Every step of an operation but its first and its last is inside the lock.
LEMMA StepInside ==
  ASSUME TypeInv, NEW t \in Threads, OpStep(t), ~Lock(t), ~Unlock(t)
  PROVE  Inside(t)
<1> USE DEF Inside, Unrouting, Critical, TypeInv, TypeOK, PcLabels, Goto, Fail,
        callVars, managerVars
<1>1. CASE List(t)
  BY <1>1 DEF List, ReadSinks, AfterRefresh, AfterListing
<1>2. CASE Scan(t)
  BY <1>2 DEF Scan
<1>3. CASE Sweep(t)
  BY <1>3 DEF Sweep
<1>4. CASE Swept(t)
  BY <1>4 DEF Swept
<1>5. CASE Create(t)
  BY <1>5 DEF Create
<1>6. CASE ListingFails(t)
  BY <1>6 DEF ListingFails
<1>7. CASE LoadFails(t)
  BY <1>7 DEF LoadFails
<1>8. CASE LoadIsLost(t)
  BY <1>8 DEF LoadIsLost
<1>9. CASE Resolve(t)
  BY <1>9 DEF Resolve, Compare
<1>10. CASE ResolveFails(t)
  BY <1>10 DEF ResolveFails
<1>11. CASE Drop(t)
  BY <1>11 DEF Drop
<1>12. CASE Clean(t)
  BY <1>12 DEF Clean
<1>13. CASE CleanOne(t)
  BY <1>13 DEF CleanOne
<1>14. CASE CleanFails(t)
  BY <1>14 DEF CleanFails
<1>15. CASE Cleaned(t)
  BY <1>15 DEF Cleaned
<1>16. CASE Load(t)
  BY <1>16 DEF Load
<1>17. CASE Record(t)
  BY <1>17 DEF Record
<1>18. CASE Forget(t)
  BY <1>18 DEF Forget, Released
<1>19. CASE Unload(t)
  BY <1>19 DEF Unload, Released
<1>20. CASE UnloadFails(t)
  BY <1>20 DEF UnloadFails
<1>21. CASE Adjust(t)
  BY <1>21 DEF Adjust
<1>22. CASE AdjustFails(t)
  BY <1>22 DEF AdjustFails
<1> QED
  BY <1>1, <1>2, <1>3, <1>4, <1>5, <1>6, <1>7, <1>8, <1>9, <1>10,
     <1>11, <1>12, <1>13, <1>14, <1>15, <1>16, <1>17, <1>18, <1>19,
     <1>20, <1>21, <1>22
  DEF OpStep

\* A step of the cleanup is outside the lock.
LEMMA StopOutside ==
  ASSUME TypeInv, NEW t \in Threads, StopStep(t)
  PROVE  /\ opMu' = opMu /\ op' = op
         /\ pc[t] \in {"collect", "release"}
         /\ pc'[t] \in {"release", "done"}
         /\ \A u \in Threads \ {t} : pc'[u] = pc[u]
BY DEF StopStep, Collect, Release, ReleaseOutput, Goto, TypeInv, TypeOK, PcLabels,
       callVars, managerVars

\* opMu is held by the thread inside, and Unroute keeps to its steps.
LockInv == TypeInv /\ Exclusive /\ UnrouteSteps

\* Initially nobody holds opMu.
LEMMA LockInit == Init => LockInv
BY TypeInit, ManagerAssumption
DEF Init, LockInv, Exclusive, UnrouteSteps, Critical

\* Every step keeps the lock's discipline.
LEMMA LockNext == LockInv /\ [Next]_vars => LockInv'
<1> SUFFICES ASSUME LockInv, [Next]_vars
             PROVE  LockInv'
  OBVIOUS
<1> USE ManagerAssumption DEF LockInv, Exclusive, UnrouteSteps, Critical, Unrouting
<1>1. TypeInv'
  BY TypeNext
<1>2. ASSUME NEW t \in Threads, OpStep(t), ~Lock(t), ~Unlock(t)
      PROVE  LockInv'
  BY <1>1, <1>2, StepInside DEF Inside
<1>3. ASSUME NEW t \in Threads, Lock(t)
      PROVE  LockInv'
  BY <1>1, <1>3 DEF Lock, CanLock, Goto, callVars, TypeInv, TypeOK, PcLabels
<1>4. ASSUME NEW t \in Threads, Unlock(t)
      PROVE  LockInv'
  BY <1>1, <1>4 DEF Unlock, Goto, callVars, TypeInv, TypeOK, PcLabels
<1>5. ASSUME NEW t \in Threads, AnyCall(t)
      PROVE  LockInv'
  <2>1. PICK o \in Ops, d \in Devices \cup {NoDevice} : Call(t, o, d)
    BY <1>5 DEF AnyCall
  <2> QED
    BY <1>1, <2>1 DEF Call, Goto, TypeInv, TypeOK, PcLabels
<1>6. ASSUME NEW t \in Threads, Finish(t)
      PROVE  LockInv'
  BY <1>1, <1>6 DEF Finish, TypeInv, TypeOK, PcLabels
<1>7. CASE ServerActs
  BY <1>1, <1>7 DEF ServerActs, managerVars, callVars
<1>8. CASE UNCHANGED vars
  BY <1>1, <1>8 DEF vars, managerVars, callVars
<1>9. ASSUME NEW t \in Threads, StopStep(t)
      PROVE  LockInv'
  BY <1>1, <1>9, StopOutside DEF PcLabels
<1>10. CASE Restart
  BY <1>1, <1>10 DEF Restart
<1> QED
  BY <1>2, <1>3, <1>4, <1>5, <1>6, <1>7, <1>8, <1>9, <1>10 DEF Next

-----------------------------------------------------------------------------
(* What a cleanup, a load and an Unroute find at the sink *)

\* CleanupComplete, RouteLoadsAlone and UnrouteSilences of one thread.
Quiet(t) ==
  /\ pc[t] = "cleaning" => Feeding(target[t]) \subseteq todo[t]
  /\ pc[t] = "load" /\ op[t] # "resume" => Feeding(target[t]) = {}
  /\ Returns(t, "unroute") /\ target[t] # NoSink => Feeding(target[t]) = {}

\* A step of t's own operation.
LEMMA QuietStep ==
  ASSUME LockInv, NEW t \in Threads, Quiet(t), OpStep(t)
  PROVE  Quiet(t)'
<1> USE ManagerAssumption, ServerAssumption
    DEF Quiet, Returns, Feeding, LockInv, UnrouteSteps, Critical, PcLabels,
        TypeInv, TypeOK, ServerTypeOK, Aimed, Goto, Fail, callVars, serverVars, localVars,
        managerVars
<1>1. CASE List(t)
  BY <1>1 DEF List, AfterRefresh, AfterListing
<1>2. CASE Scan(t)
  BY <1>2 DEF Scan
<1>3. CASE Sweep(t)
  BY <1>3 DEF Sweep
<1>4. CASE Swept(t)
  BY <1>4 DEF Swept
<1>5. CASE Create(t)
  BY <1>5 DEF Create
<1>6. CASE ListingFails(t)
  BY <1>6 DEF ListingFails
<1>7. CASE LoadFails(t)
  BY <1>7 DEF LoadFails
<1>8. CASE LoadIsLost(t)
  BY <1>8 DEF LoadIsLost
<1>9. CASE Resolve(t)
  BY <1>9 DEF Resolve, Compare
<1>10. CASE ResolveFails(t)
  BY <1>10 DEF ResolveFails
<1>11. CASE Drop(t)
  BY <1>11 DEF Drop
<1>12. CASE Clean(t)
  BY <1>12 DEF Clean, LoopbacksTo, Loopbacks
<1>13. CASE CleanOne(t)
  BY <1>13 DEF CleanOne, UnloadModule
<1>14. CASE CleanFails(t)
  BY <1>14 DEF CleanFails
<1>15. CASE Cleaned(t)
  BY <1>15 DEF Cleaned
<1>16. CASE Load(t)
  BY <1>16 DEF Load
<1>17. CASE Record(t)
  BY <1>17 DEF Record
<1>18. CASE Forget(t)
  BY <1>18 DEF Forget, Released
<1>19. CASE Unload(t)
  BY <1>19 DEF Unload, Released
<1>20. CASE UnloadFails(t)
  BY <1>20 DEF UnloadFails
<1>21. CASE Lock(t)
  BY <1>21 DEF Lock
<1>22. CASE Unlock(t)
  BY <1>22 DEF Unlock
<1>23. CASE Adjust(t)
  BY <1>23, StepInside DEF Adjust, Inside, Addressed, DeviceOps
<1>24. CASE AdjustFails(t)
  BY <1>24 DEF AdjustFails
<1> QED
  BY <1>1, <1>2, <1>3, <1>4, <1>5, <1>6, <1>7, <1>8, <1>9, <1>10,
     <1>11, <1>12, <1>13, <1>14, <1>15, <1>16, <1>17, <1>18, <1>19,
     <1>20, <1>21, <1>22, <1>23, <1>24
  DEF OpStep

\* Another thread's step: the one inside is t, so u is outside.
LEMMA QuietOthers ==
  ASSUME LockInv, NEW t \in Threads, NEW u \in Threads \ {t},
         OpStep(t) \/ AnyCall(t) \/ Finish(t), Quiet(u)
  PROVE  Quiet(u)'
<1> USE DEF Quiet, Returns
<1>1. CASE OpStep(t) /\ ~Unlock(t)
  <2>1. opMu' = t /\ t \in Threads
    BY <1>1, StepInside DEF Lock, Inside, LockInv, Exclusive
  <2>2. LockInv'
    BY <1>1, LockNext DEF Next
  <2> QED
    BY <2>1, <2>2 DEF LockInv, Exclusive, Critical, PcLabels
<1>2. CASE Unlock(t)
  <2>1. opMu' = NoThread
    BY <1>2 DEF Unlock
  <2>2. LockInv'
    BY <1>2, LockNext DEF Next, OpStep
  <2> QED
    BY <2>1, <2>2, ManagerAssumption DEF LockInv, Exclusive, Critical, PcLabels
<1>3. CASE AnyCall(t)
  <2>1. PICK o \in Ops, d \in Devices \cup {NoDevice} : Call(t, o, d)
    BY <1>3 DEF AnyCall
  <2> QED
    BY <2>1 DEF Call, Goto, Feeding, serverVars, localVars, LockInv, TypeInv, TypeOK
<1>4. CASE Finish(t)
  BY <1>4 DEF Finish, Feeding, serverVars, LockInv, TypeInv, TypeOK
<1> QED
  BY <1>1, <1>2, <1>3, <1>4 DEF OpStep

\* A call, the end of a call and the server add no loopback.
LEMMA QuietElse ==
  ASSUME LockInv, NEW u \in Threads, Quiet(u),
         ServerActs \/ AnyCall(u) \/ Finish(u) \/ UNCHANGED vars
  PROVE  Quiet(u)'
<1> USE DEF Quiet, Returns
<1>1. CASE AnyCall(u)
  <2>1. PICK o \in Ops, d \in Devices \cup {NoDevice} : Call(u, o, d)
    BY <1>1 DEF AnyCall
  <2> QED
    BY <2>1 DEF Call, Goto, LockInv, TypeInv, TypeOK
<1>2. CASE Finish(u)
  BY <1>2 DEF Finish, LockInv, TypeInv, TypeOK
<1>3. CASE ServerActs
  <2>1. \A s \in Sinks : Feeding(s)' \subseteq Feeding(s)
    BY <1>3, ServerAssumption
    DEF ServerActs, ServerStep, SinkAppears, SinkDisappears, ModuleVanishes,
        ForeignLoads, LoadModule, UnloadModule, Feeding, LockInv, TypeInv,
        TypeOK, ServerTypeOK
  <2>2. pc[u] = "cleaning" \/ pc[u] = "load" => target[u] \in Sinks
    BY DEF LockInv, TypeInv, Aimed
  <2>3. target[u] # NoSink => target[u] \in Sinks
    BY DEF LockInv, TypeInv, TypeOK
  <2> QED
    BY <1>3, <2>1, <2>2, <2>3 DEF ServerActs, callVars, localVars
<1>4. CASE UNCHANGED vars
  BY <1>4 DEF vars, callVars, localVars, serverVars, Feeding
<1> QED
  BY <1>1, <1>2, <1>3, <1>4

\* The cleanup at the end of the daemon only unloads.
LEMMA QuietStop ==
  ASSUME LockInv, NEW t \in Threads, NEW u \in Threads, StopStep(t), Quiet(u)
  PROVE  Quiet(u)'
<1> USE DEF LockInv, TypeInv, TypeOK, ServerTypeOK
<1>1. \A s \in Sinks : Feeding(s)' \subseteq Feeding(s)
  BY ServerAssumption
  DEF StopStep, Collect, Release, ReleaseOutput, UnloadModule, UnloadModuleFails,
      serverVars, Feeding
<1>2. CASE u = t
  BY <1>2, StopOutside DEF Quiet, Returns
<1>3. CASE u # t
  <2>1. /\ pc'[u] = pc[u] /\ target'[u] = target[u] /\ todo'[u] = todo[u]
        /\ op'[u] = op[u] /\ res'[u] = res[u]
    BY <1>3, StopOutside
    DEF StopStep, Collect, Release, ReleaseOutput, Goto, localVars, callVars
  <2>2. pc[u] = "cleaning" \/ pc[u] = "load" => target[u] \in Sinks
    BY DEF Aimed
  <2> QED
    BY <1>1, <2>1, <2>2 DEF Quiet, Returns
<1> QED
  BY <1>2, <1>3

\* Every step keeps every thread's cleanup, load and Unroute right.
LEMMA QuietNext ==
  LockInv /\ (\A u \in Threads : Quiet(u)) /\ [Next]_vars
    => \A u \in Threads : Quiet(u)'
<1> SUFFICES ASSUME LockInv, \A u \in Threads : Quiet(u), [Next]_vars,
                    NEW u \in Threads
             PROVE  Quiet(u)'
  OBVIOUS
<1>1. ASSUME NEW t \in Threads, AnyCall(t) \/ OpStep(t) \/ Finish(t)
      PROVE  Quiet(u)'
  BY <1>1, QuietStep, QuietOthers, QuietElse
<1>2. CASE ServerActs \/ UNCHANGED vars
  BY <1>2, QuietElse
<1>3. ASSUME NEW t \in Threads, StopStep(t)
      PROVE  Quiet(u)'
  BY <1>3, QuietStop
<1>4. CASE Restart
  BY <1>4 DEF Restart, Quiet, Returns
<1> QED
  BY <1>1, <1>2, <1>3, <1>4 DEF Next

\* ManagerInv is LockInv and Quiet for every thread.
LEMMA ManagerInvParts ==
  ManagerInv <=> LockInv /\ \A u \in Threads : Quiet(u)
BY DEF ManagerInv, LockInv, TypeInv, Quiet, CleanupComplete, RouteLoadsAlone,
       UnrouteSilences

\* The inductive invariant of the manager holds, whatever fails.
THEOREM ManagerInvariant == Spec => []ManagerInv
<1>1. Init => ManagerInv
  <2>1. Init => \A u \in Threads : Quiet(u)
    BY DEF Init, Quiet, Returns
  <2> QED
    BY <2>1, LockInit, ManagerInvParts
<1>2. ManagerInv /\ [Next]_vars => ManagerInv'
  <2>1. LockInv' /\ (\A u \in Threads : Quiet(u)') => ManagerInv'
    BY DEF ManagerInv, LockInv, TypeInv, Quiet, CleanupComplete,
           RouteLoadsAlone, UnrouteSilences
  <2> QED
    BY <2>1, LockNext, QuietNext, ManagerInvParts
<1> QED
  BY <1>1, <1>2, PTL DEF Spec

\* When Unroute of a device with a sink returns without an error, nothing
\* feeds the sink.
THEOREM UnrouteIsSilent == Spec => []UnrouteSilences
<1>1. ManagerInv => UnrouteSilences
  BY DEF ManagerInv
<1> QED
  BY <1>1, ManagerInvariant, PTL

-----------------------------------------------------------------------------
(* One loopback per sink *)

\* Resume is never called.
NeverResumes == \A t \in Threads : op[t] # "resume"

\* Without Resume among the operations, no step starts one.
LEMMA NeverResumesNext ==
  ASSUME "resume" \notin Ops, ManagerInv, NeverResumes, [Next]_vars
  PROVE  NeverResumes'
<1> USE DEF NeverResumes, ManagerInv, TypeOK
<1>1. ASSUME NEW t \in Threads, OpStep(t)
      PROVE  NeverResumes'
  BY <1>1, StepInside, ManagerInvParts
  DEF Inside, LockInv, Lock, Unlock, callVars
<1>2. ASSUME NEW t \in Threads, AnyCall(t)
      PROVE  NeverResumes'
  <2>1. PICK o \in Ops, d \in Devices \cup {NoDevice} : Call(t, o, d)
    BY <1>2 DEF AnyCall
  <2> QED
    BY <2>1 DEF Call
<1>3. ASSUME NEW t \in Threads, Finish(t)
      PROVE  NeverResumes'
  BY <1>3 DEF Finish
<1>4. CASE ServerActs \/ UNCHANGED vars
  BY <1>4 DEF ServerActs, vars, callVars
<1>5. ASSUME NEW t \in Threads, StopStep(t)
      PROVE  NeverResumes'
  BY <1>5, StopOutside, ManagerInvParts DEF LockInv
<1>6. CASE Restart
  BY <1>6 DEF Restart
<1> QED
  BY <1>1, <1>2, <1>3, <1>4, <1>5, <1>6 DEF Next

\* A loopback is loaded only into a sink that nothing feeds.
LEMMA OneLoopbackStep ==
  ASSUME ManagerInv, NeverResumes, OneLoopbackPerSink,
         NEW t \in Threads, OpStep(t)
  PROVE  OneLoopbackPerSink'
<1> USE ServerAssumption
    DEF OneLoopbackPerSink, Loopbacks, ManagerInv, TypeOK, ServerTypeOK
<1>1. ASSUME NEW i \in Ids, UnloadModule(i)
      PROVE  OneLoopbackPerSink'
  BY <1>1 DEF UnloadModule
<1>2. ASSUME NEW i \in Ids, NEW s \in Sinks, LoadModule(i, s), Feeding(s) = {}
      PROVE  OneLoopbackPerSink'
  BY <1>2 DEF LoadModule, Feeding
<1>3. ASSUME NEW i \in Ids, LoadModule(i, Output)
      PROVE  OneLoopbackPerSink'
  BY <1>3 DEF LoadModule
<1>4. ASSUME modules' = modules
      PROVE  OneLoopbackPerSink'
  BY <1>4
<1>5. CASE Load(t) \/ LoadIsLost(t)
  <2>1. pc[t] = "load" => target[t] \in Sinks /\ Feeding(target[t]) = {}
    BY DEF Aimed, RouteLoadsAlone, NeverResumes
  <2> QED
    BY <1>2, <1>3, <1>5, <2>1 DEF Load, LoadIsLost
<1>6. CASE Create(t)
  BY <1>3, <1>6 DEF Create
<1>7. CASE Sweep(t)
  BY <1>1, <1>4, <1>7 DEF Sweep, UnloadModuleFails
<1>8. CASE CleanOne(t)
  BY <1>1, <1>8 DEF CleanOne
<1>9. CASE Drop(t)
  BY <1>1, <1>4, <1>9 DEF Drop, UnloadModule, UnloadModuleFails
<1>10. CASE Unload(t)
  BY <1>1, <1>10 DEF Unload, UnloadModule
<1>11. CASE \/ Lock(t) \/ Unlock(t) \/ List(t) \/ Scan(t) \/ Swept(t)
            \/ ListingFails(t) \/ LoadFails(t) \/ Resolve(t)
            \/ ResolveFails(t) \/ Clean(t) \/ CleanFails(t) \/ Cleaned(t)
            \/ Record(t) \/ Forget(t) \/ UnloadFails(t)
            \/ Adjust(t) \/ AdjustFails(t)
  BY <1>4, <1>11
  DEF Lock, Unlock, List, Scan, Swept, ListingFails, LoadFails, Resolve,
      ResolveFails, Clean, CleanFails, Cleaned, Record, Forget, UnloadFails,
      Adjust, AdjustFails, UnloadModuleFails, serverVars
<1> QED
  BY <1>5, <1>6, <1>7, <1>8, <1>9, <1>10, <1>11 DEF OpStep

\* Neither the callers nor the server load a loopback.
LEMMA OneLoopbackElse ==
  ASSUME ManagerInv, OneLoopbackPerSink,
         \/ ServerActs
         \/ \E t \in Threads : AnyCall(t) \/ StopStep(t) \/ Finish(t)
         \/ Restart \/ UNCHANGED vars
  PROVE  OneLoopbackPerSink'
<1>1. CASE ServerActs
  BY <1>1, ServerAssumption
  DEF ServerActs, ServerStep, SinkAppears, SinkDisappears, ModuleVanishes,
      ForeignLoads, LoadModule, UnloadModule, OneLoopbackPerSink, Loopbacks,
      ManagerInv, TypeOK, ServerTypeOK
<1>2. CASE \E t \in Threads : AnyCall(t) \/ Finish(t)
  BY <1>2
  DEF AnyCall, Call, Finish, serverVars, OneLoopbackPerSink, Loopbacks
<1>3. CASE Restart \/ UNCHANGED vars
  BY <1>3 DEF Restart, vars, serverVars, OneLoopbackPerSink, Loopbacks
<1>4. ASSUME NEW t \in Threads, StopStep(t)
      PROVE  OneLoopbackPerSink'
  BY <1>4, ServerAssumption
  DEF StopStep, Collect, Release, ReleaseOutput, UnloadModule, UnloadModuleFails,
      serverVars, OneLoopbackPerSink, Loopbacks, ManagerInv, TypeOK, ServerTypeOK
<1> QED
  BY <1>1, <1>2, <1>3, <1>4

\* If Resume is never called and an earlier daemon left no sink with two
\* loopbacks, no sink ever has two, whatever fails and whatever devices match.
THEOREM OneLoopback ==
  ASSUME "resume" \notin Ops,
         \A m \in Leftover : \A i, j \in Ids :
           m[i] \in Sinks /\ m[i] = m[j] => i = j
  PROVE  Spec => []OneLoopbackPerSink
<1>1. Init => NeverResumes /\ OneLoopbackPerSink
  BY DEF Init, ServerInit, NeverResumes, OneLoopbackPerSink, Loopbacks
<1>2. ManagerInv /\ NeverResumes /\ OneLoopbackPerSink /\ [Next]_vars
        => NeverResumes' /\ OneLoopbackPerSink'
  BY NeverResumesNext, OneLoopbackStep, OneLoopbackElse DEF Next
<1> QED
  BY <1>1, <1>2, ManagerInvariant, PTL DEF Spec

-----------------------------------------------------------------------------
(* The sweep of stale loopbacks *)

\* An output sink is loaded only where there is none, so an output module whose
\* index an old record still names is the only one, and the sweep keeps it.
SweepInv ==
  /\ \A i, j \in Outputs : i \in Recorded => i = j
  /\ \A t \in Threads :
       /\ pc[t] = "create" => Outputs = {}
       /\ pc[t] = "sweep" /\ ~outputExists => Outputs = {}
       /\ pc[t] = "record" => module[t] \in Ids \ Outputs
  /\ SweepSparesRecorded

LEMMA SweepInit == Init => SweepInv
BY DEF Init, SweepInv, SweepSparesRecorded, Recorded

\* A step of an operation.
LEMMA SweepStep ==
  ASSUME ManagerInv, SweepInv, NEW t \in Threads, OpStep(t)
  PROVE  SweepInv'
<1> USE ManagerAssumption, ServerAssumption
    DEF SweepInv, SweepSparesRecorded, ManagerInv, TypeOK, ServerTypeOK, Outputs, Recorded,
        Exclusive, Critical, PcLabels, Goto, Fail, serverVars, statusVars, outputVars,
        recordVars, managerVars, callVars, localVars
<1>1. CASE Lock(t)
  BY <1>1 DEF Lock
<1>2. CASE Unlock(t)
  BY <1>2 DEF Unlock
<1>3. CASE List(t)
  BY <1>3 DEF List, ReadSinks, AfterRefresh, AfterListing
<1>4. CASE Scan(t)
  <2>1. PICK keep : /\ Outputs # {} => keep \in Outputs
                    /\ todo' = [todo EXCEPT ![t] = (Outputs \ {keep}) \cup Stale]
    BY <1>4 DEF Scan
  <2>2. Outputs' = Outputs /\ Recorded' = Recorded
    BY <1>4 DEF Scan
  <2>3. ((Outputs \ {keep}) \cup Stale) \cap Recorded = {}
    BY <2>1 DEF Stale
  <2>4. /\ pc' = [pc EXCEPT ![t] = IF pc[t] = "scan" THEN "sweep" ELSE "resweep"]
        /\ outputExists' = (Outputs # {})
        /\ pc[t] \in {"scan", "rescan"}
        /\ module' = module
    BY <1>4 DEF Scan, ReadSinks
  <2> HIDE DEF Outputs, Recorded
  <2>5. SweepSparesRecorded'
    BY <2>1, <2>2, <2>3, <2>4
  <2> QED
    BY <2>2, <2>4, <2>5
<1>5. CASE Sweep(t)
  BY <1>5 DEF Sweep, UnloadModule, UnloadModuleFails
<1>6. CASE Swept(t)
  BY <1>6 DEF Swept
<1>7. CASE Create(t)
  BY <1>7 DEF Create, LoadModule
<1>8. CASE ListingFails(t)
  BY <1>8 DEF ListingFails
<1>9. CASE LoadFails(t)
  BY <1>9 DEF LoadFails
<1>10. CASE LoadIsLost(t)
  BY <1>10 DEF LoadIsLost, LoadModule, Aimed
<1>11. CASE Resolve(t)
  BY <1>11 DEF Resolve, Compare
<1>12. CASE ResolveFails(t)
  BY <1>12 DEF ResolveFails
<1>13. CASE Drop(t)
  BY <1>13 DEF Drop, UnloadModule, UnloadModuleFails
<1>14. CASE Clean(t)
  BY <1>14 DEF Clean
<1>15. CASE CleanOne(t)
  BY <1>15 DEF CleanOne, UnloadModule
<1>16. CASE CleanFails(t)
  BY <1>16 DEF CleanFails, UnloadModuleFails
<1>17. CASE Cleaned(t)
  BY <1>17 DEF Cleaned
<1>18. CASE Load(t)
  BY <1>18 DEF Load, LoadModule, Aimed
<1>19. CASE Record(t)
  BY <1>19 DEF Record
<1>20. CASE Forget(t)
  BY <1>20 DEF Forget, ForgetRoute, Released
<1>21. CASE Unload(t)
  BY <1>21 DEF Unload, UnloadModule, Released
<1>22. CASE UnloadFails(t)
  BY <1>22 DEF UnloadFails, UnloadModuleFails
<1>23. CASE Adjust(t)
  BY <1>23 DEF Adjust
<1>24. CASE AdjustFails(t)
  BY <1>24 DEF AdjustFails
<1> QED
  BY <1>1, <1>2, <1>3, <1>4, <1>5, <1>6, <1>7, <1>8, <1>9, <1>10, <1>11, <1>12,
     <1>13, <1>14, <1>15, <1>16, <1>17, <1>18, <1>19, <1>20, <1>21, <1>22, <1>23,
     <1>24
  DEF OpStep

\* The other steps.
LEMMA SweepElse ==
  ASSUME ManagerInv, SweepInv,
         \/ ServerActs
         \/ \E t \in Threads : AnyCall(t) \/ StopStep(t) \/ Finish(t)
         \/ Restart \/ UNCHANGED vars
  PROVE  SweepInv'
<1> USE ManagerAssumption, ServerAssumption
    DEF SweepInv, SweepSparesRecorded, ManagerInv, TypeOK, ServerTypeOK, Outputs, Recorded,
        PcLabels, Goto, serverVars, statusVars, outputVars, recordVars, managerVars,
        callVars, localVars
<1>1. CASE ServerActs
  BY <1>1 DEF ServerActs, ServerStep, SinkAppears, SinkDisappears, ModuleVanishes,
              ForeignLoads, LoadModule, UnloadModule
<1>2. ASSUME NEW t \in Threads, AnyCall(t)
      PROVE  SweepInv'
  <2>1. PICK o \in Ops, d \in Devices \cup {NoDevice} : Call(t, o, d)
    BY <1>2 DEF AnyCall
  <2> QED
    BY <2>1 DEF Call
<1>3. ASSUME NEW t \in Threads, Collect(t)
      PROVE  SweepInv'
  BY <1>3 DEF Collect
<1>4. ASSUME NEW t \in Threads, Release(t) \/ ReleaseOutput(t)
      PROVE  SweepInv'
  BY <1>4 DEF Release, ReleaseOutput, UnloadModule, UnloadModuleFails
<1>5. ASSUME NEW t \in Threads, Finish(t)
      PROVE  SweepInv'
  BY <1>5 DEF Finish
<1>6. CASE Restart
  BY <1>6 DEF Restart
<1>7. CASE UNCHANGED vars
  BY <1>7 DEF vars
<1> QED
  BY <1>1, <1>2, <1>3, <1>4, <1>5, <1>6, <1>7 DEF StopStep

\* Whatever fails, the sweep never unloads the loopback of a known route.
THEOREM SweepIsSafe == Spec => []SweepSparesRecorded
<1>1. ManagerInv /\ SweepInv /\ [Next]_vars => SweepInv'
  BY SweepStep, SweepElse DEF Next
<1>2. SweepInv => SweepSparesRecorded
  BY DEF SweepInv
<1> QED
  BY <1>1, <1>2, SweepInit, ManagerInvariant, PTL DEF Spec

-----------------------------------------------------------------------------
(* Where each operation can be *)

Ensuring == {"scan", "sweep", "create", "rescan", "resweep"}

\* The operations that take each step, and where ensureOutputSink returns to.
Way(t) ==
  /\ pc[t] \in Ensuring => (ret[t] = "resolve" <=> op[t] \in {"route", "resume"})
  /\ pc[t] \in {"resolve", "load", "record"} => op[t] \in {"route", "resume"}
  /\ pc[t] = "drop" => op[t] = "route"
  /\ pc[t] \in {"clean", "cleaning"} => op[t] \in {"route", "unroute"}
  /\ pc[t] = "unload" => op[t] \in {"unroute", "pause"}
  /\ pc[t] = "adjust" => op[t] = "adjust"
  /\ op[t] = "cleanup" => pc[t] \in {"collect", "release", "done"}

\* A step of an operation goes on as that operation does.
LEMMA WayStep ==
  ASSUME LockInv, NEW t \in Threads, Way(t), OpStep(t)
  PROVE  Way(t)'
<1> USE DEF Way, Ensuring, LockInv, TypeInv, TypeOK, Addressed, DeviceOps, PcLabels,
            Goto, Fail, callVars, localVars
<1>1. CASE Lock(t) \/ Unlock(t)
  BY <1>1 DEF Lock, Unlock
<1>2. CASE List(t)
  BY <1>2 DEF List, AfterRefresh, AfterListing
<1>3. CASE Scan(t) \/ Sweep(t) \/ Swept(t) \/ Create(t)
  BY <1>3 DEF Scan, Sweep, Swept, Create
<1>4. CASE ListingFails(t) \/ LoadFails(t) \/ LoadIsLost(t)
  BY <1>4 DEF ListingFails, LoadFails, LoadIsLost
<1>5. CASE Resolve(t)
  BY <1>5 DEF Resolve, Compare
<1>6. CASE ResolveFails(t) \/ Drop(t) \/ Clean(t) \/ CleanOne(t) \/ CleanFails(t)
  BY <1>6 DEF ResolveFails, Drop, Clean, CleanOne, CleanFails
<1>7. CASE Cleaned(t) \/ Load(t) \/ Record(t)
  BY <1>7 DEF Cleaned, Load, Record
<1>8. CASE Forget(t)
  BY <1>8 DEF Forget, Released
<1>9. CASE Unload(t) \/ UnloadFails(t)
  BY <1>9 DEF Unload, UnloadFails, Released
<1>10. CASE Adjust(t) \/ AdjustFails(t)
  BY <1>10 DEF Adjust, AdjustFails
<1> QED
  BY <1>1, <1>2, <1>3, <1>4, <1>5, <1>6, <1>7, <1>8, <1>9, <1>10 DEF OpStep

\* So does every step.
LEMMA WayNext ==
  LockInv /\ (\A u \in Threads : Way(u)) /\ [Next]_vars => \A u \in Threads : Way(u)'
<1> SUFFICES ASSUME LockInv, \A u \in Threads : Way(u), [Next]_vars,
                    NEW u \in Threads
             PROVE  Way(u)'
  OBVIOUS
<1> USE DEF LockInv, TypeInv, TypeOK
<1>1. ASSUME NEW t \in Threads, OpStep(t)
      PROVE  Way(u)'
  <2>1. CASE t = u
    BY <1>1, <2>1, WayStep
  <2>2. CASE t # u
    <3>1. pc'[u] = pc[u] /\ op' = op /\ (opMu' = t \/ opMu = t)
      BY <1>1, <2>2, StepInside
      DEF Inside, Lock, Unlock, Goto, callVars, Exclusive, Critical, PcLabels
    <3>2. LockInv'
      BY <1>1, LockNext DEF Next
    <3>3. pc[u] \notin Critical
      BY <2>2, <3>1, <3>2 DEF Exclusive
    <3> QED
      BY <3>1, <3>3 DEF Way, Ensuring, Critical, PcLabels
  <2> QED
    BY <2>1, <2>2
<1>2. ASSUME NEW t \in Threads, AnyCall(t)
      PROVE  Way(u)'
  <2>1. PICK o \in Ops, d \in Devices \cup {NoDevice} : Call(t, o, d)
    BY <1>2 DEF AnyCall
  <2> QED
    BY <2>1 DEF Call, Goto, Way, Ensuring, localVars
<1>3. ASSUME NEW t \in Threads, Finish(t)
      PROVE  Way(u)'
  <2>1. /\ pc' = [pc EXCEPT ![t] = "idle"] /\ op' = [op EXCEPT ![t] = "none"]
        /\ ret' = [ret EXCEPT ![t] = "unlock"]
    BY <1>3 DEF Finish
  <2> QED
    BY <2>1 DEF Way, Ensuring
<1>4. ASSUME NEW t \in Threads, StopStep(t)
      PROVE  Way(u)'
  <2>1. ret' = ret
    BY <1>4 DEF StopStep, Collect, Release, ReleaseOutput, localVars
  <2> QED
    BY <1>4, <2>1, StopOutside DEF Way, Ensuring
<1>5. CASE ServerActs \/ UNCHANGED vars
  BY <1>5 DEF ServerActs, vars, callVars, localVars, Way, Ensuring
<1>6. CASE Restart
  BY <1>6 DEF Restart, Way, Ensuring
<1> QED
  BY <1>1, <1>2, <1>3, <1>4, <1>5, <1>6 DEF Next

-----------------------------------------------------------------------------
(* How far Start is *)

\* Start and cleanup are each called by one thread, and phase tells of them.
PhaseInv ==
  /\ \A t \in Threads :
       /\ op[t] = "start" => phase = "starting"
       /\ op[t] = "cleanup" => phase = "stopping"
       /\ pc[t] \in {"collect", "release"} => op[t] = "cleanup"
  /\ \A t, u \in Threads : op[t] \in {"start", "cleanup"} /\ op[u] = op[t] => t = u

LEMMA PhaseInit == Init => PhaseInv
BY DEF Init, PhaseInv

\* Every step keeps phase and the callers of Start and cleanup in agreement.
LEMMA PhaseNext == LockInv /\ PhaseInv /\ [Next]_vars => PhaseInv'
<1> SUFFICES ASSUME LockInv, PhaseInv, [Next]_vars
             PROVE  PhaseInv'
  OBVIOUS
<1> USE DEF PhaseInv, LockInv, TypeInv, TypeOK
<1>1. ASSUME NEW t \in Threads, OpStep(t)
      PROVE  PhaseInv'
  <2>1. op' = op /\ phase' = phase
    BY <1>1, StepInside
    DEF Inside, OpStep, Lock, Unlock, List, Scan, Sweep, Swept, Create, ListingFails,
        LoadFails, LoadIsLost, Resolve, ResolveFails, Drop, Clean, CleanOne, CleanFails,
        Cleaned, Load, Record, Forget, Unload, UnloadFails, Adjust, AdjustFails, callVars,
        managerVars
  <2>2. \A u \in Threads \ {t} : pc'[u] = pc[u]
    BY <1>1, StepInside DEF Inside, Lock, Unlock, Goto
  <2>3. pc'[t] \notin {"collect", "release"}
    BY <1>1, StepInside DEF Inside, Critical, Lock, Unlock, Goto
  <2> QED
    BY <2>1, <2>2, <2>3
<1>2. ASSUME NEW t \in Threads, AnyCall(t)
      PROVE  PhaseInv'
  <2>1. PICK o \in Ops, d \in Devices \cup {NoDevice} : Call(t, o, d)
    BY <1>2 DEF AnyCall
  <2>2. CASE o = "start"
    BY <2>1, <2>2 DEF Call, Goto
  <2>3. CASE o = "cleanup"
    BY <2>1, <2>3 DEF Call, Goto
  <2>4. CASE o \notin {"start", "cleanup"}
    BY <2>1, <2>4 DEF Call, Goto
  <2> QED
    BY <2>2, <2>3, <2>4
<1>3. ASSUME NEW t \in Threads, Finish(t)
      PROVE  PhaseInv'
  <2>1. /\ phase' = phase \/ op[t] = "start"
        /\ op' = [op EXCEPT ![t] = "none"]
        /\ pc' = [pc EXCEPT ![t] = "idle"]
    BY <1>3 DEF Finish
  <2> QED
    BY <2>1
<1>4. ASSUME NEW t \in Threads, StopStep(t)
      PROVE  PhaseInv'
  BY <1>4, StopOutside DEF StopStep, Collect, Release, ReleaseOutput, managerVars
<1>5. CASE ServerActs \/ UNCHANGED vars
  BY <1>5 DEF ServerActs, vars, managerVars, callVars
<1>6. CASE Restart
  BY <1>6 DEF Restart
<1> QED
  BY <1>1, <1>2, <1>3, <1>4, <1>5, <1>6 DEF Next

\* Every operation keeps to its steps, and phase tells how far Start is.
OrderInv == LockInv /\ (\A t \in Threads : Way(t)) /\ PhaseInv

LEMMA OrderInvariant == Spec => []OrderInv
<1>1. Init => \A t \in Threads : Way(t)
  BY DEF Init, Way, Ensuring
<1>2. (\A t \in Threads : Way(t)') => (\A t \in Threads : Way(t))'
  OBVIOUS
<1>3. OrderInv /\ [Next]_vars => OrderInv'
  BY <1>2, LockNext, WayNext, PhaseNext DEF OrderInv
<1> QED
  BY <1>1, <1>3, LockInit, PhaseInit, PTL DEF Spec, OrderInv
=============================================================================
