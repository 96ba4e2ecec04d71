--------------------------- MODULE RecordsProofs ---------------------------
(***************************************************************************)
(* Proofs about the loopbacks of PulseManager and its records of them:     *)
(* when every device has a sink of its own and no module goes away by      *)
(* itself, a record always names the loopback it was made for, whatever    *)
(* command fails, whichever module indexes the server gives out again and  *)
(* wherever the daemon is cut off; under which indexes alone the manager   *)
(* hits a module of another application; what Start has tidied up once it  *)
(* lists the targets; and that cleanup leaves no loopback behind that no   *)
(* operation next to it accounts for.                                      *)
(***************************************************************************)
EXTENDS PulseManagerProofs

\* A device matches one sink at most, and the pattern made of the name of that
\* sink fits no sink of another device.
OwnSinks ==
  \A d \in Devices : \A s \in Match[d] :
    /\ Match[d] = {s}
    /\ \A e \in Devices \ {d} : Match[e] \cap Extensions[s] = {}

\* Only the daemon unloads modules.
NoneVanish == "vanish" \notin Env

\* The daemon is not told to stop: cleanup unloads without opMu.
NeverStops == "cleanup" \notin Ops

-----------------------------------------------------------------------------
(* What an operation under way relies on *)

\* A device that has a record has it for its sink, so nothing is dropped, and
\* there is no cleanup.
Apart(t) == pc[t] \notin {"drop", "collect", "release"}

\* The target is the sink of the device.
OnTarget(t) ==
  /\ pc[t] \in {"clean", "cleaning", "load", "record"} => target[t] \in Match[dev[t]]
  /\ pc[t] = "unload" => target[t] \in Match[dev[t]] \cup {NoSink}

\* What is about to be unloaded is a module of TuxPlay, and of this device
\* unless it is swept.
Unloads(t) ==
  /\ pc[t] \in {"sweep", "resweep"} =>
       \A i \in todo[t] : modules[i] \in Sinks \cup {Output}
  /\ pc[t] = "cleaning" => \A i \in todo[t] : modules[i] \in Extensions[target[t]]
  /\ pc[t] = "unload" => module[t] \in Ids /\ modules[module[t]] \in Match[dev[t]]

\* Modules are unloaded once they are forgotten, and recorded once they are
\* loaded; a Route or Resume that returns without an error has a record.
Records(t) ==
  /\ pc[t] \in {"clean", "cleaning", "unload"} => routeModules[dev[t]] = NoModule
  /\ pc[t] = "record" => module[t] \in Ids /\ modules[module[t]] = target[t]
  /\ Returns(t, "route") \/ Returns(t, "resume") => AlreadyRouted(dev[t], target[t])

\* The record of a device names a loopback into the sink of the device.
RecordsOwn ==
  \A d \in Devices :
    routeModules[d] # NoModule =>
      modules[routeModules[d]] = routeSinks[d] /\ routeSinks[d] \in Match[d]

\* The inductive invariant, next to ManagerInv and SweepInv.
RecordsInv ==
  /\ RecordsOwn
  /\ \A t \in Threads : Apart(t) /\ OnTarget(t) /\ Unloads(t) /\ Records(t)

\* The same without the records: what holds of one thread.
Course(t) == Apart(t) /\ OnTarget(t) /\ Unloads(t) /\ Records(t)

LEMMA RecordsInit == Init => RecordsInv
BY DEF Init, RecordsInv, RecordsOwn, Apart, OnTarget, Unloads, Records, Returns

-----------------------------------------------------------------------------
(* Steps of an operation *)

\* A step of an operation keeps its own course.
LEMMA CourseStep ==
  ASSUME OwnSinks, OrderInv, RecordsOwn, NEW t \in Threads, Course(t), OpStep(t)
  PROVE  Course(t)'
<1>1. op[t] \in DeviceOps => dev[t] \in Devices /\ \A s \in Match[dev[t]] : Match[dev[t]] = {s}
  BY DEF OrderInv, LockInv, TypeInv, Addressed, OwnSinks
<1>2. pc[t] = "forget" => op[t] \in {"unroute", "pause"}
  BY DEF OrderInv, LockInv, TypeInv, Addressed
<1>0. LockInv /\ Way(t)
  BY DEF OrderInv
<1> USE <1>0, <1>1, <1>2, ManagerAssumption, ServerAssumption
    DEF Course, Apart, Way, OnTarget, Unloads, Records, RecordsOwn, AlreadyRouted,
        Returns, Ensuring, DeviceOps, LockInv, TypeInv, TypeOK, ServerTypeOK, PcLabels,
        Goto, Fail, callVars, serverVars, localVars, managerVars, recordVars
<1>3. CASE Lock(t)
  BY <1>3 DEF Lock
<1>4. CASE Unlock(t)
  BY <1>4 DEF Unlock
<1>5. CASE List(t)
  BY <1>5 DEF List, AfterRefresh, AfterListing
<1>6. CASE Scan(t)
  BY <1>6 DEF Scan, Outputs, Stale, Loopbacks
<1>7. CASE Sweep(t)
  BY <1>7 DEF Sweep, UnloadModule, UnloadModuleFails
<1>8. CASE Swept(t)
  BY <1>8 DEF Swept
<1>9. CASE Create(t)
  BY <1>9 DEF Create
<1>10. CASE ListingFails(t)
  BY <1>10 DEF ListingFails
<1>11. CASE LoadFails(t)
  BY <1>11 DEF LoadFails
<1>12. CASE LoadIsLost(t)
  BY <1>12 DEF LoadIsLost
<1>13. CASE Resolve(t)
  BY <1>13 DEF Resolve, ResolvesTo, Compare
<1>14. CASE ResolveFails(t)
  BY <1>14 DEF ResolveFails
<1>15. CASE Drop(t)
  BY <1>15 DEF Drop
<1>16. CASE Clean(t)
  BY <1>16 DEF Clean, LoopbacksTo
<1>17. CASE CleanOne(t)
  BY <1>17 DEF CleanOne, UnloadModule
<1>18. CASE CleanFails(t)
  BY <1>18 DEF CleanFails
<1>19. CASE Cleaned(t)
  BY <1>19 DEF Cleaned
<1>20. CASE Load(t)
  BY <1>20 DEF Load, LoadModule
<1>21. CASE Record(t)
  BY <1>21 DEF Record
<1>22. CASE Forget(t)
  BY <1>22 DEF Forget, ForgetRoute, ResolvesTo, Released
<1>23. CASE Unload(t)
  BY <1>23 DEF Unload, Released
<1>24. CASE UnloadFails(t)
  BY <1>24 DEF UnloadFails
<1>25. CASE Adjust(t)
  BY <1>25 DEF Adjust
<1>26. CASE AdjustFails(t)
  BY <1>26 DEF AdjustFails
<1> QED
  BY <1>3, <1>4, <1>5, <1>6, <1>7, <1>8, <1>9, <1>10, <1>11, <1>12, <1>13, <1>14,
     <1>15, <1>16, <1>17, <1>18, <1>19, <1>20, <1>21, <1>22, <1>23, <1>24, <1>25,
     <1>26
  DEF OpStep

\* The module a device's record names is kept as it is.
Kept(i) == modules'[i] = modules[i]

\* A step of an operation unloads no module that is on record.
LEMMA OwnStep ==
  ASSUME OwnSinks, OrderInv, RecordsOwn, SweepSparesRecorded,
         NEW t \in Threads, Course(t), OpStep(t)
  PROVE  RecordsOwn'
<1>1. op[t] \in DeviceOps => dev[t] \in Devices
  BY DEF OrderInv, LockInv, TypeInv, Addressed
<1>0. LockInv /\ Way(t)
  BY DEF OrderInv
<1> USE <1>0, <1>1, ManagerAssumption, ServerAssumption
    DEF Course, Apart, Way, DeviceOps, RecordsOwn, LockInv, TypeInv, TypeOK, ServerTypeOK, PcLabels,
        serverVars, localVars, managerVars, recordVars
<1>2. ASSUME recordVars' = recordVars, \A d \in Devices :
                routeModules[d] # NoModule => Kept(routeModules[d])
      PROVE  RecordsOwn'
  BY <1>2 DEF Kept
<1>3. CASE \/ Lock(t) \/ Unlock(t) \/ List(t) \/ Scan(t) \/ Swept(t)
           \/ ListingFails(t) \/ LoadFails(t) \/ Resolve(t) \/ ResolveFails(t)
           \/ Clean(t) \/ CleanFails(t) \/ Cleaned(t) \/ UnloadFails(t)
           \/ Adjust(t) \/ AdjustFails(t)
  BY <1>2, <1>3
  DEF Kept, Lock, Unlock, List, Scan, Swept, ListingFails, LoadFails, Resolve, ResolveFails,
      Clean, CleanFails, Cleaned, UnloadFails, Adjust, AdjustFails, UnloadModuleFails
<1>4. CASE Sweep(t)
  BY <1>2, <1>4 DEF Kept, Sweep, UnloadModule, UnloadModuleFails, SweepSparesRecorded, Recorded
<1>5. CASE Create(t)
  BY <1>2, <1>5 DEF Kept, Create, LoadModule
<1>6. CASE LoadIsLost(t)
  BY <1>2, <1>6 DEF Kept, LoadIsLost, LoadModule
<1>7. CASE Drop(t)
  BY <1>7 DEF Drop
<1>8. CASE CleanOne(t)
  BY <1>2, <1>8 DEF Kept, CleanOne, UnloadModule, Unloads, Records, OnTarget, OwnSinks
<1>9. CASE Load(t)
  BY <1>2, <1>9 DEF Kept, Load, LoadModule
<1>10. CASE Record(t)
  BY <1>10 DEF Record, Records, OnTarget
<1>11. CASE Forget(t)
  BY <1>11 DEF Forget, ForgetRoute
<1>12. CASE Unload(t)
  BY <1>2, <1>12 DEF Kept, Unload, UnloadModule, Unloads, Records, OwnSinks
<1> QED
  BY <1>3, <1>4, <1>5, <1>6, <1>7, <1>8, <1>9, <1>10, <1>11, <1>12 DEF OpStep

-----------------------------------------------------------------------------
(* The other steps *)

\* An operation's step finds every other thread outside the lock.
LEMMA CourseOthers ==
  ASSUME OrderInv, NEW t \in Threads, NEW u \in Threads \ {t}, Course(u),
         OpStep(t)
  PROVE  Course(u)'
<1>1. pc'[u] = pc[u] /\ (opMu' = t \/ opMu = t)
  BY StepInside DEF Lock, Unlock, Inside, Goto, OrderInv, LockInv, Exclusive,
                   TypeInv, TypeOK, Critical, PcLabels
<1>2. LockInv'
  BY LockNext DEF Next, OrderInv
<1>3. pc[u] \notin Critical
  BY <1>1, <1>2 DEF OrderInv, LockInv, Exclusive
<1>4. pc[u] \in {"idle", "lock", "done"}
  BY <1>3 DEF Critical, OrderInv, LockInv, TypeInv, TypeOK, PcLabels, Course, Apart
<1> QED
  BY <1>1, <1>4 DEF Course, Apart, OnTarget, Unloads, Records, Returns

\* The other steps leave the modules of TuxPlay as they are.
LEMMA RecordsElse ==
  ASSUME NoneVanish, NeverStops, OrderInv, RecordsInv,
         \/ ServerActs
         \/ \E t \in Threads : AnyCall(t) \/ StopStep(t) \/ Finish(t)
         \/ Restart \/ UNCHANGED vars
  PROVE  RecordsInv'
<1> USE ManagerAssumption, ServerAssumption
    DEF RecordsInv, RecordsOwn, OrderInv, LockInv, TypeInv, TypeOK, ServerTypeOK
<1>1. CASE ServerActs
  <2>1. \A i \in Ids : modules[i] # Free => modules'[i] = modules[i]
    BY <1>1 DEF ServerActs, ServerStep, SinkAppears, SinkDisappears, ModuleVanishes,
                ForeignLoads, LoadModule, NoneVanish
  <2>2. UNCHANGED <<managerVars, pc, callVars, localVars, res>>
    BY <1>1 DEF ServerActs
  <2>3. RecordsOwn'
    BY <2>1, <2>2 DEF managerVars, recordVars
  <2>4. ASSUME NEW u \in Threads
        PROVE  (Apart(u) /\ OnTarget(u) /\ Unloads(u) /\ Records(u))'
    <3>1. target[u] \in Sinks => Extensions[target[u]] \subseteq Sinks
      BY DEF TypeOK
    <3>2. pc[u] \in {"cleaning", "record"} => target[u] \in Sinks
      BY DEF Aimed
    <3>3. pc[u] = "unload" => modules[module[u]] \in Sinks
      BY DEF Unloads, Way, Addressed, DeviceOps
    <3>4. Unloads(u)'
      BY <2>1, <2>2, <3>1, <3>2, <3>3 DEF Unloads, localVars, callVars
    <3>5. Records(u)'
      BY <2>1, <2>2, <3>2
      DEF Records, Returns, AlreadyRouted, localVars, callVars, managerVars, recordVars
    <3> QED
      BY <2>2, <3>4, <3>5 DEF Apart, OnTarget, localVars, callVars
  <2> QED
    BY <2>3, <2>4
<1>2. ASSUME NEW t \in Threads, AnyCall(t)
      PROVE  RecordsInv'
  <2>1. PICK o \in Ops, d \in Devices \cup {NoDevice} : Call(t, o, d)
    BY <1>2 DEF AnyCall
  <2>2. /\ o # "cleanup"
        /\ UNCHANGED <<serverVars, recordVars, localVars, res>>
        /\ pc' = [pc EXCEPT ![t] = "lock"]
        /\ \A u \in Threads \ {t} : op'[u] = op[u] /\ dev'[u] = dev[u]
    BY <2>1 DEF Call, Goto, NeverStops
  <2>3. RecordsOwn'
    BY <2>2 DEF serverVars, recordVars
  <2>4. \A u \in Threads : (Apart(u) /\ OnTarget(u) /\ Unloads(u) /\ Records(u))'
    BY <2>2 DEF Apart, OnTarget, Unloads, Records, Returns, AlreadyRouted,
                serverVars, recordVars, localVars
  <2> QED
    BY <2>3, <2>4
<1>3. ASSUME NEW t \in Threads, Finish(t)
      PROVE  RecordsInv'
  <2>1. RecordsOwn'
    BY <1>3 DEF Finish, serverVars, recordVars
  <2>2. \A u \in Threads : (Apart(u) /\ OnTarget(u) /\ Unloads(u) /\ Records(u))'
    BY <1>3 DEF Finish, Apart, OnTarget, Unloads, Records, Returns, AlreadyRouted,
                serverVars, recordVars
  <2> QED
    BY <2>1, <2>2
<1>4. ASSUME NEW t \in Threads, StopStep(t)
      PROVE  FALSE
  BY <1>4, StopOutside DEF Apart
<1>5. CASE Restart
  <2>1. RecordsOwn'
    BY <1>5 DEF Restart
  <2>2. \A u \in Threads : (Apart(u) /\ OnTarget(u) /\ Unloads(u) /\ Records(u))'
    BY <1>5 DEF Restart, Apart, OnTarget, Unloads, Records, Returns
  <2> QED
    BY <2>1, <2>2
<1>6. CASE UNCHANGED vars
  BY <1>6 DEF vars, serverVars, managerVars, recordVars, callVars, localVars, Apart,
              OnTarget, Unloads, Records, Returns, AlreadyRouted
<1> QED
  BY <1>1, <1>2, <1>3, <1>4, <1>5, <1>6

\* Every step keeps the records right.
LEMMA RecordsNext ==
  ASSUME OwnSinks, NoneVanish, NeverStops
  PROVE  OrderInv /\ SweepSparesRecorded /\ RecordsInv /\ [Next]_vars => RecordsInv'
<1> SUFFICES ASSUME OrderInv, SweepSparesRecorded, RecordsInv, [Next]_vars
             PROVE  RecordsInv'
  OBVIOUS
<1>1. ASSUME NEW t \in Threads, OpStep(t)
      PROVE  RecordsInv'
  <2>1. RecordsOwn /\ \A u \in Threads : Course(u)
    BY DEF RecordsInv, Course
  <2>2. RecordsOwn'
    BY <1>1, <2>1, OwnStep
  <2>3. \A u \in Threads : Course(u)'
    BY <1>1, <2>1, CourseStep, CourseOthers
  <2> QED
    BY <2>2, <2>3 DEF RecordsInv, Course
<1> QED
  BY <1>1, RecordsElse DEF Next

\* What the manager relies on holds at every step.
LEMMA RecordsInvariant ==
  ASSUME OwnSinks, NoneVanish, NeverStops
  PROVE  Spec => [](OrderInv /\ RecordsInv)
<1> QED
  BY RecordsInit, RecordsNext, OrderInvariant, SweepIsSafe, PTL DEF Spec

-----------------------------------------------------------------------------
(* What a record promises *)

\* If every device has a sink of its own, modules do not go away by themselves
\* and the daemon is not told to stop, a record names a loopback that is
\* loaded and feeds the recorded sink, whatever command fails and wherever the
\* daemon crashes.
THEOREM RecordsAreLive ==
  ASSUME OwnSinks, NoneVanish, NeverStops
  PROVE  Spec => []RecordsLive
<1>1. RecordsInv => RecordsLive
  BY DEF RecordsInv, RecordsOwn, RecordsLive
<1> QED
  BY <1>1, RecordsInvariant, PTL

\* Under the same conditions a Route or Resume that returns without an error
\* has a loopback feed the sink it names, also when it trusted a record.
THEOREM RoutesSound ==
  ASSUME OwnSinks, NoneVanish, NeverStops
  PROVE  Spec => []RouteSounds
<1>1. OrderInv /\ RecordsInv => RouteSounds
  <2> SUFFICES ASSUME OrderInv, RecordsInv, NEW t \in Threads,
                      Returns(t, "route") \/ Returns(t, "resume")
               PROVE  Feeding(target[t]) # {}
    BY DEF RouteSounds
  <2>1. dev[t] \in Devices
    BY DEF OrderInv, LockInv, TypeInv, Addressed, DeviceOps, Returns
  <2>2. AlreadyRouted(dev[t], target[t])
    BY DEF RecordsInv, Records
  <2>3. routeModules[dev[t]] \in Ids
    BY <2>1, <2>2 DEF AlreadyRouted, OrderInv, LockInv, TypeInv, TypeOK
  <2> QED
    BY <2>1, <2>2, <2>3 DEF RecordsInv, RecordsOwn, AlreadyRouted, Feeding
<1> QED
  BY <1>1, RecordsInvariant, PTL

-----------------------------------------------------------------------------
(* The modules of other applications *)

\* Thread t has yet to unload or to record what is loaded under index i.
Holds(t, i) ==
  \/ pc[t] \in {"record", "unload", "drop", "release"} /\ module[t] = i
  \/ pc[t] \in {"sweep", "resweep", "cleaning", "release"} /\ i \in todo[t]

\* The manager does not keep index i.
Unkept(i) ==
  /\ \A d \in Devices : routeModules[d] # i
  /\ outputModuleID # i
  /\ \A t \in Threads : ~Holds(t, i)

LEMMA UnkeptMeans ==
  ASSUME NEW i \in Ids
  PROVE  /\ i \notin KeptIndexes <=> Unkept(i)
         /\ i \notin KeptIndexes' <=> Unkept(i)'
<1>1. i # NoModule
  BY ManagerAssumption
<1>2. i \notin KeptIndexes <=> Unkept(i)
  BY <1>1 DEF KeptIndexes, Unkept, Holds, Recorded
<1>3. i \notin KeptIndexes' <=> Unkept(i)'
  BY <1>1 DEF KeptIndexes, Unkept, Holds, Recorded
<1> QED
  BY <1>2, <1>3

\* A step leaves a foreign module under an index that is not kept as it is, and
\* does not begin to keep the index.
Leaves(i) == Unkept(i)' /\ modules'[i] = Foreign

\* So does a step of an operation: what it picks from the listings is not
\* foreign, what it loads has a free index, and what it unloads it has kept.
LEMMA StepSpares ==
  ASSUME OrderInv, NEW t \in Threads, OpStep(t),
         NEW i \in Ids, modules[i] = Foreign, Unkept(i)
  PROVE  Leaves(i)
<1>0. LockInv /\ Way(t)
  BY DEF OrderInv
<1>1. op[t] \in DeviceOps => dev[t] \in Devices
  BY <1>0 DEF LockInv, TypeInv, Addressed
<1>2. i # NoModule /\ Foreign \notin Sinks \cup {Output, Free}
  BY ManagerAssumption, ServerAssumption
<1> USE <1>0, <1>1, <1>2
    DEF Leaves, Unkept, Holds, Way, DeviceOps, LockInv, TypeInv, TypeOK, ServerTypeOK, PcLabels,
        Goto, Fail, callVars, serverVars, localVars, managerVars, recordVars, outputVars
<1>3. CASE Lock(t)
  BY <1>3 DEF Lock
<1>4. CASE Unlock(t)
  BY <1>4 DEF Unlock
<1>5. CASE List(t)
  BY <1>5 DEF List, AfterRefresh, AfterListing
<1>6. CASE Scan(t)
  BY <1>6 DEF Scan, Outputs, Stale, Loopbacks
<1>7. CASE Sweep(t)
  BY <1>7 DEF Sweep, UnloadModule, UnloadModuleFails
<1>8. CASE Swept(t)
  BY <1>8 DEF Swept
<1>9. CASE Create(t)
  BY <1>9 DEF Create, LoadModule
<1>10. CASE ListingFails(t) \/ LoadFails(t)
  BY <1>10 DEF ListingFails, LoadFails
<1>11. CASE LoadIsLost(t)
  BY <1>11 DEF LoadIsLost, LoadModule
<1>12. CASE Resolve(t)
  BY <1>12 DEF Resolve, Compare
<1>13. CASE ResolveFails(t)
  BY <1>13 DEF ResolveFails
<1>14. CASE Drop(t)
  BY <1>14 DEF Drop, UnloadModule, UnloadModuleFails
<1>15. CASE Clean(t)
  BY <1>15 DEF Clean, LoopbacksTo, Loopbacks
<1>16. CASE CleanOne(t)
  BY <1>16 DEF CleanOne, UnloadModule
<1>17. CASE CleanFails(t)
  BY <1>17 DEF CleanFails, UnloadModuleFails
<1>18. CASE Cleaned(t)
  <2>1. pc'[t] \in {"load", "unlock"} /\ \A u \in Threads \ {t} : pc'[u] = pc[u]
    BY <1>18 DEF Cleaned
  <2> QED
    BY <1>18, <2>1 DEF Cleaned
<1>19. CASE Load(t)
  BY <1>19 DEF Load, LoadModule
<1>20. CASE Record(t)
  BY <1>20 DEF Record
<1>21. CASE Forget(t)
  <2>1. /\ pc'[t] \in {"unload", "clean", "unlock"}
        /\ \A u \in Threads \ {t} : pc'[u] = pc[u]
    BY <1>21 DEF Forget, Released
  <2>2. /\ module' = [module EXCEPT ![t] = routeModules[dev[t]]]
        /\ UNCHANGED <<serverVars, outputVars, todo>>
    BY <1>21 DEF Forget
  <2>3. /\ dev[t] \in Devices
        /\ routeModules' = [routeModules EXCEPT ![dev[t]] = NoModule]
    BY <1>21 DEF Forget, ForgetRoute, Addressed
  <2> QED
    BY <2>1, <2>2, <2>3
<1>22. CASE Unload(t)
  BY <1>22 DEF Unload, UnloadModule, Released
<1>23. CASE UnloadFails(t)
  BY <1>23 DEF UnloadFails, UnloadModuleFails
<1>24. CASE Adjust(t) \/ AdjustFails(t)
  BY <1>24 DEF Adjust, AdjustFails
<1> QED
  BY <1>3, <1>4, <1>5, <1>6, <1>7, <1>8, <1>9, <1>10, <1>11, <1>12, <1>13, <1>14,
     <1>15, <1>16, <1>17, <1>18, <1>19, <1>20, <1>21, <1>22, <1>23, <1>24
  DEF OpStep

\* So do all steps but those of the server, which keeps no index for the
\* manager either.
LEMMA NextSpares ==
  ASSUME OrderInv, [Next]_vars, NEW i \in Ids, modules[i] = Foreign, Unkept(i)
  PROVE  Unkept(i)' /\ (modules'[i] = Foreign \/ ServerActs)
<1>0. i # NoModule
  BY ManagerAssumption
<1> USE <1>0 DEF OrderInv, LockInv, TypeInv, TypeOK, ServerTypeOK
<1>1. ASSUME NEW t \in Threads, OpStep(t)
      PROVE  Unkept(i)' /\ modules'[i] = Foreign
  BY <1>1, StepSpares DEF Leaves
<1>2. CASE ServerActs
  BY <1>2 DEF ServerActs, Unkept, Holds, managerVars, outputVars, recordVars, localVars
<1>3. ASSUME NEW t \in Threads, AnyCall(t)
      PROVE  Unkept(i)' /\ modules'[i] = Foreign
  BY <1>3 DEF AnyCall, Call, Goto, Unkept, Holds, serverVars, outputVars, recordVars, localVars
<1>4. ASSUME NEW t \in Threads, Finish(t)
      PROVE  Unkept(i)' /\ modules'[i] = Foreign
  BY <1>4 DEF Finish, Unkept, Holds, serverVars, outputVars, recordVars
<1>5. ASSUME NEW t \in Threads, StopStep(t)
      PROVE  Unkept(i)' /\ modules'[i] = Foreign
  <2>1. CASE Collect(t)
    BY <1>5, <2>1
    DEF Collect, Collected, Recorded, Goto, Unkept, Holds, serverVars, outputVars
  <2>2. CASE Release(t)
    BY <2>2 DEF Release, UnloadModule, UnloadModuleFails, Unkept, Holds, managerVars, outputVars,
                recordVars
  <2>3. CASE ReleaseOutput(t)
    BY <2>3 DEF ReleaseOutput, UnloadModule, UnloadModuleFails, Goto, Unkept, Holds, managerVars,
                outputVars, recordVars, localVars
  <2> QED
    BY <1>5, <2>1, <2>2, <2>3 DEF StopStep
<1>6. CASE Restart
  BY <1>6 DEF Restart, Unkept, Holds, serverVars
<1>7. CASE UNCHANGED vars
  BY <1>7 DEF vars, serverVars, managerVars, outputVars, recordVars, localVars, Unkept, Holds
<1> QED
  BY <1>1, <1>2, <1>3, <1>4, <1>5, <1>6, <1>7 DEF Next

\* Whatever fails, vanishes or is shared, and wherever the daemon is stopped or
\* killed, it unloads a module of another application only under an index that
\* it has kept since before that module was loaded.
THEOREM ForeignSpared == Spec => SparesForeign
<1>1. OrderInv /\ [Next]_vars
        => [\A i \in Ids \ KeptIndexes :
              modules[i] = Foreign =>
                i \notin KeptIndexes' /\ (modules'[i] = Foreign \/ ServerActs)]_vars
  BY NextSpares, UnkeptMeans
<1> QED
  BY <1>1, OrderInvariant, PTL DEF Spec, SparesForeign

-----------------------------------------------------------------------------
(* What Start and cleanup need *)

\* A module that is loaded can be unloaded.
UnloadsSucceed == "unload" \notin Faults

\* The index of a module that has been loaded is always understood.
NoneLost == "lost" \notin Faults

\* Resume, which loads over a record, is never called.
WithoutResume == "resume" \notin Ops

-----------------------------------------------------------------------------
(* What Start and cleanup have before them *)

\* While Start sweeps, what it has not yet unloaded is on its list.
Sweeping(t) ==
  op[t] = "start" =>
    /\ pc[t] \in {"sweep", "resweep"} =>
         /\ Loopbacks \subseteq Recorded \cup todo[t]
         /\ Outputs \subseteq {outputModuleID} \cup todo[t]
    /\ pc[t] = "list" =>
         Loopbacks \subseteq Recorded /\ Outputs \subseteq {outputModuleID}

\* The inductive invariant behind StartAdopts, next to PhaseInv.
AdoptInv == \A t \in Threads : Sweeping(t)

\* Start has listed the targets, or is over.
Adopted ==
  \/ phase \in {"ticking", "stopping"}
  \/ \E t \in Threads : op[t] = "start" /\ ret[t] = "unlock" /\ pc[t] # "lock"

\* The modules the cleanup has yet to unload.
Releasing == UNION {todo[t] : t \in {u \in Threads : pc[u] = "release"}}

\* Route has no loopback on record for the device when it loads another.
Replaces(t) ==
  /\ pc[t] = "drop" => routeModules[dev[t]] \in {module[t], NoModule}
  /\ pc[t] \in {"clean", "cleaning", "load"} /\ op[t] = "route" =>
       routeModules[dev[t]] \notin Loopbacks
  /\ pc[t] = "record" => routeModules[dev[t]] \notin Loopbacks \ {module[t]}

\* Start that returns without an error has listed the targets.
StartListed(t) ==
  op[t] = "start" /\ pc[t] \in {"unlock", "done"} /\ res[t] = "ok" => ret[t] = "unlock"

\* Every loopback is accounted for from then on.
Accounted == Adopted => Loopbacks \subseteq Recorded \cup InHand \cup Releasing

\* The inductive invariant behind CleanupSilences, next to the above.
CleanInv == Accounted /\ \A t \in Threads : Replaces(t) /\ StartListed(t)

-----------------------------------------------------------------------------
(* What Start has tidied up *)

LEMMA AdoptInit == Init => AdoptInv
BY DEF Init, AdoptInv, Sweeping

\* A step of Start's own thread.
LEMMA AdoptStep ==
  ASSUME UnloadsSucceed, LockInv, NEW t \in Threads, Sweeping(t), OpStep(t)
  PROVE  Sweeping(t)'
<1>1. op'[t] = op[t] \/ Lock(t) \/ Unlock(t)
  BY StepInside DEF Inside, LockInv
<1> USE <1>1, ManagerAssumption, ServerAssumption
    DEF Sweeping, UnloadsSucceed, Loopbacks, Outputs, Recorded, LockInv, TypeInv, TypeOK,
        ServerTypeOK, PcLabels, DeviceOps, Goto, Fail, callVars, serverVars, localVars,
        managerVars, outputVars, recordVars, statusVars
<1>2. CASE Lock(t)
  BY <1>2 DEF Lock
<1>3. CASE Unlock(t)
  BY <1>3 DEF Unlock
<1>4. CASE List(t)
  BY <1>4 DEF List, AfterRefresh, AfterListing
<1>5. CASE Scan(t)
  BY <1>5 DEF Scan, Stale
<1>6. CASE Sweep(t)
  BY <1>6 DEF Sweep, UnloadModule, UnloadModuleFails
<1>7. CASE Swept(t)
  BY <1>7 DEF Swept
<1>8. CASE Create(t)
  BY <1>8 DEF Create
<1>9. CASE ListingFails(t) \/ LoadFails(t) \/ LoadIsLost(t)
  BY <1>9 DEF ListingFails, LoadFails, LoadIsLost
<1>10. CASE Resolve(t) \/ ResolveFails(t)
  BY <1>10 DEF Resolve, ResolveFails, Compare
<1>11. CASE Drop(t) \/ Clean(t) \/ CleanOne(t) \/ CleanFails(t) \/ Cleaned(t)
  BY <1>11 DEF Drop, Clean, CleanOne, CleanFails, Cleaned
<1>12. CASE Load(t) \/ Record(t)
  BY <1>12 DEF Load, Record
<1>13. CASE Forget(t)
  BY <1>13 DEF Forget, Released
<1>14. CASE Unload(t) \/ UnloadFails(t)
  BY <1>14 DEF Unload, UnloadFails, Released
<1>15. CASE Adjust(t) \/ AdjustFails(t)
  BY <1>15 DEF Adjust, AdjustFails
<1> QED
  BY <1>2, <1>3, <1>4, <1>5, <1>6, <1>7, <1>8, <1>9, <1>10, <1>11, <1>12, <1>13,
     <1>14, <1>15
  DEF OpStep

\* The other steps: nobody but Start's thread is inside the lock, and there is
\* no cleanup yet.
LEMMA AdoptElse ==
  ASSUME OrderInv, AdoptInv, NEW t \in Threads,
         \/ ServerActs \/ Restart \/ UNCHANGED vars
         \/ \E u \in Threads :
              AnyCall(u) \/ StopStep(u) \/ Finish(u) \/ (OpStep(u) /\ u # t)
  PROVE  Sweeping(t)'
<1>1. LockInv /\ PhaseInv /\ Sweeping(t)
  BY DEF OrderInv, AdoptInv
<1> USE <1>1 DEF Sweeping, LockInv, TypeInv, TypeOK
<1>2. CASE ServerActs
  <2>1. /\ Loopbacks' \subseteq Loopbacks /\ Outputs' \subseteq Outputs
        /\ UNCHANGED <<op, pc, todo, outputModuleID, Recorded>>
    BY <1>2, ServerAssumption
    DEF ServerActs, ServerStep, SinkAppears, SinkDisappears, ModuleVanishes, ForeignLoads,
        LoadModule, UnloadModule, Loopbacks, Outputs, Recorded, ServerTypeOK, managerVars,
        outputVars, recordVars, callVars, localVars
  <2> QED
    BY <2>1
<1>3. CASE Restart
  BY <1>3 DEF Restart
<1>4. CASE UNCHANGED vars
  <2>1. UNCHANGED <<op, pc, todo, outputModuleID, Recorded, Loopbacks, Outputs>>
    BY <1>4 DEF vars, serverVars, managerVars, outputVars, recordVars, callVars, localVars,
                Recorded, Loopbacks, Outputs
  <2> QED
    BY <2>1
<1>5. ASSUME NEW u \in Threads, AnyCall(u)
      PROVE  Sweeping(t)'
  <2>1. PICK o \in Ops, d \in Devices \cup {NoDevice} : Call(u, o, d)
    BY <1>5 DEF AnyCall
  <2>2. UNCHANGED <<todo, outputModuleID, Recorded, Loopbacks, Outputs>>
    BY <2>1 DEF Call, serverVars, outputVars, recordVars, localVars, Recorded, Loopbacks,
                Outputs
  <2>3. CASE u = t
    BY <2>1, <2>3 DEF Call, Goto
  <2>4. CASE u # t
    BY <2>1, <2>2, <2>4 DEF Call, Goto
  <2> QED
    BY <2>3, <2>4
<1>6. ASSUME NEW u \in Threads, Finish(u)
      PROVE  Sweeping(t)'
  <2>1. /\ UNCHANGED <<outputModuleID, Recorded, Loopbacks, Outputs>>
        /\ pc' = [pc EXCEPT ![u] = "idle"] /\ op' = [op EXCEPT ![u] = "none"]
        /\ todo' = [todo EXCEPT ![u] = {}]
    BY <1>6 DEF Finish, serverVars, outputVars, recordVars, Recorded, Loopbacks, Outputs
  <2> QED
    BY <2>1
<1>7. ASSUME NEW u \in Threads, StopStep(u)
      PROVE  Sweeping(t)'
  <2>1. op[u] = "cleanup" /\ op' = op
    BY <1>7, StopOutside DEF PhaseInv
  <2>2. op[t] # "start"
    BY <2>1 DEF PhaseInv
  <2> QED
    BY <2>1, <2>2
<1>8. ASSUME NEW u \in Threads \ {t}, OpStep(u)
      PROVE  Sweeping(t)'
  <2>1. pc'[t] = pc[t] /\ (opMu' = u \/ opMu = u)
    BY <1>8, StepInside
    DEF Inside, Lock, Unlock, Goto, Exclusive, Critical, PcLabels
  <2>2. LockInv'
    BY <1>8, LockNext DEF Next
  <2>3. pc[t] \notin Critical
    BY <2>1, <2>2 DEF Exclusive
  <2> QED
    BY <2>1, <2>3 DEF Critical, PcLabels
<1> QED
  BY <1>2, <1>3, <1>4, <1>5, <1>6, <1>7, <1>8

LEMMA AdoptNext ==
  ASSUME UnloadsSucceed
  PROVE  OrderInv /\ AdoptInv /\ [Next]_vars => AdoptInv'
<1> SUFFICES ASSUME OrderInv, AdoptInv, [Next]_vars, NEW t \in Threads
             PROVE  Sweeping(t)'
  BY DEF AdoptInv
<1>1. CASE OpStep(t)
  BY <1>1, AdoptStep DEF OrderInv, AdoptInv
<1>2. CASE ~OpStep(t)
  BY <1>2, AdoptElse DEF Next
<1> QED
  BY <1>1, <1>2

\* If modules that are loaded can be unloaded, then whatever else fails and
\* whatever an earlier daemon left behind, once Start's ensureOutputSink has run
\* there is no second output sink and every loopback belongs to a route.
THEOREM StartTidies ==
  ASSUME UnloadsSucceed
  PROVE  Spec => []StartAdopts
<1>1. AdoptInv => StartAdopts
  BY DEF AdoptInv, Sweeping, StartAdopts
<1> QED
  BY <1>1, AdoptInit, AdoptNext, OrderInvariant, PTL DEF Spec

-----------------------------------------------------------------------------
(* What cleanup leaves behind *)

LEMMA CleanInit == Init => CleanInv
BY DEF Init, CleanInv, Accounted, Adopted, Replaces, StartListed

\* A step of an operation by its own thread.
LEMMA CleanCourse ==
  ASSUME UnloadsSucceed, OrderInv, NEW t \in Threads, op[t] # "resume",
         Replaces(t), StartListed(t), OpStep(t)
  PROVE  Replaces(t)' /\ StartListed(t)'
<1>1. LockInv /\ Way(t)
  BY DEF OrderInv
<1> USE <1>1, ManagerAssumption, ServerAssumption
    DEF Replaces, StartListed, Way, Ensuring, UnloadsSucceed, Loopbacks, LockInv, TypeInv,
        TypeOK, Addressed, ServerTypeOK, PcLabels, DeviceOps, Goto, Fail, callVars,
        serverVars, localVars, managerVars, recordVars
<1>2. CASE Lock(t) \/ Unlock(t)
  BY <1>2 DEF Lock, Unlock
<1>3. CASE List(t)
  BY <1>3 DEF List, AfterRefresh, AfterListing
<1>4. CASE Scan(t) \/ Sweep(t) \/ Swept(t) \/ Create(t)
  BY <1>4 DEF Scan, Sweep, Swept, Create
<1>5. CASE ListingFails(t) \/ LoadFails(t) \/ LoadIsLost(t)
  BY <1>5 DEF ListingFails, LoadFails, LoadIsLost
<1>6. CASE Resolve(t)
  BY <1>6 DEF Resolve, Compare
<1>7. CASE ResolveFails(t) \/ Clean(t) \/ CleanFails(t) \/ Cleaned(t)
  BY <1>7 DEF ResolveFails, Clean, CleanFails, Cleaned, UnloadModuleFails
<1>8. CASE Drop(t)
  BY <1>8 DEF Drop, UnloadModule, UnloadModuleFails
<1>9. CASE CleanOne(t)
  BY <1>9 DEF CleanOne, UnloadModule
<1>10. CASE Load(t)
  BY <1>10 DEF Load, LoadModule
<1>11. CASE Record(t)
  BY <1>11 DEF Record
<1>12. CASE Forget(t)
  BY <1>12 DEF Forget, ForgetRoute, Released
<1>13. CASE Unload(t) \/ UnloadFails(t)
  BY <1>13 DEF Unload, UnloadFails, Released
<1>14. CASE Adjust(t) \/ AdjustFails(t)
  BY <1>14 DEF Adjust, AdjustFails
<1> QED
  BY <1>2, <1>3, <1>4, <1>5, <1>6, <1>7, <1>8, <1>9, <1>10, <1>11, <1>12, <1>13,
     <1>14
  DEF OpStep

\* An operation changes the locals of no other thread.
LEMMA StepLocal ==
  ASSUME LockInv, NEW u \in Threads, NEW t \in Threads \ {u}, OpStep(u)
  PROVE  /\ op' = op /\ dev' = dev
         /\ pc'[t] = pc[t] /\ module'[t] = module[t] /\ todo'[t] = todo[t]
         /\ ret'[t] = ret[t] /\ res'[t] = res[t]
<1> USE DEF LockInv, TypeInv, TypeOK, Goto, Fail, callVars, localVars
<1>1. CASE Lock(u) \/ Unlock(u) \/ List(u) \/ Scan(u) \/ Sweep(u) \/ Swept(u) \/ Create(u)
  BY <1>1 DEF Lock, Unlock, List, Scan, Sweep, Swept, Create
<1>2. CASE \/ ListingFails(u) \/ LoadFails(u) \/ LoadIsLost(u) \/ ResolveFails(u) \/ Drop(u)
           \/ Clean(u) \/ CleanOne(u) \/ CleanFails(u) \/ Cleaned(u) \/ Load(u) \/ Record(u)
  BY <1>2 DEF ListingFails, LoadFails, LoadIsLost, ResolveFails, Drop, Clean, CleanOne,
              CleanFails, Cleaned, Load, Record
<1>3. CASE Resolve(u)
  BY <1>3 DEF Resolve, Compare
<1>4. CASE Forget(u)
  BY <1>4 DEF Forget, Released
<1>5. CASE Unload(u) \/ UnloadFails(u) \/ Adjust(u) \/ AdjustFails(u)
  BY <1>5 DEF Unload, UnloadFails, Adjust, AdjustFails, Released
<1> QED
  BY <1>1, <1>2, <1>3, <1>4, <1>5 DEF OpStep

\* The other steps: a record is only cleared, and no loopback is loaded.
LEMMA CleanOthers ==
  ASSUME OrderInv, NEW t \in Threads, Replaces(t), StartListed(t),
         \/ ServerActs \/ Restart \/ UNCHANGED vars
         \/ \E u \in Threads :
              AnyCall(u) \/ StopStep(u) \/ Finish(u) \/ (OpStep(u) /\ u # t)
  PROVE  Replaces(t)' /\ StartListed(t)'
<1>1. LockInv /\ PhaseInv
  BY DEF OrderInv
<1> USE <1>1 DEF Replaces, StartListed, LockInv, TypeInv, TypeOK
<1>2. CASE ServerActs
  <2>1. Loopbacks' \subseteq Loopbacks
    BY <1>2, ServerAssumption
    DEF ServerActs, ServerStep, SinkAppears, SinkDisappears, ModuleVanishes, ForeignLoads,
        LoadModule, UnloadModule, Loopbacks, ServerTypeOK
  <2> QED
    BY <1>2, <2>1 DEF ServerActs, managerVars, recordVars, callVars, localVars
<1>3. CASE Restart
  BY <1>3 DEF Restart
<1>4. CASE UNCHANGED vars
  BY <1>4 DEF vars, serverVars, managerVars, recordVars, callVars, localVars, Loopbacks
<1>5. ASSUME NEW u \in Threads, AnyCall(u)
      PROVE  Replaces(t)' /\ StartListed(t)'
  <2>1. PICK o \in Ops, d \in Devices \cup {NoDevice} : Call(u, o, d)
    BY <1>5 DEF AnyCall
  <2> QED
    BY <2>1 DEF Call, Goto, serverVars, recordVars, localVars, Loopbacks
<1>6. ASSUME NEW u \in Threads, Finish(u)
      PROVE  Replaces(t)' /\ StartListed(t)'
  <2>1. /\ UNCHANGED <<routeModules, Loopbacks>>
        /\ pc' = [pc EXCEPT ![u] = "idle"]
        /\ \A v \in Threads \ {u} : /\ op'[v] = op[v] /\ dev'[v] = dev[v] /\ ret'[v] = ret[v]
                                   /\ module'[v] = module[v] /\ res'[v] = res[v]
    BY <1>6 DEF Finish, serverVars, recordVars, Loopbacks
  <2> QED
    BY <2>1
<1>7. ASSUME NEW u \in Threads, StopStep(u)
      PROVE  Replaces(t)' /\ StartListed(t)'
  <2>1. /\ op' = op /\ dev' = dev /\ ret' = ret /\ res' = res
        /\ \A v \in Threads \ {u} : pc'[v] = pc[v] /\ module'[v] = module[v]
        /\ op[u] = "cleanup" /\ pc'[u] \in {"release", "done"}
    BY <1>7, StopOutside
    DEF StopStep, Collect, Release, ReleaseOutput, Goto, callVars, localVars, PhaseInv
  <2>2. Loopbacks' \subseteq Loopbacks
    BY <1>7, ServerAssumption
    DEF StopStep, Collect, Release, ReleaseOutput, UnloadModule, UnloadModuleFails,
        Loopbacks, ServerTypeOK, serverVars
  <2>3. UNCHANGED routeModules \/ \A d \in Devices : routeModules'[d] = NoModule
    BY <1>7 DEF StopStep, Collect, Release, ReleaseOutput, managerVars, recordVars
  <2>4. NoModule \notin Loopbacks
    BY ManagerAssumption DEF Loopbacks
  <2>5. pc[t] \in {"drop", "record", "clean", "cleaning", "load"} /\ Way(t) => dev[t] \in Devices
    BY DEF Way, Addressed, DeviceOps
  <2>6. Way(t)
    BY DEF OrderInv
  <2> QED
    BY <2>1, <2>2, <2>3, <2>4, <2>5, <2>6
<1>8. ASSUME NEW u \in Threads \ {t}, OpStep(u)
      PROVE  Replaces(t)' /\ StartListed(t)'
  <2>1. opMu' = u \/ opMu = u
    BY <1>8, StepInside DEF Inside, Lock, Unlock, Exclusive, Critical, PcLabels
  <2>2. LockInv' /\ pc'[t] = pc[t]
    BY <1>8, LockNext, StepLocal DEF Next
  <2>3. pc[t] \notin Critical
    BY <2>1, <2>2 DEF Exclusive
  <2> QED
    BY <1>8, <2>3, StepLocal DEF Critical, PcLabels
<1> QED
  BY <1>2, <1>3, <1>4, <1>5, <1>6, <1>7, <1>8

\* The modules that are known to somebody.
Known == Recorded \cup InHand \cup Releasing

\* Start comes to its listing with every loopback on record.
LEMMA AdoptedStep ==
  ASSUME OrderInv, AdoptInv, Accounted, NEW t \in Threads, OpStep(t), Adopted'
  PROVE  Loopbacks \subseteq Known
<1>1. LockInv /\ PhaseInv
  BY DEF OrderInv
<1>2. phase' = phase
  BY DEF OpStep, Lock, Unlock, List, Scan, Sweep, Swept, Create, ListingFails,
         LoadFails, LoadIsLost, Resolve, ResolveFails, Drop, Clean, CleanOne, CleanFails,
         Cleaned, Load, Record, Forget, Unload, UnloadFails, Adjust, AdjustFails, managerVars
<1>3. CASE phase \in {"ticking", "stopping"}
  BY <1>3 DEF Accounted, Adopted, Known
<1>4. CASE phase \notin {"ticking", "stopping"}
  <2>1. PICK u \in Threads : op'[u] = "start" /\ ret'[u] = "unlock" /\ pc'[u] # "lock"
    BY <1>2, <1>4 DEF Adopted
  <2>2. CASE u # t
    BY <1>1, <2>1, <2>2, StepLocal DEF Accounted, Adopted, Known
  <2>3. CASE u = t /\ Lock(t)
    BY <2>1, <2>3, <1>1 DEF Lock, callVars, LockInv, TypeInv, TypeOK
  <2>4. CASE u = t /\ List(t)
    <3>1. op[t] = "start" /\ pc[t] = "list"
      BY <2>1, <2>4 DEF List, callVars
    <3> QED
      BY <3>1 DEF AdoptInv, Sweeping, Known
  <2>5. CASE u = t /\ ~Lock(t) /\ ~List(t)
    <3>1. ret' = ret /\ op' = op
      BY <2>5
      DEF OpStep, Unlock, Scan, Sweep, Swept, Create, ListingFails, LoadFails, LoadIsLost,
          Resolve, ResolveFails, Drop, Clean, CleanOne, CleanFails, Cleaned, Load, Record,
          Forget, Unload, UnloadFails, Adjust, AdjustFails, localVars, callVars
    <3>2. pc[t] # "lock"
      BY <1>1, <2>5, StepInside DEF Unlock, Inside, Critical, LockInv
    <3> QED
      BY <2>1, <2>5, <3>1, <3>2 DEF Accounted, Adopted, Known
  <2> QED
    BY <2>2, <2>3, <2>4, <2>5
<1> QED
  BY <1>3, <1>4

\* An operation loses sight of no loopback.
LEMMA KnownStep ==
  ASSUME UnloadsSucceed, NoneLost, OrderInv, NEW t \in Threads, op[t] # "resume",
         Replaces(t), OpStep(t), Loopbacks \subseteq Known
  PROVE  (Loopbacks \subseteq Known)'
<1>1. LockInv /\ Way(t) /\ PhaseInv
  BY DEF OrderInv
<1>2. \A u \in Threads \ {t} : pc'[u] = pc[u] /\ module'[u] = module[u] /\ todo'[u] = todo[u]
  BY <1>1, StepLocal
<1>3. pc[t] # "release"
  BY <1>1, StepInside DEF Lock, Unlock, Inside, Critical, LockInv
<1>4. ASSUME NEW i
      PROVE  i \in Known <=>
               \/ i # NoModule /\ \E d \in Devices : routeModules[d] = i
               \/ \E u \in Threads : pc[u] \in {"record", "unload", "drop"} /\ module[u] = i
               \/ \E u \in Threads : pc[u] = "release" /\ i \in todo[u]
  BY DEF Known, Recorded, InHand, Releasing
<1>5. ASSUME NEW i
      PROVE  (i \in Known)' <=>
               \/ i # NoModule /\ \E d \in Devices : routeModules'[d] = i
               \/ \E u \in Threads : pc'[u] \in {"record", "unload", "drop"} /\ module'[u] = i
               \/ \E u \in Threads : pc'[u] = "release" /\ i \in todo'[u]
  BY DEF Known, Recorded, InHand, Releasing
<1> SUFFICES ASSUME NEW i \in Loopbacks'
               PROVE  (i \in Known)'
  OBVIOUS
<1>7. i \in Ids /\ modules'[i] \in Sinks /\ i # NoModule
  BY ManagerAssumption DEF Loopbacks
<1>8. ASSUME i \in Loopbacks, routeModules' = routeModules,
             pc[t] \notin {"record", "unload", "drop"}
      PROVE  (i \in Known)'
  BY <1>2, <1>3, <1>4, <1>5, <1>8
<1>9. ASSUME UNCHANGED modules
      PROVE  i \in Loopbacks
  BY <1>7, <1>9 DEF Loopbacks
<1>10. ASSUME NEW j, UnloadModule(j)
       PROVE  i \in Loopbacks /\ i # j
  BY <1>1, <1>7, <1>10, ServerAssumption
  DEF UnloadModule, Loopbacks, LockInv, TypeInv, TypeOK, ServerTypeOK
<1> USE ServerAssumption, ManagerAssumption
    DEF LockInv, TypeInv, TypeOK, Goto, Fail, serverVars, managerVars, localVars, recordVars
<1>11. CASE \/ Lock(t) \/ Unlock(t) \/ List(t) \/ Scan(t) \/ Swept(t)
            \/ ListingFails(t) \/ LoadFails(t) \/ ResolveFails(t) \/ Clean(t)
            \/ CleanFails(t) \/ Cleaned(t) \/ Adjust(t) \/ AdjustFails(t)
  BY <1>1, <1>8, <1>9, <1>11
  DEF Lock, Unlock, List, Scan, Swept, ListingFails, LoadFails, ResolveFails, Clean,
      CleanFails, Cleaned, Adjust, AdjustFails, UnloadModuleFails
<1>12. CASE Sweep(t) \/ CleanOne(t)
  BY <1>1, <1>8, <1>9, <1>10, <1>12 DEF Sweep, CleanOne, UnloadModuleFails
<1>13. CASE Create(t)
  BY <1>1, <1>7, <1>8, <1>13 DEF Create, LoadModule, Loopbacks, ServerTypeOK
<1>14. CASE LoadIsLost(t)
  BY <1>14 DEF LoadIsLost, NoneLost
<1>15. CASE Resolve(t)
  BY <1>1, <1>8, <1>9, <1>15 DEF Resolve
<1>16. CASE Drop(t) \/ Unload(t) \/ UnloadFails(t)
  <2>1. i \in Loopbacks /\ i # module[t] /\ routeModules' = routeModules
    BY <1>1, <1>7, <1>9, <1>10, <1>16
    DEF Drop, Unload, UnloadFails, UnloadModule, UnloadModuleFails, UnloadsSucceed, Loopbacks
  <2> QED
    BY <1>2, <1>3, <1>4, <1>5, <2>1
<1>17. CASE Load(t)
  <2>1. PICK j \in Ids : LoadModule(j, target[t]) /\ module' = [module EXCEPT ![t] = j]
    BY <1>17 DEF Load
  <2>2. pc[t] = "load" /\ pc'[t] = "record" /\ routeModules' = routeModules
    BY <1>1, <1>17 DEF Load
  <2>3. i = j \/ i \in Loopbacks
    BY <1>1, <1>7, <2>1 DEF LoadModule, Loopbacks, ServerTypeOK
  <2>4. module'[t] = j
    BY <1>1, <2>1
  <2> QED
    BY <1>5, <1>8, <2>2, <2>3, <2>4
<1>18. CASE Record(t)
  <2>1. /\ pc[t] = "record" /\ i \in Loopbacks
        /\ routeModules' = [routeModules EXCEPT ![dev[t]] = module[t]]
    BY <1>9, <1>18 DEF Record
  <2>2. dev[t] \in Devices
    BY <1>1, <2>1 DEF Way, Addressed, DeviceOps
  <2>3. routeModules[dev[t]] \notin Loopbacks \ {module[t]}
    BY <2>1 DEF Replaces
  <2> QED
    BY <1>1, <1>2, <1>3, <1>4, <1>5, <1>7, <2>1, <2>2, <2>3
<1>19. CASE Forget(t)
  <2>1. /\ pc[t] = "forget" /\ i \in Loopbacks
        /\ routeModules' = [routeModules EXCEPT ![dev[t]] = NoModule]
        /\ routeModules[dev[t]] # NoModule => pc'[t] = "unload"
        /\ module'[t] = routeModules[dev[t]]
    BY <1>1, <1>9, <1>19 DEF Forget, ForgetRoute
  <2>2. dev[t] \in Devices
    BY <1>1, <2>1 DEF Addressed, DeviceOps
  <2> QED
    BY <1>1, <1>2, <1>3, <1>4, <1>5, <1>7, <2>1, <2>2
<1> QED
  BY <1>11, <1>12, <1>13, <1>14, <1>15, <1>16, <1>17, <1>18, <1>19 DEF OpStep

\* The other steps load no loopback and only hand the records to the cleanup.
LEMMA KnownElse ==
  ASSUME UnloadsSucceed, OrderInv, CleanInv,
         \/ ServerActs \/ Restart \/ UNCHANGED vars
         \/ \E u \in Threads : AnyCall(u) \/ StopStep(u) \/ Finish(u)
  PROVE  Accounted'
<1>1. LockInv /\ PhaseInv /\ \A t \in Threads : Way(t)
  BY DEF OrderInv
<1> SUFFICES ASSUME Adopted'
             PROVE  (Loopbacks \subseteq Known)'
  BY DEF Accounted, Known
<1>2. Adopted => Loopbacks \subseteq Known
  BY DEF CleanInv, Accounted, Known
<1> USE DEF LockInv, TypeInv, TypeOK
<1>3. CASE ServerActs
  <2>1. Loopbacks' \subseteq Loopbacks
    BY <1>1, <1>3, ServerAssumption
    DEF ServerActs, ServerStep, SinkAppears, SinkDisappears, ModuleVanishes, ForeignLoads,
        LoadModule, UnloadModule, Loopbacks, ServerTypeOK
  <2>2. UNCHANGED <<phase, op, ret, pc, Recorded, InHand, Releasing>>
    BY <1>3 DEF ServerActs, managerVars, recordVars, callVars, localVars, Recorded, InHand,
                Releasing
  <2> QED
    BY <1>2, <2>1, <2>2 DEF Adopted, Known
<1>4. CASE Restart
  BY <1>4 DEF Restart, Adopted
<1>5. CASE UNCHANGED vars
  BY <1>2, <1>5 DEF vars, serverVars, managerVars, recordVars, callVars, localVars, Recorded,
                    InHand, Releasing, Loopbacks, Adopted, Known
<1>6. ASSUME NEW u \in Threads, AnyCall(u)
      PROVE  (Loopbacks \subseteq Known)'
  <2>1. PICK o \in Ops, d \in Devices \cup {NoDevice} : Call(u, o, d)
    BY <1>6 DEF AnyCall
  <2>2. /\ UNCHANGED <<modules, routeModules, module, todo, ret>>
        /\ pc[u] = "idle" /\ pc'[u] \in {"collect", "lock"}
        /\ \A t \in Threads \ {u} : pc'[t] = pc[t] /\ op'[t] = op[t]
    BY <1>1, <2>1 DEF Call, Goto, serverVars, recordVars, localVars
  <2>3. UNCHANGED <<Loopbacks, Recorded, InHand, Releasing>>
    <3>1. \A t \in Threads : pc'[t] \in {"record", "unload", "drop"}
                              <=> pc[t] \in {"record", "unload", "drop"}
      BY <2>2
    <3>2. \A t \in Threads : pc'[t] = "release" <=> pc[t] = "release"
      BY <2>2
    <3> QED
      BY <2>2, <3>1, <3>2 DEF Loopbacks, Recorded, InHand, Releasing
  <2>4. Adopted
    <3>1. CASE \E t \in Threads : op'[t] = "start" /\ ret'[t] = "unlock" /\ pc'[t] # "lock"
      <4>1. PICK t \in Threads : op'[t] = "start" /\ ret'[t] = "unlock" /\ pc'[t] # "lock"
        BY <3>1
      <4>2. t # u
        BY <1>1, <2>1, <2>2, <4>1 DEF Call, Goto
      <4> QED
        BY <2>2, <4>1, <4>2 DEF Adopted
    <3>2. CASE phase' \in {"ticking", "stopping"}
      BY <2>1, <3>2 DEF Call, Adopted
    <3> QED
      BY <3>1, <3>2 DEF Adopted
  <2> QED
    BY <1>2, <2>3, <2>4 DEF Known
<1>7. ASSUME NEW u \in Threads, Finish(u)
      PROVE  (Loopbacks \subseteq Known)'
  <2>1. /\ UNCHANGED <<modules, routeModules>>
        /\ pc[u] = "done" /\ pc'[u] = "idle" /\ op'[u] = "none"
        /\ \A t \in Threads \ {u} : /\ pc'[t] = pc[t] /\ op'[t] = op[t] /\ ret'[t] = ret[t]
                                   /\ module'[t] = module[t] /\ todo'[t] = todo[t]
    BY <1>1, <1>7 DEF Finish, serverVars, recordVars
  <2>2. UNCHANGED <<Loopbacks, Recorded, InHand, Releasing>>
    <3>1. \A t \in Threads : /\ pc'[t] \in {"record", "unload", "drop"}
                                <=> pc[t] \in {"record", "unload", "drop"}
                             /\ pc[t] \in {"record", "unload", "drop"}
                                => module'[t] = module[t]
      BY <2>1
    <3>2. \A t \in Threads : /\ pc'[t] = "release" <=> pc[t] = "release"
                             /\ pc[t] = "release" => todo'[t] = todo[t]
      BY <2>1
    <3> QED
      BY <2>1, <3>1, <3>2 DEF Loopbacks, Recorded, InHand, Releasing
  <2>3. Adopted
    <3>1. CASE \E t \in Threads : op'[t] = "start" /\ ret'[t] = "unlock" /\ pc'[t] # "lock"
      BY <2>1, <3>1 DEF Adopted
    <3>2. CASE phase' \in {"ticking", "stopping"}
      <4>1. phase = phase' \/ (op[u] = "start" /\ res[u] = "ok")
        BY <1>7, <3>2 DEF Finish
      <4>2. StartListed(u)
        BY DEF CleanInv
      <4> QED
        BY <2>1, <3>2, <4>1, <4>2 DEF Adopted, StartListed
    <3> QED
      BY <3>1, <3>2 DEF Adopted
  <2> QED
    BY <1>2, <2>2, <2>3 DEF Known
<1>8. ASSUME NEW u \in Threads, StopStep(u)
      PROVE  (Loopbacks \subseteq Known)'
  <2>1. /\ op[u] = "cleanup" /\ phase = "stopping"
        /\ \A t \in Threads \ {u} : pc'[t] = pc[t]
    BY <1>1, <1>8, StopOutside DEF PhaseInv
  <2>2. \A t \in Threads \ {u} : module'[t] = module[t] /\ todo'[t] = todo[t]
    BY <1>1, <1>8 DEF StopStep, Collect, Release, ReleaseOutput, localVars
  <2>3. Loopbacks \subseteq Known
    BY <1>2, <2>1 DEF Adopted
  <2>4. InHand \subseteq InHand'
    BY <1>1, <1>8, <2>1, <2>2, StopOutside DEF InHand
  <2>5. CASE Collect(u)
    <3>1. Loopbacks' = Loopbacks /\ todo'[u] = Recorded /\ pc[u] = "collect" /\ pc'[u] = "release"
      BY <1>1, <2>5 DEF Collect, Collected, Goto, serverVars, Loopbacks
    <3>2. Recorded \cup Releasing \subseteq Releasing'
      BY <2>1, <2>2, <3>1 DEF Releasing
    <3> QED
      BY <2>3, <2>4, <3>1, <3>2 DEF Known
  <2>6. CASE Release(u)
    <3>1. PICK j \in todo[u] : /\ UnloadModule(j) \/ UnloadModuleFails(j)
                               /\ todo' = [todo EXCEPT ![u] = @ \ {j}]
      BY <2>6 DEF Release
    <3>2. Loopbacks' \subseteq Loopbacks \ {j}
      BY <1>1, <3>1, ServerAssumption
      DEF UnloadModule, UnloadModuleFails, UnloadsSucceed, Loopbacks, ServerTypeOK
    <3>3. Recorded' = Recorded /\ pc' = pc
      BY <2>6 DEF Release, managerVars, recordVars, Recorded
    <3>4. Releasing \ {j} \subseteq Releasing'
      BY <1>1, <3>1, <3>3 DEF Releasing
    <3> QED
      BY <2>3, <2>4, <3>2, <3>3, <3>4 DEF Known
  <2>7. CASE ReleaseOutput(u)
    <3>1. Loopbacks' \subseteq Loopbacks
      BY <1>1, <2>7, ServerAssumption
      DEF ReleaseOutput, UnloadModule, UnloadModuleFails, Loopbacks, ServerTypeOK
    <3>2. Recorded' = Recorded /\ todo' = todo /\ pc[u] = "release" /\ todo[u] = {}
      BY <2>7 DEF ReleaseOutput, managerVars, recordVars, localVars, Recorded
    <3>3. Releasing \subseteq Releasing'
      BY <2>1, <3>2 DEF Releasing
    <3> QED
      BY <2>3, <2>4, <3>1, <3>2, <3>3 DEF Known
  <2> QED
    BY <1>8, <2>5, <2>6, <2>7 DEF StopStep
<1> QED
  BY <1>3, <1>4, <1>5, <1>6, <1>7, <1>8

LEMMA CleanNext ==
  ASSUME UnloadsSucceed, NoneLost
  PROVE  OrderInv /\ AdoptInv /\ NeverResumes /\ CleanInv /\ [Next]_vars => CleanInv'
<1> SUFFICES ASSUME OrderInv, AdoptInv, NeverResumes, CleanInv, [Next]_vars
             PROVE  CleanInv'
  OBVIOUS
<1>1. ASSUME NEW t \in Threads
      PROVE  Replaces(t)' /\ StartListed(t)'
  <2>1. Replaces(t) /\ StartListed(t) /\ op[t] # "resume"
    BY DEF CleanInv, NeverResumes
  <2>2. CASE OpStep(t)
    BY <2>1, <2>2, CleanCourse
  <2>3. CASE ~OpStep(t)
    BY <2>1, <2>3, CleanOthers DEF Next
  <2> QED
    BY <2>2, <2>3
<1>2. Accounted'
  <2>1. ASSUME NEW t \in Threads, OpStep(t)
        PROVE  Accounted'
    <3>1. Replaces(t) /\ Accounted /\ op[t] # "resume"
      BY DEF CleanInv, NeverResumes
    <3>2. Adopted' => (Loopbacks \subseteq Known)'
      BY <2>1, <3>1, AdoptedStep, KnownStep
    <3> QED
      BY <3>2 DEF Accounted, Known
  <2> QED
    BY <2>1, KnownElse DEF Next
<1> QED
  BY <1>1, <1>2 DEF CleanInv

\* If modules that are loaded can be unloaded, the indexes of those that are
\* loaded are understood and Resume is never called, then whatever else fails
\* and whatever an earlier daemon left behind, cleanup leaves no device playing
\* but those of an operation that went on next to it.
THEOREM CleanupIsSilent ==
  ASSUME UnloadsSucceed, NoneLost, WithoutResume
  PROVE  Spec => []CleanupSilences
<1>1. OrderInv /\ CleanInv => CleanupSilences
  <2> SUFFICES ASSUME OrderInv, CleanInv, NEW t \in Threads,
                      pc[t] = "done", op[t] = "cleanup"
               PROVE  Loopbacks \subseteq Recorded \cup InHand
    BY DEF CleanupSilences
  <2>1. phase = "stopping" /\ \A u \in Threads : pc[u] # "release"
    BY DEF OrderInv, PhaseInv
  <2> QED
    BY <2>1 DEF CleanInv, Accounted, Adopted, Releasing
<1>2. ManagerInv /\ NeverResumes /\ [Next]_vars => NeverResumes'
  BY NeverResumesNext DEF WithoutResume
<1>3. Init => NeverResumes
  BY DEF Init, NeverResumes
<1> QED
  BY <1>1, <1>2, <1>3, AdoptInit, AdoptNext, CleanInit, CleanNext, OrderInvariant,
     ManagerInvariant, PTL
  DEF Spec
=============================================================================
