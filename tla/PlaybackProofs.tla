----------------------------- MODULE PlaybackProofs -----------------------------
(***************************************************************************)
(* The proof that PulseManager implements Playback, for any sets of        *)
(* threads, devices, sinks and module indexes, any matching of devices and *)
(* sinks, and every fault.                                                 *)
(***************************************************************************)
EXTENDS PulseManagerProofs

-----------------------------------------------------------------------------
(* What an operation knows at each of its steps *)

\* The steps at which an operation has neither failed nor found its target.
Early == {"idle", "lock", "list", "scan", "sweep", "create", "rescan", "resweep",
          "resolve", "forget", "adjust"}

\* An operation starts afresh, and Route and Resume alone resolve and load.
CourseInv ==
  \A t \in Threads :
    /\ pc[t] \in Early => target[t] = NoSink /\ res[t] = "ok"
    /\ pc[t] \in Critical \cup {"lock"} => op[t] \in OpKinds \ {"cleanup"}
    /\ pc[t] \in {"resolve", "load"} => op[t] \in {"route", "resume"}
    /\ ret[t] = "resolve" => op[t] \in {"route", "resume"} /\ pc[t] # "idle"
    /\ pc[t] = "adjust" => op[t] = "adjust"
    /\ pc[t] \in {"collect", "release"} => op[t] = "cleanup"

LEMMA CourseInit == Init => CourseInv
BY DEF Init, CourseInv, Critical, PcLabels

LEMMA CourseStep ==
  ASSUME TypeInv, CourseInv, NEW t \in Threads, OpStep(t)
  PROVE  CourseInv'
<1> USE DEF TypeInv, TypeOK, CourseInv, Early, Critical, PcLabels, OpKinds, Goto, Fail,
        callVars, localVars
<1>1. CASE Lock(t)
  BY <1>1 DEF Lock
<1>2. CASE Unlock(t)
  BY <1>2 DEF Unlock
<1>3. CASE List(t)
  BY <1>3 DEF List, AfterListing, AfterRefresh
<1>4. CASE Scan(t)
  BY <1>4 DEF Scan
<1>5. CASE Sweep(t) \/ CleanOne(t)
  BY <1>5 DEF Sweep, CleanOne
<1>6. CASE Swept(t)
  BY <1>6 DEF Swept
<1>7. CASE Create(t)
  BY <1>7 DEF Create
<1>8. CASE ListingFails(t) \/ LoadFails(t) \/ LoadIsLost(t)
  BY <1>8 DEF ListingFails, LoadFails, LoadIsLost
<1>9. CASE Resolve(t)
  BY <1>9 DEF Resolve, Compare
<1>10. CASE ResolveFails(t) \/ AdjustFails(t)
  BY <1>10 DEF ResolveFails, AdjustFails
<1>11. CASE Drop(t) \/ Clean(t)
  BY <1>11 DEF Drop, Clean
<1>12. CASE CleanFails(t) \/ UnloadFails(t)
  BY <1>12 DEF CleanFails, UnloadFails
<1>13. CASE Cleaned(t)
  BY <1>13 DEF Cleaned
<1>14. CASE Load(t) \/ Record(t)
  BY <1>14 DEF Load, Record
<1>15. CASE Forget(t)
  BY <1>15 DEF Forget, Released
<1>16. CASE Unload(t)
  BY <1>16 DEF Unload, Released
<1>17. CASE Adjust(t)
  BY <1>17 DEF Adjust
<1> QED
  BY <1>1, <1>2, <1>3, <1>4, <1>5, <1>6, <1>7, <1>8, <1>9, <1>10, <1>11, <1>12,
     <1>13, <1>14, <1>15, <1>16, <1>17
  DEF OpStep

LEMMA CourseNext == TypeInv /\ CourseInv /\ [Next]_vars => CourseInv'
<1> SUFFICES ASSUME TypeInv, CourseInv, [Next]_vars PROVE CourseInv'
  OBVIOUS
<1> USE DEF TypeInv, TypeOK, CourseInv, Early, Critical, PcLabels, Goto, callVars,
        localVars
<1>1. ASSUME NEW t \in Threads, AnyCall(t)
      PROVE  CourseInv'
  <2>1. PICK o \in Ops, d \in Devices \cup {NoDevice} : Call(t, o, d)
    BY <1>1 DEF AnyCall
  <2> QED
    BY <2>1, ManagerAssumption DEF Call
<1>2. ASSUME NEW t \in Threads, StopStep(t)
      PROVE  CourseInv'
  BY <1>2 DEF StopStep, Collect, Release, ReleaseOutput
<1>3. ASSUME NEW t \in Threads, Finish(t)
      PROVE  CourseInv'
  BY <1>3 DEF Finish
<1>4. CASE Restart
  BY <1>4 DEF Restart
<1>5. CASE ServerActs \/ UNCHANGED vars
  BY <1>5 DEF ServerActs, vars
<1> QED
  BY <1>1, <1>2, <1>3, <1>4, <1>5, CourseStep DEF Next

-----------------------------------------------------------------------------
(* What the pactl commands do to the sinks that are heard *)

\* An unload, of whatever index, silences at most.
LEMMA HeardAfterUnload ==
  ASSUME TypeOK, NEW i, UnloadModule(i) \/ UnloadModuleFails(i)
  PROVE  Heard' \subseteq Heard
BY ServerAssumption
DEF TypeOK, ServerTypeOK, Heard, Feeding, UnloadModule, UnloadModuleFails

\* A load adds at most the sink it is for.
LEMMA HeardAfterLoad ==
  ASSUME TypeOK, NEW i \in Ids, NEW what, LoadModule(i, what)
  PROVE  Heard' \subseteq Heard \cup {what}
BY DEF TypeOK, ServerTypeOK, Heard, Feeding, LoadModule

\* The output sink and the modules of other applications are not heard.
LEMMA HeardAfterOther ==
  ASSUME TypeOK, NEW i \in Ids, LoadModule(i, Output) \/ LoadModule(i, Foreign)
  PROVE  Heard' \subseteq Heard
BY ServerAssumption DEF TypeOK, ServerTypeOK, Heard, Feeding, LoadModule

\* Two fields of the operation under way are set after its beginning.
LEMMA Changed ==
  ASSUME NEW t, NEW o, NEW d, NEW s, NEW r, NEW s2, NEW r2,
         NEW c, c = [by |-> t, op |-> o, dev |-> d, aim |-> s, res |-> r]
  PROVE  /\ [c EXCEPT !.aim = s2] = [by |-> t, op |-> o, dev |-> d, aim |-> s2, res |-> r]
         /\ [c EXCEPT !.res = r2] = [by |-> t, op |-> o, dev |-> d, aim |-> s, res |-> r2]
OBVIOUS

\* A step of the operation under way that may fail, and makes nothing heard but
\* its target, is one of Playback's Work.
LEMMA WorkStep ==
  ASSUME TypeOK, NEW t \in Threads, opMu = t,
         UNCHANGED <<opMu, callVars, target>>,
         res' = res \/ res' = [res EXCEPT ![t] = "err"],
         Told' = Told,
         \/ Heard' \subseteq Heard
         \/ op[t] \in {"route", "resume"} /\ Heard' \subseteq Heard \cup {target[t]}
  PROVE  Play!Work
<1>1. UnderWay # Play!Nothing
  BY ManagerAssumption DEF UnderWay, Play!Nothing, Play!Operation
<1>2. UnderWay' = UnderWay \/ UnderWay' = [UnderWay EXCEPT !.res = "err"]
  <2>1. CASE res' = res
    BY <2>1 DEF UnderWay, callVars
  <2>2. CASE res' = [res EXCEPT ![t] = "err"]
    BY <2>2, Changed, ManagerAssumption DEF UnderWay, callVars, TypeOK
  <2> QED
    BY <2>1, <2>2
<1>3. Heard' \subseteq Heard \cup Play!Playable
  BY ManagerAssumption DEF UnderWay, Play!Playable
<1> QED
  BY <1>1, <1>2, <1>3 DEF Play!Work

\* An operation that is still early, and finds the sink s for its device.
LEMMA AimStep ==
  ASSUME TypeOK, NEW t \in Threads, opMu = t, UNCHANGED <<opMu, callVars, res>>,
         dev[t] \in Devices, target[t] = NoSink,
         NEW s \in Match[dev[t]], target' = [target EXCEPT ![t] = s],
         Told' = Told, Heard' = Heard
  PROVE  Play!Aim
<1>1. UnderWay.dev \in Devices /\ UnderWay.aim = NoSink
  BY ManagerAssumption DEF UnderWay
<1>2. UnderWay' = [UnderWay EXCEPT !.aim = s]
  BY Changed, ManagerAssumption DEF UnderWay, callVars, TypeOK
<1>3. s \in Match[UnderWay.dev]
  BY ManagerAssumption DEF UnderWay
<1> QED
  BY <1>1, <1>2, <1>3 DEF Play!Aim

-----------------------------------------------------------------------------
(* Every step is one of Playback's *)

LEMMA PlaybackInitially == Init => Play!PlaybackInit
BY DEF Init, UnderWay, Heard, Told, Play!PlaybackInit, Play!Nothing, Play!Operation

\* The steps of an operation.
LEMMA PlaybackOpStep ==
  ASSUME TypeInv, LockInv, CourseInv, UnrouteSilences, NEW t \in Threads, OpStep(t)
  PROVE  [Play!PlaybackNext]_Play!playback
<1> DEFINE Goal == [Play!PlaybackNext]_Play!playback
<1>t. TypeOK /\ Aimed /\ Addressed
  BY DEF TypeInv
<1>1. CASE Lock(t)
  <2>1. opMu = NoThread /\ opMu' = t
    BY <1>1 DEF Lock, CanLock
  <2>2. UnderWay = Play!Nothing
    BY <2>1 DEF UnderWay, Play!Nothing, Play!Operation
  <2>3. UnderWay' = Play!Operation(t, op[t], dev[t])
    BY <1>1, <2>1, ManagerAssumption
    DEF Lock, UnderWay, Play!Operation, CourseInv, Early, callVars, Goto
  <2>4. op[t] \in OpKinds /\ dev[t] \in Devices \cup {NoDevice}
    BY <1>1, <1>t DEF Lock, CourseInv, TypeOK
  <2>5. t \notin Told /\ Told' = Told
    BY <1>1, <1>t DEF Lock, Told, callVars, Goto, TypeOK
  <2>6. Heard' = Heard
    BY <1>1 DEF Lock, serverVars, Heard, Feeding
  <2> QED
    BY <2>2, <2>3, <2>4, <2>5, <2>6 DEF Play!Begin, Play!PlaybackNext
<1>2. CASE Unlock(t)
  <2>1. opMu = t /\ opMu' = NoThread
    BY <1>2 DEF Unlock, LockInv, Exclusive, Critical, PcLabels
  <2>2. UnderWay # Play!Nothing /\ UnderWay' = Play!Nothing
    BY <2>1, ManagerAssumption DEF UnderWay, Play!Nothing, Play!Operation
  <2>3. Told' = Told \cup {UnderWay.by}
    BY <1>2, <2>1, <1>t
    DEF Unlock, Told, UnderWay, Goto, callVars, CourseInv, Critical, PcLabels, TypeOK
  <2>4. UnderWay.op = "unroute" /\ UnderWay.res = "ok" => UnderWay.aim \notin Heard
    BY <1>2, <2>1, ManagerAssumption
    DEF Unlock, UnderWay, Heard, UnrouteSilences, Returns
  <2>5. Heard' = Heard
    BY <1>2 DEF Unlock, serverVars, Heard, Feeding
  <2> QED
    BY <2>2, <2>3, <2>4, <2>5 DEF Play!Return, Play!PlaybackNext
<1>3. ASSUME ~Lock(t), ~Unlock(t)
      PROVE  Goal
  <2>1. opMu = t /\ opMu' = t /\ op' = op
    BY <1>3, StepInside DEF Inside, LockInv, Exclusive
  <2>2. Told' = Told
    BY <1>3, <1>t, StepInside DEF Inside, Told, Critical, PcLabels
  <2>3. UNCHANGED modules => Heard' = Heard
    BY DEF Heard, Feeding
  <2> HIDE DEF Goal
  <2>4. ASSUME UNCHANGED <<callVars, target>>,
               res' = res \/ res' = [res EXCEPT ![t] = "err"],
               \/ Heard' \subseteq Heard
               \/ op[t] \in {"route", "resume"} /\ Heard' \subseteq Heard \cup {target[t]}
        PROVE  Goal
    BY <2>1, <2>2, <2>4, <1>t, WorkStep DEF Goal, Play!PlaybackNext
  <2>5. ASSUME UNCHANGED <<callVars, res>>, dev[t] \in Devices, target[t] = NoSink,
               NEW s \in Match[dev[t]], target' = [target EXCEPT ![t] = s],
               UNCHANGED modules
        PROVE  Goal
    BY <2>1, <2>2, <2>3, <2>5, <1>t, AimStep DEF Goal, Play!PlaybackNext
  <2>6. CASE List(t) \/ Scan(t) \/ Swept(t) \/ Clean(t) \/ Cleaned(t) \/ Record(t)
    BY <2>3, <2>4, <2>6
    DEF List, Scan, Swept, Clean, Cleaned, Record, Goto, serverVars, localVars
  <2>7. CASE \/ ListingFails(t) \/ LoadFails(t) \/ ResolveFails(t)
             \/ CleanFails(t) \/ UnloadFails(t) \/ AdjustFails(t)
    BY <2>3, <2>4, <2>7
    DEF ListingFails, LoadFails, ResolveFails, CleanFails, UnloadFails, AdjustFails,
        UnloadModuleFails, Fail, serverVars, localVars
  <2>8. CASE Sweep(t) \/ CleanOne(t)
    <3>1. Heard' \subseteq Heard
      BY <2>8, <1>t, HeardAfterUnload DEF Sweep, CleanOne
    <3> QED
      BY <2>4, <2>8, <3>1 DEF Sweep, CleanOne
  <2>9. CASE Drop(t)
    BY <2>4, <2>9, <1>t, HeardAfterUnload DEF Drop, Goto, localVars
  <2>10. CASE Create(t)
    BY <2>4, <2>10, <1>t, HeardAfterOther DEF Create, Goto, localVars
  <2>11. CASE LoadIsLost(t) \/ Load(t)
    <3>1. pc[t] = "load" => op[t] \in {"route", "resume"} /\ target[t] \in Sinks
      BY <1>t DEF CourseInv, Aimed
    <3> QED
      BY <2>4, <2>11, <3>1, <1>t, HeardAfterLoad, HeardAfterOther
      DEF LoadIsLost, Load, Goto, Fail, localVars
  <2>12. CASE Unload(t)
    <3>1. Heard' \subseteq Heard
      BY <2>12, <1>t, HeardAfterUnload DEF Unload
    <3> QED
      BY <2>4, <2>12, <3>1 DEF Unload, Released, Goto, Fail, localVars
  <2>13. CASE Resolve(t)
    BY <2>5, <2>13, <1>t
    DEF Resolve, ResolvesTo, Compare, Goto, serverVars, CourseInv, Early, Addressed,
        DeviceOps
  <2>14. CASE Adjust(t)
    BY <2>5, <2>14, <1>t
    DEF Adjust, ResolvesTo, Goto, serverVars, CourseInv, Early, Addressed, DeviceOps
  <2>15. CASE Forget(t)
    <3>1. PICK s \in Sinks \cup {NoSink} :
            /\ ResolvesTo(dev[t], s) \/ s = NoSink
            /\ target' = [target EXCEPT ![t] = s]
            /\ Goto(t, "unload") \/ Released(t, s)
      BY <2>15 DEF Forget
    <3>2. UNCHANGED <<callVars, modules>> /\ dev[t] \in Devices /\ target[t] = NoSink
      BY <2>15, <1>t DEF Forget, serverVars, CourseInv, Early, Addressed, DeviceOps
    <3>3. CASE s = NoSink
      BY <2>3, <2>4, <3>1, <3>2, <3>3, <1>t DEF Released, Goto, Fail, TypeOK
    <3>4. CASE s # NoSink
      BY <2>5, <3>1, <3>2, <3>4 DEF ResolvesTo, Released, Goto
    <3> QED
      BY <3>3, <3>4
  <2> QED
    BY <1>3, <2>6, <2>7, <2>8, <2>9, <2>10, <2>11, <2>12, <2>13, <2>14, <2>15
    DEF OpStep
<1> QED
  BY <1>1, <1>2, <1>3

\* The other steps.
LEMMA PlaybackElse ==
  ASSUME TypeInv, LockInv, CourseInv,
         \/ ServerActs
         \/ \E t \in Threads : AnyCall(t) \/ StopStep(t) \/ Finish(t)
         \/ Restart \/ UNCHANGED vars
  PROVE  [Play!PlaybackNext]_Play!playback
<1>t. TypeOK
  BY DEF TypeInv
<1>1. CASE ServerActs
  <2>1. UnderWay' = UnderWay /\ Told' = Told
    BY <1>1 DEF ServerActs, managerVars, callVars, localVars, UnderWay, Told
  <2>2. Heard' \subseteq Heard
    BY <1>1, <1>t, HeardAfterUnload, HeardAfterOther
    DEF ServerActs, ServerStep, SinkAppears, SinkDisappears, ModuleVanishes, ForeignLoads,
        Heard, Feeding
  <2> QED
    BY <2>1, <2>2 DEF Play!FallSilent, Play!PlaybackNext
<1>2. ASSUME NEW t \in Threads, AnyCall(t)
      PROVE  UNCHANGED Play!playback
  <2>1. PICK o \in Ops, d \in Devices \cup {NoDevice} : Call(t, o, d)
    BY <1>2 DEF AnyCall
  <2>2. opMu # t
    BY <2>1 DEF Call, LockInv, Exclusive, Critical
  <2>3. UnderWay' = UnderWay
    BY <2>1, <2>2, <1>t DEF Call, Goto, UnderWay, localVars, TypeOK
  <2>4. Told' = Told
    BY <2>1, <1>t DEF Call, Goto, Told, TypeOK
  <2>5. Heard' = Heard
    BY <2>1 DEF Call, serverVars, Heard, Feeding
  <2> QED
    BY <2>3, <2>4, <2>5 DEF Play!playback
<1>3. ASSUME NEW t \in Threads, StopStep(t)
      PROVE  Play!FallSilent
  <2>1. op[t] = "cleanup" /\ UNCHANGED <<opMu, op, dev, target, res>>
    BY <1>3 DEF StopStep, Collect, Release, ReleaseOutput, CourseInv, Goto, callVars,
                managerVars, localVars
  <2>2. UnderWay' = UnderWay /\ Told' = Told
    BY <1>3, <2>1, StopOutside DEF UnderWay, Told
  <2>3. Heard' \subseteq Heard
    <3>1. UNCHANGED modules \/ \E i : UnloadModule(i) \/ UnloadModuleFails(i)
      BY <1>3 DEF StopStep, Collect, Release, ReleaseOutput, serverVars
    <3> QED
      BY <3>1, <1>t, HeardAfterUnload DEF Heard, Feeding
  <2> QED
    BY <2>2, <2>3 DEF Play!FallSilent
<1>4. ASSUME NEW t \in Threads, Finish(t)
      PROVE  Play!Leave
  <2>1. t \in Told /\ Told' = Told \ {t}
    BY <1>4, <1>t DEF Finish, Told, TypeOK
  <2>2. opMu # t
    BY <1>4 DEF Finish, LockInv, Exclusive, Critical
  <2>3. UnderWay' = UnderWay
    BY <1>4, <2>2, <1>t DEF Finish, UnderWay, TypeOK
  <2>4. Heard' = Heard
    BY <1>4 DEF Finish, serverVars, Heard, Feeding
  <2> QED
    BY <2>1, <2>3, <2>4 DEF Play!Leave
<1>5. CASE Restart
  <2>1. UnderWay' = Play!Nothing /\ Told' = {} /\ Heard' = Heard
    BY <1>5
    DEF Restart, UnderWay, Told, Heard, Feeding, serverVars, Play!Nothing, Play!Operation
  <2> QED
    BY <2>1 DEF Play!Abandon, Play!PlaybackNext
<1>6. CASE UNCHANGED vars
  BY <1>6
  DEF vars, managerVars, callVars, localVars, serverVars, UnderWay, Told, Heard, Feeding,
      Play!playback
<1> QED
  BY <1>1, <1>2, <1>3, <1>4, <1>5, <1>6 DEF Play!PlaybackNext

\* Whatever fails and however often the daemon is restarted, the manager does
\* what Playback says: one operation at a time, a sink that begins to be heard
\* only in a Route or Resume aimed at it, and no Unroute that returns without an
\* error and leaves its sink sounding.
THEOREM ManagerImplementsPlayback == Spec => ImplementsPlayback
<1>1. ManagerInv => TypeInv /\ LockInv /\ UnrouteSilences
  BY ManagerInvParts DEF ManagerInv, LockInv
<1>2. Spec => []CourseInv
  <2>1. TypeInv /\ CourseInv /\ [Next]_vars => CourseInv'
    BY CourseNext
  <2> QED
    BY <1>1, <2>1, CourseInit, ManagerInvariant, PTL DEF Spec
<1>3. /\ TypeInv /\ LockInv /\ CourseInv /\ UnrouteSilences /\ [Next]_vars
      => [Play!PlaybackNext]_Play!playback
  BY PlaybackOpStep, PlaybackElse DEF Next
<1> QED
  BY <1>1, <1>2, <1>3, PlaybackInitially, ManagerInvariant, PTL
  DEF Spec, ImplementsPlayback, Play!PlaybackSpec
=============================================================================
