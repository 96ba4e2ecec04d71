--------------------------- MODULE ControllerProofs ---------------------------
(***************************************************************************)
(* Proofs about Controller and Volume, for any requests, devices, sinks    *)
(* and module indexes, and every fault: the controller uses the manager as *)
(* the manager's own specification says, and a single client's routes in   *)
(* the store agree with the manager's records.                             *)
(***************************************************************************)
EXTENDS Volume, PlaybackProofs

\* The manager's operations that requests call.
Called == DeviceOps \cup {"refresh"}

-----------------------------------------------------------------------------
(* What is known of each request and of its operation *)

\* A request is one of its thread's, and its manager call is the one it needs.
Asked(t) ==
  /\ cpc[t] # "idle" => <<kind[t], about[t]>> \in Requests[t]
  /\ cpc[t] \in {"dropping", "calling"} <=> pc[t] # "idle"
  /\ cpc[t] = "dropping" => op[t] = "unroute" /\ dev[t] \in work[t]
  /\ cpc[t] = "calling" =>
       op[t] = ManagerOp(kind[t]) /\ dev[t] = about[t] /\ work[t] = {}
  /\ cpc[t] = "publish" => kind[t] = "status"
  /\ work[t] # {} => kind[t] = "set" /\ cpc[t] \in {"ready", "dropping"}
  /\ about[t] \notin work[t]

Refreshing == {"list", "scan", "sweep", "create", "rescan", "resweep"}

\* An operation keeps to its steps; until it is over it has not failed; and one
\* that plays, pauses or adjusts a device, and has not failed, has its target.
OnCourse(t) ==
  /\ pc[t] \in Critical \ {"unlock"} =>
       /\ op[t] = "refresh" => pc[t] \in Refreshing
       /\ op[t] = "route" =>
            pc[t] \in Refreshing \cup
                        {"resolve", "drop", "clean", "cleaning", "load", "record"}
       /\ op[t] = "resume" => pc[t] \in Refreshing \cup {"resolve", "load", "record"}
       /\ op[t] = "unroute" => pc[t] \in {"forget", "unload", "clean", "cleaning"}
       /\ op[t] = "pause" => pc[t] \in {"forget", "unload"}
       /\ op[t] = "adjust" => pc[t] = "adjust"
  /\ pc[t] \notin {"unlock", "done"} => res[t] = "ok"
  /\ pc[t] \in Refreshing \ {"list"} /\ op[t] \in {"refresh", "route", "resume"} =>
       ret[t] = IF op[t] = "refresh" THEN "unlock" ELSE "resolve"
  /\ pc[t] \in {"unlock", "done"} /\ res[t] = "ok"
       /\ op[t] \in {"route", "resume", "pause", "adjust"} => target[t] \in Sinks

RequestInv ==
  /\ ControllerTypeOK
  /\ TypeInv
  /\ \A t \in Threads : Asked(t) /\ OnCourse(t)

-----------------------------------------------------------------------------
(* What single clients keep true *)

IsClient(t) == \E r \in Requests[t] : r[1] \in DeviceRequests

\* At most one thread asks for more than the status.
SingleClient == \A t, u \in Threads : IsClient(t) /\ IsClient(u) => t = u

\* Unroute and Pause have forgotten the record; Route and Resume return what is
\* recorded.
KnowsRecord(t) ==
  /\ op[t] \in {"unroute", "pause"} /\ pc[t] \notin {"idle", "lock", "forget"} =>
       routeModules[dev[t]] = NoModule
  /\ op[t] \in {"route", "resume"} /\ pc[t] \in {"unlock", "done"} /\ res[t] = "ok" =>
       module[t] = routeModules[dev[t]]

\* Thread t has a route of d that the store does not know yet.
Bringing(t, d) ==
  /\ cpc[t] = "calling" /\ dev[t] = d
  /\ op[t] \in {"route", "resume"} /\ pc[t] \in {"unlock", "done"} /\ res[t] = "ok"

Plays(d) ==
  d \in Reported /\ ~routes[d].paused /\ routes[d].module = routeModules[d]

\* A record is a reported route, or on its way to be one.
RecordsAgree ==
  \A d \in Devices :
    routeModules[d] # NoModule => Plays(d) \/ \E t \in Threads : Bringing(t, d)

\* An exclusive Route has on its list whatever else is reported.
SetsKnowOthers ==
  \A t \in Threads :
    kind[t] = "set" /\ cpc[t] \in {"ready", "dropping", "calling"} =>
      Reported \ {about[t]} \subseteq work[t]

AgreeInv ==
  /\ RequestInv
  /\ \A t \in Threads : KnowsRecord(t)
  /\ RecordsAgree
  /\ SetsKnowOthers

-----------------------------------------------------------------------------
(* The manager's part of a step *)

\* A step of an operation changes nothing of other threads, and goes on with the
\* same operation.
LEMMA OpKeeps ==
  ASSUME TypeInv, NEW t \in Threads, OpStep(t)
  PROVE  /\ UNCHANGED callVars
         /\ pc[t] \in Critical \cup {"lock"} /\ pc'[t] \in Critical \cup {"done"}
         /\ \A u \in Threads \ {t} :
              /\ pc'[u] = pc[u] /\ res'[u] = res[u] /\ ret'[u] = ret[u]
              /\ target'[u] = target[u] /\ module'[u] = module[u]
<1> USE DEF TypeInv, TypeOK, Critical, PcLabels, Goto, Fail, callVars, localVars
<1>1. CASE Lock(t)
  BY <1>1 DEF Lock
<1>2. CASE Unlock(t)
  BY <1>2 DEF Unlock
<1>3. CASE List(t)
  BY <1>3 DEF List, AfterListing, AfterRefresh
<1>4. CASE Scan(t)
  BY <1>4 DEF Scan
<1>5. CASE Sweep(t) \/ CleanOne(t)
  BY <1>5 DEF Sweep, CleanOne
<1>6. CASE Swept(t)
  BY <1>6 DEF Swept
<1>7. CASE Create(t)
  BY <1>7 DEF Create
<1>8. CASE ListingFails(t) \/ LoadFails(t) \/ LoadIsLost(t)
  BY <1>8 DEF ListingFails, LoadFails, LoadIsLost
<1>9. CASE Resolve(t)
  BY <1>9 DEF Resolve, Compare
<1>10. CASE ResolveFails(t) \/ AdjustFails(t)
  BY <1>10 DEF ResolveFails, AdjustFails
<1>11. CASE Drop(t) \/ Clean(t)
  BY <1>11 DEF Drop, Clean
<1>12. CASE CleanFails(t) \/ UnloadFails(t)
  BY <1>12 DEF CleanFails, UnloadFails
<1>13. CASE Cleaned(t)
  BY <1>13 DEF Cleaned
<1>14. CASE Load(t) \/ Record(t)
  BY <1>14 DEF Load, Record
<1>15. CASE Forget(t)
  BY <1>15 DEF Forget, Released
<1>16. CASE Unload(t)
  BY <1>16 DEF Unload, Released
<1>17. CASE Adjust(t)
  BY <1>17 DEF Adjust
<1> QED
  BY <1>1, <1>2, <1>3, <1>4, <1>5, <1>6, <1>7, <1>8, <1>9, <1>10, <1>11, <1>12,
     <1>13, <1>14, <1>15, <1>16, <1>17
  DEF OpStep

\* An operation stays on its course.
LEMMA CourseKept ==
  ASSUME TypeInv, NEW t \in Threads, OnCourse(t), OpStep(t)
  PROVE  OnCourse(t)'
<1> USE DEF TypeInv, TypeOK, Aimed, OnCourse, Refreshing, Critical, PcLabels, Goto, Fail,
        callVars, localVars
<1>1. CASE Lock(t)
  BY <1>1 DEF Lock
<1>2. CASE Unlock(t)
  BY <1>2 DEF Unlock
<1>3. CASE List(t)
  BY <1>3 DEF List, AfterListing, AfterRefresh
<1>4. CASE Scan(t)
  BY <1>4 DEF Scan
<1>5. CASE Sweep(t) \/ CleanOne(t)
  BY <1>5 DEF Sweep, CleanOne
<1>6. CASE Swept(t)
  BY <1>6 DEF Swept
<1>7. CASE Create(t)
  BY <1>7 DEF Create
<1>8. CASE ListingFails(t) \/ LoadFails(t) \/ LoadIsLost(t)
  BY <1>8 DEF ListingFails, LoadFails, LoadIsLost
<1>9. CASE Resolve(t)
  BY <1>9 DEF Resolve, Compare
<1>10. CASE ResolveFails(t) \/ AdjustFails(t)
  BY <1>10 DEF ResolveFails, AdjustFails
<1>11. CASE Drop(t) \/ Clean(t)
  BY <1>11 DEF Drop, Clean
<1>12. CASE CleanFails(t) \/ UnloadFails(t)
  BY <1>12 DEF CleanFails, UnloadFails
<1>13. CASE Cleaned(t)
  BY <1>13 DEF Cleaned
<1>14. CASE Load(t) \/ Record(t)
  BY <1>14 DEF Load, Record
<1>15. CASE Forget(t)
  BY <1>15, ManagerAssumption DEF Forget, Released, Addressed
<1>16. CASE Unload(t)
  BY <1>16 DEF Unload, Released
<1>17. CASE Adjust(t)
  <2>1. PICK s \in sinks : target' = [target EXCEPT ![t] = s]
    BY <1>17 DEF Adjust
  <2>2. s \in Sinks
    BY <2>1 DEF ServerTypeOK
  <2> QED
    BY <1>17, <2>1, <2>2 DEF Adjust
<1> QED
  BY <1>1, <1>2, <1>3, <1>4, <1>5, <1>6, <1>7, <1>8, <1>9, <1>10, <1>11, <1>12,
     <1>13, <1>14, <1>15, <1>16, <1>17
  DEF OpStep

\* Only Record and Forget change the records, each that of its device.
LEMMA RecordsKept ==
  ASSUME TypeInv, NEW t \in Threads, OpStep(t), ~Record(t), ~Forget(t)
  PROVE  UNCHANGED routeModules
BY DEF OpStep, Lock, Unlock, List, Scan, Sweep, Swept, Create, ListingFails, LoadFails,
       LoadIsLost, Resolve, ResolveFails, Drop, Clean, CleanOne, CleanFails, Cleaned,
       Load, Unload, UnloadFails, Adjust, AdjustFails, managerVars, recordVars

-----------------------------------------------------------------------------
(* The controller calls the manager as the manager's specification says *)

\* A step of the controller is a step of the manager, or none.
LEMMA ManagerSees ==
  ASSUME Called \subseteq Ops, RequestInv, [ControllerNext]_allVars
  PROVE  [Next]_vars
<1> USE DEF RequestInv, ControllerTypeOK
<1>1. ASSUME NEW t \in Threads, DropNext(t)
      PROVE  AnyCall(t)
  <2>1. PICK e \in work[t] : Call(t, "unroute", e)
    BY <1>1 DEF DropNext
  <2> QED
    BY <2>1 DEF AnyCall, Called, DeviceOps
<1>2. ASSUME NEW t \in Threads, CallManager(t)
      PROVE  AnyCall(t)
  <2>1. <<kind[t], about[t]>> \in Requests[t] /\ Call(t, ManagerOp(kind[t]), about[t])
    BY <1>2 DEF CallManager, Asked
  <2>2. \/ kind[t] \in DeviceRequests /\ about[t] \in Devices
        \/ kind[t] \in {"status", "tick"} /\ about[t] = NoDevice
    BY <2>1, ControllerAssumption
  <2> QED
    BY <2>1, <2>2 DEF AnyCall, Called, DeviceOps, ManagerOp, DeviceRequests, RequestKinds,
                      SettingRequests
<1>3. ASSUME NEW t \in Threads, RequestStep(t), ~DropNext(t), ~CallManager(t)
      PROVE  Finish(t) \/ UNCHANGED vars
  BY <1>3 DEF RequestStep, Dropped, AnswerOnly, CommitRoute, CommitUnroute, CommitPause,
              CommitResume, CommitSetting, ReadStatus, Publish, Answer
<1> QED
  BY <1>1, <1>2, <1>3 DEF ControllerNext, Receive, ManagerStep, allVars, Next

\* What a step of a thread leaves alone of another thread.
Still(u) ==
  /\ pc'[u] = pc[u] /\ op'[u] = op[u] /\ dev'[u] = dev[u] /\ res'[u] = res[u]
  /\ ret'[u] = ret[u] /\ target'[u] = target[u] /\ module'[u] = module[u]
  /\ cpc'[u] = cpc[u] /\ kind'[u] = kind[u] /\ about'[u] = about[u]
  /\ work'[u] = work[u]

\* What an answered call leaves.
LEMMA Finished ==
  ASSUME TypeInv, NEW t \in Threads, Finish(t)
  PROVE  /\ pc[t] = "done" /\ pc' = [pc EXCEPT ![t] = "idle"]
         /\ res' = [res EXCEPT ![t] = "ok"] /\ ret' = [ret EXCEPT ![t] = "unlock"]
         /\ \A u \in Threads \ {t} :
              /\ pc'[u] = pc[u] /\ op'[u] = op[u] /\ dev'[u] = dev[u]
              /\ res'[u] = res[u] /\ ret'[u] = ret[u]
              /\ target'[u] = target[u] /\ module'[u] = module[u]
         /\ UNCHANGED routeModules
BY DEF Finish, TypeInv, TypeOK, recordVars

\* Whose step it is: t's, and other threads stand still.
ThreadStep(t) ==
  \/ \E request \in Requests[t] : Receive(t, request[1], request[2])
  \/ RequestStep(t)
  \/ ManagerStep(t)

LEMMA OthersStill ==
  ASSUME RequestInv, NEW t \in Threads, ThreadStep(t)
  PROVE  \A u \in Threads \ {t} : Still(u)
<1> USE DEF RequestInv, ControllerTypeOK, TypeInv, TypeOK, Still, vars, callVars, localVars
<1>1. CASE ManagerStep(t)
  BY <1>1, OpKeeps DEF ManagerStep, controllerVars, requestVars
<1>2. CASE \E request \in Requests[t] : Receive(t, request[1], request[2])
  BY <1>2 DEF Receive
<1>3. CASE DropNext(t) \/ CallManager(t)
  BY <1>3 DEF DropNext, CallManager, Call, Goto
<1>4. CASE Dropped(t)
  BY <1>4, Finished DEF Dropped
<1>5. CASE AnswerOnly(t) \/ CommitRoute(t) \/ CommitUnroute(t) \/ CommitPause(t)
             \/ CommitResume(t) \/ CommitSetting(t)
  <2>1. PICK kinds : Answer(t, kinds)
    BY <1>5 DEF AnswerOnly, CommitRoute, CommitUnroute, CommitPause, CommitResume,
                CommitSetting
  <2>2. Finish(t)
    BY <2>1 DEF Answer
  <2> QED
    BY <2>1, <2>2, Finished DEF Answer
<1>6. CASE ReadStatus(t)
  BY <1>6, Finished DEF ReadStatus
<1>7. CASE Publish(t)
  BY <1>7 DEF Publish
<1> QED
  BY <1>1, <1>2, <1>3, <1>4, <1>5, <1>6, <1>7 DEF ThreadStep, RequestStep

\* A step of t keeps what is known of t's request and its operation.
LEMMA OwnKept ==
  ASSUME RequestInv, NEW t \in Threads, ThreadStep(t)
  PROVE  Asked(t)' /\ OnCourse(t)'
<1> USE ControllerAssumption, ManagerAssumption
    DEF RequestInv, ControllerTypeOK, TypeInv, TypeOK, vars, callVars, localVars
<1>1. CASE ManagerStep(t)
  <2>1. OnCourse(t)'
    BY <1>1, CourseKept DEF ManagerStep
  <2>2. Asked(t)'
    BY <1>1, OpKeeps
    DEF ManagerStep, Asked, controllerVars, requestVars, Critical, PcLabels
  <2> QED
    BY <2>1, <2>2
<1>2. CASE \E request \in Requests[t] : Receive(t, request[1], request[2])
  <2>1. PICK request \in Requests[t] : Receive(t, request[1], request[2])
    BY <1>2
  <2>2. OnCourse(t)'
    BY <2>1 DEF Receive, OnCourse, Critical
  <2>3. Asked(t)'
    BY <2>1 DEF Receive, Asked, Others, Reported
  <2> QED
    BY <2>2, <2>3
<1>3. CASE DropNext(t) \/ CallManager(t)
  <2>1. Asked(t) /\ OnCourse(t)
    OBVIOUS
  <2>2. OnCourse(t)'
    BY <1>3, <2>1 DEF DropNext, CallManager, Call, Goto, OnCourse, Critical, Refreshing
  <2>3. Asked(t)'
    BY <1>3, <2>1 DEF DropNext, CallManager, Call, Goto, Asked, ManagerOp, RequestKinds,
                      SettingRequests
  <2> QED
    BY <2>2, <2>3
<1>4. CASE Dropped(t)
  <2>1. Finish(t)
    BY <1>4 DEF Dropped
  <2>2. OnCourse(t)'
    BY <2>1, Finished DEF OnCourse, Critical, Refreshing
  <2>3. pc'[t] = "idle"
    BY <2>1, Finished
  <2>4. Asked(t)
    OBVIOUS
  <2>5. Asked(t)'
    BY <1>4, <2>3, <2>4 DEF Dropped, Asked
  <2> QED
    BY <2>2, <2>5
<1>5. CASE AnswerOnly(t) \/ CommitRoute(t) \/ CommitUnroute(t) \/ CommitPause(t)
             \/ CommitResume(t) \/ CommitSetting(t)
  <2>1. PICK kinds : Answer(t, kinds)
    BY <1>5 DEF AnswerOnly, CommitRoute, CommitUnroute, CommitPause, CommitResume,
                CommitSetting
  <2>2. OnCourse(t)'
    BY <2>1, Finished DEF Answer, OnCourse, Critical, Refreshing
  <2>3. Finish(t) /\ work[t] = {} /\ UNCHANGED work
    BY <2>1 DEF Answer, Asked
  <2>4. pc'[t] = "idle"
    BY <2>3, Finished
  <2>5. Asked(t)'
    BY <2>1, <2>3, <2>4 DEF Answer, Asked
  <2> QED
    BY <2>2, <2>5
<1>6. CASE ReadStatus(t)
  <2>1. Finish(t) /\ Asked(t)
    BY <1>6 DEF ReadStatus
  <2>2. OnCourse(t)' /\ pc'[t] = "idle"
    BY <2>1, Finished DEF OnCourse, Critical, Refreshing
  <2>3. Asked(t)'
    BY <1>6, <2>1, <2>2 DEF ReadStatus, Asked
  <2> QED
    BY <2>2, <2>3
<1>7. CASE Publish(t)
  <2>1. OnCourse(t)'
    BY <1>7 DEF Publish, OnCourse
  <2>2. Asked(t)'
    BY <1>7 DEF Publish, Asked
  <2> QED
    BY <2>1, <2>2
<1> QED
  BY <1>1, <1>2, <1>3, <1>4, <1>5, <1>6, <1>7 DEF ThreadStep, RequestStep
-----------------------------------------------------------------------------
(* Types *)

LEMMA RequestInit == ControllerInit => RequestInv
<1> SUFFICES ASSUME ControllerInit PROVE RequestInv
  OBVIOUS
<1>1. TypeInv
  BY TypeInit DEF ControllerInit
<1>2. ControllerTypeOK
  BY <1>1 DEF ControllerInit, ControllerTypeOK, TypeInv
<1>3. ASSUME NEW t \in Threads PROVE Asked(t) /\ OnCourse(t)
  BY DEF ControllerInit, Init, Asked, OnCourse, Critical, Refreshing
<1> QED
  BY <1>1, <1>2, <1>3 DEF RequestInv

\* A route that the manager has made, paused or resumed is one the store can hold.
LEMMA ReturnsRoute ==
  ASSUME RequestInv, NEW t \in Threads, NEW kinds, NEW paused \in BOOLEAN,
         NEW m \in Ids \cup {NoModule}, Succeeds(t), Answer(t, kinds),
         kinds \subseteq {"set", "add", "pause", "resume"}
  PROVE  about[t] \in Devices /\ Returned(t, paused, m) \in Route
<1>1. /\ kind[t] \in {"set", "add", "pause", "resume"}
      /\ <<kind[t], about[t]>> \in Requests[t]
      /\ op[t] \in {"route", "resume", "pause"}
  <2>1. Asked(t) /\ cpc[t] = "calling" /\ kind[t] \in {"set", "add", "pause", "resume"}
    BY DEF RequestInv, Answer
  <2> QED
    BY <2>1 DEF Asked, ManagerOp, SettingRequests
<1>2. about[t] \in Devices
  BY <1>1, ControllerAssumption
<1>3. target[t] \in Sinks
  <2>1. OnCourse(t) /\ pc[t] = "done" /\ res[t] = "ok"
    BY DEF RequestInv, Answer, Succeeds
  <2> QED
    BY <1>1, <2>1 DEF OnCourse
<1> QED
  BY <1>2, <1>3 DEF Returned, Route

LEMMA RoutesTyped ==
  ASSUME RequestInv, NEW t \in Threads, ThreadStep(t)
  PROVE  routes' \in [Devices -> Route \cup {NoRoute}]
<1> USE DEF RequestInv, ControllerTypeOK
<1>1. CASE CommitRoute(t)
  <2>1. about[t] \in Devices /\ Returned(t, FALSE, module[t]) \in Route
    BY <1>1, ReturnsRoute DEF CommitRoute, TypeInv, TypeOK
  <2> QED
    BY <1>1, <2>1 DEF CommitRoute, SetRoute
<1>2. CASE CommitPause(t)
  <2>1. about[t] \in Devices /\ Returned(t, TRUE, NoModule) \in Route
    BY <1>2, ReturnsRoute DEF CommitPause
  <2> QED
    BY <1>2, <2>1 DEF CommitPause, SetRoute
<1>3. CASE CommitResume(t)
  <2>1. about[t] \in Devices /\ Returned(t, FALSE, module[t]) \in Route
    BY <1>3, ReturnsRoute DEF CommitResume, TypeInv, TypeOK
  <2> QED
    BY <1>3, <2>1 DEF CommitResume, SetRoute
<1>4. CASE CommitUnroute(t) \/ Dropped(t)
  BY <1>4 DEF CommitUnroute, Dropped, RemoveRoute
<1> QED
  BY <1>1, <1>2, <1>3, <1>4
  DEF ThreadStep, RequestStep, Receive, DropNext, CallManager, AnswerOnly, CommitSetting,
      ReadStatus, Publish, ManagerStep, controllerVars, storeVars

LEMMA ControllerTyped ==
  ASSUME RequestInv, NEW t \in Threads, ThreadStep(t), TypeInv'
  PROVE  ControllerTypeOK'
<1> USE DEF RequestInv, ControllerTypeOK
<1>1. TypeOK' /\ routes' \in [Devices -> Route \cup {NoRoute}]
  BY RoutesTyped DEF TypeInv
<1>2. CASE ManagerStep(t)
  BY <1>1, <1>2 DEF ManagerStep, controllerVars, storeVars, requestVars
<1>3. CASE \E request \in Requests[t] : Receive(t, request[1], request[2])
  <2>1. PICK request \in Requests[t] : Receive(t, request[1], request[2])
    BY <1>3
  <2>2. request[1] \in RequestKinds /\ request[2] \in Devices \cup {NoDevice}
    BY ControllerAssumption DEF DeviceRequests, RequestKinds
  <2> QED
    BY <1>1, <2>1, <2>2 DEF Receive, storeVars, Others, Reported
<1>4. CASE DropNext(t) \/ CallManager(t)
  BY <1>1, <1>4 DEF DropNext, CallManager, storeVars
<1>5. CASE Dropped(t)
  BY <1>1, <1>5 DEF Dropped
<1>6. CASE AnswerOnly(t) \/ CommitRoute(t) \/ CommitUnroute(t) \/ CommitPause(t)
             \/ CommitResume(t) \/ CommitSetting(t)
  <2>1. PICK kinds : Answer(t, kinds)
    BY <1>6 DEF AnswerOnly, CommitRoute, CommitUnroute, CommitPause, CommitResume,
                CommitSetting
  <2> QED
    BY <1>1, <2>1 DEF Answer
<1>7. CASE ReadStatus(t)
  BY <1>1, <1>7 DEF ReadStatus, storeVars, TypeInv, TypeOK
<1>8. CASE Publish(t)
  BY <1>1, <1>8 DEF Publish, Reconciled
<1> QED
  BY <1>2, <1>3, <1>4, <1>5, <1>6, <1>7, <1>8 DEF ThreadStep, RequestStep

LEMMA RequestNext ==
  Called \subseteq Ops /\ RequestInv /\ [ControllerNext]_allVars => RequestInv'
<1> SUFFICES ASSUME Called \subseteq Ops, RequestInv, [ControllerNext]_allVars
             PROVE  RequestInv'
  OBVIOUS
<1>1. TypeInv'
  BY ManagerSees, TypeNext DEF RequestInv
<1>2. ASSUME NEW t \in Threads, ThreadStep(t)
      PROVE  RequestInv'
  <2>1. ControllerTypeOK'
    BY <1>1, <1>2, ControllerTyped
  <2>2. ASSUME NEW u \in Threads, u # t PROVE Asked(u)' /\ OnCourse(u)'
    BY <1>2, <2>2, OthersStill DEF Still, RequestInv, Asked, OnCourse
  <2>3. Asked(t)' /\ OnCourse(t)'
    BY <1>2, OwnKept
  <2> QED
    BY <1>1, <2>1, <2>2, <2>3 DEF RequestInv
<1>3. CASE (ServerActs /\ UNCHANGED controllerVars) \/ UNCHANGED allVars
  <2>1. UNCHANGED <<controllerVars, pc, op, dev, res, ret, target, module>>
    BY <1>3 DEF ServerActs, allVars, vars, callVars, localVars
  <2>2. ControllerTypeOK'
    BY <1>1, <2>1 DEF controllerVars, storeVars, requestVars, RequestInv, ControllerTypeOK,
                      TypeInv
  <2>3. ASSUME NEW u \in Threads PROVE Asked(u)' /\ OnCourse(u)'
    BY <2>1 DEF controllerVars, requestVars, RequestInv, Asked, OnCourse
  <2> QED
    BY <1>1, <2>2, <2>3 DEF RequestInv
<1> QED
  BY <1>2, <1>3 DEF ControllerNext, ThreadStep

\* Requests are calls the manager expects: all that holds of the manager under
\* any calls holds under the controller.
THEOREM ControllerUsesManager ==
  ASSUME Called \subseteq Ops
  PROVE  ControllerSpec => Spec
<1>1. ControllerInit => Init /\ RequestInv
  BY RequestInit DEF ControllerInit
<1>2. RequestInv /\ [ControllerNext]_allVars => RequestInv' /\ [Next]_vars
  BY RequestNext, ManagerSees
<1> QED
  BY <1>1, <1>2, PTL DEF ControllerSpec, Spec

\* The variables of the controller keep their types: no failing call stores a
\* route without a sink.
THEOREM ControllerTypeCorrect ==
  ASSUME Called \subseteq Ops
  PROVE  ControllerSpec => []ControllerTypeOK
<1>1. RequestInv => ControllerTypeOK
  BY DEF RequestInv
<1> QED
  BY <1>1, RequestInit, RequestNext, PTL DEF ControllerSpec

-----------------------------------------------------------------------------
(* A single client *)

\* A thread that is no client only refreshes.
OnlyRefreshes ==
  \A t \in Threads :
    ~IsClient(t) =>
      /\ pc[t] # "idle" => op[t] = "refresh"
      /\ cpc[t] # "idle" => kind[t] \in {"status", "tick"}

LEMMA ClientsOnly == RequestInv => OnlyRefreshes
<1> SUFFICES ASSUME RequestInv, NEW t \in Threads, ~IsClient(t)
             PROVE  /\ pc[t] # "idle" => op[t] = "refresh"
                    /\ cpc[t] # "idle" => kind[t] \in {"status", "tick"}
  BY DEF OnlyRefreshes
<1>1. Asked(t)
  BY DEF RequestInv
<1>2. ASSUME cpc[t] # "idle" PROVE kind[t] \in {"status", "tick"}
  <2>1. <<kind[t], about[t]>> \in Requests[t] /\ kind[t] \notin DeviceRequests
    BY <1>1, <1>2 DEF Asked, IsClient
  <2> QED
    BY <2>1, ControllerAssumption
<1>3. ASSUME pc[t] # "idle" PROVE op[t] = "refresh"
  <2>1. cpc[t] \in {"dropping", "calling"} /\ kind[t] \in {"status", "tick"}
    BY <1>1, <1>2, <1>3 DEF Asked
  <2> QED
    BY <1>1, <2>1 DEF Asked, ManagerOp, SettingRequests
<1> QED
  BY <1>2, <1>3

LEMMA ClientsOnlyNext == RequestInv' => OnlyRefreshes'
BY ClientsOnly, PTL

\* What is kept of a client: the facts of AgreeInv with it as the only one.
OwnAgreement(t) ==
  /\ KnowsRecord(t)
  /\ \A d \in Devices : routeModules[d] # NoModule => Plays(d) \/ Bringing(t, d)
  /\ kind[t] = "set" /\ cpc[t] \in {"ready", "dropping", "calling"} =>
       Reported \ {about[t]} \subseteq work[t]

\* The manager's part: Forget and Record change the records.
LEMMA AgreesInManager ==
  ASSUME RequestInv, NEW t \in Threads, OwnAgreement(t), ManagerStep(t)
  PROVE  OwnAgreement(t)'
<1> USE DEF RequestInv
<1>1. /\ OpStep(t) /\ UNCHANGED <<routes, cpc, kind, about, work, op, dev>>
      /\ Asked(t) /\ OnCourse(t) /\ TypeInv
  BY OpKeeps DEF ManagerStep, controllerVars, storeVars, requestVars, callVars
<1>2. pc[t] \in Critical \cup {"lock"} /\ pc'[t] \in Critical \cup {"done"}
  BY <1>1, OpKeeps
<1>3. op[t] \in Called
  <2>1. \/ cpc[t] = "dropping" /\ op[t] = "unroute"
        \/ cpc[t] = "calling" /\ op[t] = ManagerOp(kind[t])
    BY <1>1, <1>2 DEF Asked, Critical
  <2>2. kind[t] \in RequestKinds
    BY <1>1, <2>1, ControllerAssumption DEF Asked, DeviceRequests, RequestKinds
  <2> QED
    BY <2>1, <2>2 DEF ManagerOp, Called, DeviceOps, RequestKinds, SettingRequests
<1>4. CASE Forget(t)
  <2>1. /\ op[t] \in {"unroute", "pause"} /\ pc[t] = "forget" /\ dev[t] \in Devices
        /\ routeModules' = [routeModules EXCEPT ![dev[t]] = NoModule]
    BY <1>1, <1>4 DEF Forget, ForgetRoute, TypeInv, Addressed, DeviceOps
  <2>2. KnowsRecord(t)'
    BY <1>1, <2>1 DEF KnowsRecord, TypeInv, TypeOK
  <2>3. ASSUME NEW d \in Devices, routeModules'[d] # NoModule PROVE Plays(d)'
    BY <1>1, <2>1, <2>3 DEF OwnAgreement, Plays, Bringing, Reported, TypeInv, TypeOK
  <2> QED
    BY <1>1, <2>2, <2>3 DEF OwnAgreement, Reported
<1>5. CASE Record(t)
  <2>1. /\ pc[t] = "record" /\ pc'[t] = "unlock" /\ UNCHANGED module
        /\ routeModules' = [routeModules EXCEPT ![dev[t]] = module[t]]
    BY <1>1, <1>5 DEF Record, Goto, localVars, TypeInv, TypeOK
  <2>2. op[t] \in {"route", "resume"}
    <3>1. pc[t] \in Critical \ {"unlock"} /\ pc[t] \notin Refreshing
      BY <2>1 DEF Critical, PcLabels, Refreshing
    <3>2. op[t] \notin {"refresh", "unroute", "pause", "adjust"}
      BY <1>1, <2>1, <3>1 DEF OnCourse
    <3> QED
      BY <1>3, <3>2 DEF Called, DeviceOps
  <2>3. res'[t] = "ok"
    BY <1>1, <1>5, <2>1 DEF OnCourse, Record, Goto, TypeInv, TypeOK
  <2>4. dev[t] \in Devices /\ cpc[t] = "calling"
    BY <1>1, <2>1, <2>2 DEF Asked, TypeInv, Addressed, DeviceOps
  <2>5. KnowsRecord(t)'
    BY <1>1, <2>1, <2>2, <2>4 DEF KnowsRecord, TypeInv, TypeOK
  <2>6. ASSUME NEW d \in Devices, routeModules'[d] # NoModule
        PROVE  Plays(d)' \/ Bringing(t, d)'
    BY <1>1, <2>1, <2>2, <2>4, <2>6, <2>3
    DEF OwnAgreement, Plays, Bringing, Reported, TypeInv, TypeOK
  <2> QED
    BY <1>1, <2>5, <2>6 DEF OwnAgreement, Reported
<1>6. CASE ~Forget(t) /\ ~Record(t)
  <2>1. UNCHANGED routeModules
    BY <1>1, <1>6, RecordsKept
  <2>2. KnowsRecord(t)'
    <3>1. KnowsRecord(t)
      BY DEF OwnAgreement
    <3>2. ASSUME op[t] \in {"unroute", "pause"}, pc'[t] \notin {"idle", "lock", "forget"}
          PROVE  routeModules[dev[t]] = NoModule
      <4>1. pc[t] # "lock"
        BY <1>1, <3>2 DEF OpStep, Lock, Unlock, List, Scan, Sweep, Swept, Create,
            ListingFails, LoadFails, LoadIsLost, Resolve, ResolveFails, Drop, Clean,
            CleanOne, CleanFails, Cleaned, Load, Record, Forget, Unload, UnloadFails,
            Adjust, AdjustFails, Goto, TypeInv, TypeOK
      <4>2. pc[t] # "forget"
        BY <1>1, <1>6 DEF OpStep, Lock, Unlock, List, Scan, Sweep, Swept, Create,
            ListingFails, LoadFails, LoadIsLost, Resolve, ResolveFails, Drop, Clean,
            CleanOne, CleanFails, Cleaned, Load, Record, Unload, UnloadFails,
            Adjust, AdjustFails
      <4> QED
        BY <1>2, <3>1, <3>2, <4>1, <4>2 DEF KnowsRecord, Critical
    <3>3. ASSUME op[t] \in {"route", "resume"}, pc'[t] \in {"unlock", "done"},
                 res'[t] = "ok"
          PROVE  module'[t] = routeModules[dev[t]]
      <4>1. CASE Unlock(t)
        BY <1>1, <3>1, <3>3, <4>1 DEF KnowsRecord, Unlock, Goto, localVars, TypeInv, TypeOK
      <4>2. CASE Resolve(t)
        BY <1>1, <3>3, <4>2 DEF Resolve, Compare, Goto, TypeInv, TypeOK
      <4>3. ASSUME ~Unlock(t), ~Resolve(t)
            PROVE  FALSE
        <5> USE <1>1, <1>6, <3>3, <4>3
            DEF OnCourse, Critical, Refreshing, Goto, Fail, TypeInv, TypeOK
        <5>1. ~Lock(t) /\ ~Sweep(t) /\ ~CleanOne(t)
          BY DEF Lock, Sweep, CleanOne
        <5>2. ~List(t) /\ ~Scan(t) /\ ~Swept(t) /\ ~Create(t)
          BY DEF List, Scan, Swept, Create, AfterListing, AfterRefresh
        <5>3. ~ListingFails(t) /\ ~LoadFails(t) /\ ~LoadIsLost(t) /\ ~ResolveFails(t)
          BY DEF ListingFails, LoadFails, LoadIsLost, ResolveFails
        <5>4. ~Drop(t) /\ ~Clean(t) /\ ~CleanFails(t) /\ ~Cleaned(t) /\ ~Load(t)
          BY DEF Drop, Clean, CleanFails, Cleaned, Load
        <5>5. ~Unload(t) /\ ~UnloadFails(t) /\ ~Adjust(t) /\ ~AdjustFails(t)
          BY DEF Unload, UnloadFails, Released, Adjust, AdjustFails
        <5> QED
          BY <5>1, <5>2, <5>3, <5>4, <5>5 DEF OpStep
      <4> QED
        BY <4>1, <4>2, <4>3
    <3> QED
      BY <1>1, <2>1, <3>2, <3>3 DEF KnowsRecord
  <2>3. ASSUME NEW d \in Devices, Bringing(t, d)
        PROVE  Bringing(t, d)'
    BY <1>1, <1>2, <2>3
    DEF Bringing, Critical, OpStep, Lock, Unlock, List, Scan, Sweep, Swept, Create,
        ListingFails, LoadFails, LoadIsLost, Resolve, ResolveFails, Drop, Clean,
        CleanOne, CleanFails, Cleaned, Load, Record, Forget, Unload, UnloadFails,
        Adjust, AdjustFails, Goto, TypeInv, TypeOK
  <2> QED
    BY <1>1, <2>1, <2>2, <2>3 DEF OwnAgreement, Plays, Reported
<1> QED
  BY <1>4, <1>5, <1>6

\* The request's part: the store is written when the manager has answered.
LEMMA AgreesInRequest ==
  ASSUME RequestInv, NEW t \in Threads, OwnAgreement(t), RequestStep(t)
  PROVE  OwnAgreement(t)'
<1> USE DEF RequestInv, ControllerTypeOK
<1>1. Asked(t) /\ OnCourse(t) /\ KnowsRecord(t) /\ TypeInv
  BY DEF OwnAgreement
<1>2. CASE DropNext(t) \/ CallManager(t)
  <2>1. PICK o, e : Call(t, o, e) /\ o # "cleanup"
    <3>1. CASE DropNext(t)
      BY <3>1 DEF DropNext
    <3>2. CASE CallManager(t)
      <4>1. Call(t, ManagerOp(kind[t]), about[t]) /\ cpc[t] = "ready"
        BY <3>2 DEF CallManager
      <4>2. kind[t] \in RequestKinds
        BY <1>1, <4>1, ControllerAssumption DEF Asked, DeviceRequests, RequestKinds
      <4>3. ManagerOp(kind[t]) # "cleanup"
        BY <4>2 DEF ManagerOp, RequestKinds, SettingRequests
      <4> QED
        BY <4>1, <4>3
    <3> QED
      BY <1>2, <3>1, <3>2
  <2>2. /\ cpc[t] = "ready" /\ cpc'[t] \in {"dropping", "calling"}
        /\ UNCHANGED <<routes, kind, about, work>>
    BY <1>2 DEF DropNext, CallManager, storeVars
  <2>3. pc'[t] = "lock" /\ UNCHANGED routeModules
    BY <1>1, <2>1 DEF Call, Goto, recordVars, TypeInv, TypeOK
  <2>4. KnowsRecord(t)'
    BY <2>3 DEF KnowsRecord
  <2> QED
    BY <2>2, <2>3, <2>4 DEF OwnAgreement, Plays, Reported, Bringing
<1>3. CASE Dropped(t)
  <2>1. Finish(t) /\ RemoveRoute(dev[t]) /\ op[t] = "unroute" /\ pc[t] = "done"
    BY <1>1, <1>3 DEF Dropped, Asked
  <2>2. pc'[t] = "idle" /\ UNCHANGED routeModules
    BY <1>1, <2>1, Finished DEF TypeInv, TypeOK
  <2>3. routeModules[dev[t]] = NoModule
    BY <1>1, <2>1 DEF KnowsRecord
  <2>4. KnowsRecord(t)'
    BY <2>2 DEF KnowsRecord
  <2>5. ASSUME NEW d \in Devices, routeModules'[d] # NoModule PROVE Plays(d)'
    BY <1>3, <2>1, <2>2, <2>3, <2>5
    DEF Dropped, OwnAgreement, Plays, Reported, Bringing, RemoveRoute
  <2>6. Reported' = Reported \ {dev[t]}
    BY <2>1 DEF RemoveRoute, Reported
  <2>7. /\ UNCHANGED <<kind, about>> /\ cpc[t] = "dropping"
        /\ work' = [work EXCEPT ![t] = @ \ {dev[t]}]
    BY <1>3 DEF Dropped
  <2> QED
    BY <2>4, <2>5, <2>6, <2>7 DEF OwnAgreement
<1>4. ASSUME NEW kinds, Answer(t, kinds)
      PROVE  /\ Finish(t) /\ pc[t] = "done" /\ pc'[t] = "idle" /\ cpc'[t] = "idle"
             /\ UNCHANGED routeModules /\ KnowsRecord(t)'
             /\ kind[t] \in kinds /\ op[t] = ManagerOp(kind[t]) /\ dev[t] = about[t]
  <2>1. Finish(t)
    BY <1>4 DEF Answer
  <2>2. pc'[t] = "idle" /\ UNCHANGED routeModules
    BY <1>1, <2>1, Finished DEF TypeInv, TypeOK
  <2> QED
    BY <1>1, <1>4, <2>1, <2>2 DEF Answer, Asked, KnowsRecord
<1>5. CASE CommitRoute(t) \/ CommitResume(t)
  <2>1. /\ op[t] \in {"route", "resume"} /\ res[t] = "ok" /\ pc[t] = "done"
        /\ dev[t] = about[t] /\ cpc'[t] = "idle" /\ UNCHANGED routeModules
        /\ KnowsRecord(t)' /\ SetRoute(about[t], Returned(t, FALSE, module[t]))
    <3>1. CASE CommitRoute(t)
      <4>1. Answer(t, {"set", "add"})
        BY <3>1 DEF CommitRoute
      <4>2. /\ op[t] = ManagerOp(kind[t]) /\ kind[t] \in {"set", "add"} /\ pc[t] = "done"
            /\ dev[t] = about[t] /\ cpc'[t] = "idle" /\ UNCHANGED routeModules
            /\ KnowsRecord(t)'
        BY <1>4, <4>1
      <4>3. op[t] = "route"
        BY <4>2 DEF ManagerOp, SettingRequests
      <4> QED
        BY <3>1, <4>2, <4>3 DEF CommitRoute, Succeeds
    <3>2. CASE CommitResume(t)
      BY <1>4, <3>2 DEF CommitResume, Succeeds, ManagerOp, SettingRequests, Answer
    <3> QED
      BY <1>5, <3>1, <3>2
  <2>2. module[t] = routeModules[about[t]]
    BY <1>1, <2>1 DEF KnowsRecord
  <2>3. Returned(t, FALSE, module[t]) # NoRoute
    <3>1. PICK kinds : Answer(t, kinds) /\ kinds \subseteq {"set", "add", "resume"}
      BY <1>5 DEF CommitRoute, CommitResume
    <3>2. Succeeds(t) /\ module[t] \in Ids \cup {NoModule}
      BY <1>1, <2>1 DEF Succeeds, TypeInv, TypeOK
    <3>3. Returned(t, FALSE, module[t]) \in Route
      BY <3>1, <3>2, ReturnsRoute
    <3> QED
      BY <3>3, ControllerAssumption
  <2>4. about[t] \in Devices
    BY <1>1, <2>1 DEF TypeInv, Addressed, DeviceOps
  <2>5. ASSUME NEW d \in Devices, routeModules'[d] # NoModule PROVE Plays(d)'
    BY <2>1, <2>2, <2>3, <2>4, <2>5
    DEF SetRoute, Returned, OwnAgreement, Plays, Reported, Bringing
  <2> QED
    BY <2>1, <2>5 DEF OwnAgreement
<1>6. CASE CommitUnroute(t) \/ CommitPause(t)
  <2>1. /\ op[t] \in {"unroute", "pause"} /\ pc[t] = "done"
        /\ dev[t] = about[t] /\ cpc'[t] = "idle" /\ UNCHANGED routeModules
        /\ KnowsRecord(t)'
    BY <1>4, <1>6 DEF CommitUnroute, CommitPause, ManagerOp, SettingRequests
  <2>2. routeModules[about[t]] = NoModule
    BY <1>1, <2>1 DEF KnowsRecord
  <2>3. \A d \in Devices \ {about[t]} : routes'[d] = routes[d]
    BY <1>6 DEF CommitUnroute, CommitPause, RemoveRoute, SetRoute
  <2>5. ASSUME NEW d \in Devices, routeModules'[d] # NoModule PROVE Plays(d)'
    BY <2>1, <2>2, <2>3, <2>5 DEF OwnAgreement, Plays, Reported, Bringing
  <2> QED
    BY <2>1, <2>5 DEF OwnAgreement
<1>7. CASE AnswerOnly(t) \/ CommitSetting(t)
  <2>1. /\ res[t] # "ok" \/ op[t] \in {"refresh", "adjust"}
        /\ cpc'[t] = "idle" /\ UNCHANGED <<routes, routeModules>> /\ KnowsRecord(t)'
    BY <1>4, <1>7 DEF AnswerOnly, CommitSetting, Succeeds, ManagerOp, SettingRequests
  <2> QED
    BY <2>1 DEF OwnAgreement, Plays, Reported, Bringing
<1>8. CASE ReadStatus(t)
  <2>1. Finish(t) /\ op[t] = "refresh" /\ UNCHANGED routes /\ cpc'[t] = "publish"
    BY <1>1, <1>8 DEF ReadStatus, storeVars, Asked, ManagerOp, SettingRequests
  <2>2. pc'[t] = "idle" /\ UNCHANGED routeModules
    BY <1>1, <2>1, Finished DEF TypeInv, TypeOK
  <2> QED
    BY <2>1, <2>2 DEF OwnAgreement, KnowsRecord, Plays, Reported, Bringing
<1>9. CASE Publish(t)
  <2>1. UNCHANGED <<routes, routeModules, pc, op, dev, module, res>> /\ cpc'[t] = "idle"
        /\ cpc[t] = "publish"
    BY <1>9 DEF Publish, vars, managerVars, recordVars, callVars, localVars
  <2> QED
    BY <2>1 DEF OwnAgreement, KnowsRecord, Plays, Reported, Bringing
<1> QED
  BY <1>2, <1>3, <1>5, <1>6, <1>7, <1>8, <1>9 DEF RequestStep

LEMMA AgreesOnReceipt ==
  ASSUME RequestInv, NEW t \in Threads, OwnAgreement(t),
         NEW k, NEW d \in Devices \cup {NoDevice}, Receive(t, k, d)
  PROVE  OwnAgreement(t)'
<1>1. UNCHANGED <<routes, routeModules, pc, op, dev, module, res>>
  BY DEF Receive, vars, managerVars, recordVars, callVars, localVars, storeVars
<1>2. /\ cpc[t] = "idle" /\ kind'[t] = k /\ about'[t] = d /\ cpc'[t] = "ready"
      /\ k = "set" => work'[t] = Reported \ {d}
  BY DEF Receive, Others, RequestInv, ControllerTypeOK
<1> QED
  BY <1>1, <1>2 DEF OwnAgreement, KnowsRecord, Plays, Reported, Bringing

AllAgree == (\A t \in Threads : KnowsRecord(t)) /\ RecordsAgree /\ SetsKnowOthers

\* With a single client its part is the whole.
PartIsWhole == \A t \in Threads : IsClient(t) => (AllAgree <=> OwnAgreement(t))

LEMMA OneAgrees == SingleClient /\ RequestInv => PartIsWhole
<1> SUFFICES
      ASSUME SingleClient, RequestInv, NEW t \in Threads, IsClient(t)
      PROVE  AllAgree <=> OwnAgreement(t)
  BY DEF PartIsWhole
<1>1. ASSUME NEW u \in Threads, u # t
      PROVE  /\ pc[u] # "idle" => op[u] = "refresh"
             /\ cpc[u] # "idle" => kind[u] \in {"status", "tick"}
  BY <1>1, ClientsOnly DEF OnlyRefreshes, SingleClient
<1>2. ASSUME NEW u \in Threads, u # t
      PROVE  KnowsRecord(u)
  BY <1>1, <1>2 DEF KnowsRecord
<1>3. ASSUME NEW u \in Threads, u # t, NEW d \in Devices
      PROVE  ~Bringing(u, d)
  BY <1>1, <1>3 DEF Bringing
<1>4. ASSUME NEW u \in Threads, u # t
      PROVE  ~(kind[u] = "set" /\ cpc[u] \in {"ready", "dropping", "calling"})
  BY <1>1, <1>4
<1> QED
  BY <1>2, <1>3, <1>4 DEF AllAgree, RecordsAgree, SetsKnowOthers, OwnAgreement

LEMMA OneAgreesNext == SingleClient /\ RequestInv' => PartIsWhole'
<1>1. SingleClient' <=> SingleClient
  BY DEF SingleClient, IsClient, DeviceRequests, RequestKinds
<1> QED
  BY <1>1, OneAgrees, PTL

\* What a thread that is no client leaves alone.
LEMMA OthersWriteNothing ==
  ASSUME RequestInv, NEW t \in Threads, ThreadStep(t), ~IsClient(t)
  PROVE  UNCHANGED <<routes, routeModules>>
<1>1. /\ pc[t] # "idle" => op[t] = "refresh"
      /\ cpc[t] # "idle" => kind[t] \in {"status", "tick"}
  BY ClientsOnly DEF OnlyRefreshes
<1>2. TypeInv /\ Asked(t) /\ OnCourse(t)
  BY DEF RequestInv
<1>3. CASE ManagerStep(t)
  <2>1. OpStep(t) /\ UNCHANGED routes
    BY <1>3 DEF ManagerStep, controllerVars, storeVars
  <2>2. pc[t] \in Critical \cup {"lock"}
    BY <1>2, <2>1, OpKeeps
  <2>3. op[t] = "refresh"
    BY <1>1, <2>2 DEF Critical
  <2>4. ~Record(t) /\ ~Forget(t)
    BY <1>2, <2>3 DEF Record, Forget, OnCourse, Critical, PcLabels, Refreshing
  <2> QED
    BY <1>2, <2>1, <2>4, RecordsKept
<1>4. CASE \E request \in Requests[t] : Receive(t, request[1], request[2])
  BY <1>4 DEF Receive, vars, managerVars, recordVars, storeVars
<1>5. CASE DropNext(t) \/ CallManager(t)
  BY <1>5 DEF DropNext, CallManager, Call, recordVars, storeVars
<1>6. ~Dropped(t) /\ ~CommitRoute(t) /\ ~CommitUnroute(t) /\ ~CommitPause(t)
        /\ ~CommitResume(t) /\ ~CommitSetting(t)
  BY <1>1, <1>2 DEF Dropped, Asked, CommitRoute, CommitUnroute, CommitPause, CommitResume,
                    CommitSetting, Answer, SettingRequests
<1>7. CASE AnswerOnly(t) \/ ReadStatus(t)
  <2>1. Finish(t) /\ UNCHANGED routes
    BY <1>7 DEF AnswerOnly, Answer, ReadStatus, storeVars
  <2> QED
    BY <1>2, <2>1, Finished
<1>8. CASE Publish(t)
  BY <1>8 DEF Publish, vars, managerVars, recordVars
<1> QED
  BY <1>3, <1>4, <1>5, <1>6, <1>7, <1>8 DEF ThreadStep, RequestStep

LEMMA AgreeInit == ControllerInit => AgreeInv
<1> SUFFICES ASSUME ControllerInit PROVE AgreeInv
  OBVIOUS
<1>1. RequestInv
  BY RequestInit
<1> QED
  BY <1>1 DEF ControllerInit, Init, AgreeInv, KnowsRecord, RecordsAgree, SetsKnowOthers

LEMMA AgreeNext ==
  Called \subseteq Ops /\ SingleClient /\ AgreeInv /\ [ControllerNext]_allVars => AgreeInv'
<1> SUFFICES ASSUME Called \subseteq Ops, SingleClient, AgreeInv, [ControllerNext]_allVars
             PROVE  AgreeInv'
  OBVIOUS
<1>1. RequestInv /\ RequestInv'
  BY RequestNext DEF AgreeInv
<1>2. ASSUME NEW t \in Threads, ThreadStep(t), IsClient(t)
      PROVE  AgreeInv'
  <2>1. OwnAgreement(t)
    BY <1>1, <1>2, OneAgrees DEF PartIsWhole, AllAgree, AgreeInv
  <2>2. ASSUME NEW request \in Requests[t], Receive(t, request[1], request[2])
        PROVE  OwnAgreement(t)'
    <3>1. request[2] \in Devices \cup {NoDevice}
      BY ControllerAssumption
    <3> QED
      BY <1>1, <2>1, <2>2, <3>1, AgreesOnReceipt
  <2>3. OwnAgreement(t)'
    BY <1>1, <1>2, <2>1, <2>2, AgreesInManager, AgreesInRequest DEF ThreadStep
  <2> QED
    BY <1>1, <1>2, <2>3, OneAgreesNext
    DEF PartIsWhole, AllAgree, AgreeInv, IsClient, DeviceRequests, RequestKinds
<1>3. ASSUME NEW t \in Threads, ThreadStep(t), ~IsClient(t)
      PROVE  AgreeInv'
  <2>1. UNCHANGED <<routes, routeModules>> /\ \A u \in Threads \ {t} : Still(u)
    BY <1>1, <1>3, OthersWriteNothing, OthersStill
  <2>2. /\ pc'[t] # "idle" => op'[t] = "refresh"
        /\ cpc'[t] # "idle" => kind'[t] \in {"status", "tick"}
    BY <1>1, <1>3, ClientsOnlyNext DEF OnlyRefreshes, IsClient, DeviceRequests, RequestKinds
  <2>3. ASSUME NEW u \in Threads PROVE KnowsRecord(u)'
    BY <2>1, <2>2 DEF Still, AgreeInv, KnowsRecord
  <2>4. ASSUME NEW u \in Threads, NEW d \in Devices, Bringing(u, d) PROVE Bringing(u, d)'
    <3>1. u # t
      BY <1>1, <1>3, <2>4, ClientsOnly DEF OnlyRefreshes, Bringing
    <3> QED
      BY <2>1, <2>4, <3>1 DEF Still, Bringing
  <2>5. RecordsAgree'
    BY <2>1, <2>4 DEF AgreeInv, RecordsAgree, Plays, Reported
  <2>6. SetsKnowOthers'
    BY <2>1, <2>2 DEF Still, AgreeInv, SetsKnowOthers, Reported
  <2> QED
    BY <1>1, <2>3, <2>5, <2>6 DEF AgreeInv
<1>4. CASE (ServerActs /\ UNCHANGED controllerVars) \/ UNCHANGED allVars
  <2>1. UNCHANGED <<routes, routeModules, cpc, kind, about, work, pc, op, dev, res, module>>
    BY <1>4 DEF ServerActs, allVars, vars, managerVars, recordVars, callVars, localVars,
                controllerVars, storeVars, requestVars
  <2> QED
    BY <1>1, <2>1 DEF AgreeInv, KnowsRecord, RecordsAgree, SetsKnowOthers, Plays, Reported,
                      Bringing
<1> QED
  BY <1>2, <1>3, <1>4 DEF ControllerNext, ThreadStep

\* A loopback the manager keeps for a single client is in the list of routes, as
\* one that plays, whatever fails in between.
THEOREM RecordsReported ==
  ASSUME Called \subseteq Ops, SingleClient
  PROVE  ControllerSpec => []RecordedIsReported
<1>1. AgreeInv => RecordedIsReported
  BY DEF AgreeInv, RecordsAgree, RecordedIsReported, Touched, Plays, Bringing
<1> QED
  BY <1>1, AgreeInit, AgreeNext, PTL DEF ControllerSpec

\* When an exclusive Route of a single client has made its route, no other device
\* has one, though any Unroute on the way may have failed.
THEOREM SetsAreExclusive ==
  ASSUME Called \subseteq Ops, SingleClient
  PROVE  ControllerSpec => []SetIsExclusive
<1>1. AgreeInv => SetIsExclusive
  <2> SUFFICES ASSUME AgreeInv, NEW t \in Threads, cpc[t] = "calling", pc[t] = "done",
                      kind[t] = "set", NEW e \in Devices \ {about[t]}
               PROVE  e \notin Reported /\ routeModules[e] = NoModule
    BY DEF SetIsExclusive
  <2>1. /\ RequestInv /\ Asked(t) /\ dev[t] = about[t] /\ work[t] = {}
        /\ IsClient(t)
    BY DEF AgreeInv, RequestInv, Asked, IsClient, DeviceRequests, RequestKinds
  <2>2. e \notin Reported
    BY <2>1 DEF AgreeInv, SetsKnowOthers
  <2>3. OwnAgreement(t)
    BY <2>1, OneAgrees DEF PartIsWhole, AllAgree, AgreeInv
  <2> QED
    BY <2>1, <2>2, <2>3 DEF OwnAgreement, Plays, Bringing
<1> QED
  BY <1>1, AgreeInit, AgreeNext, PTL DEF ControllerSpec

-----------------------------------------------------------------------------
(* Volumes *)

LEMMA VolumeSteps == [VolumeNext]_volumeVars => [ControllerNext]_allVars
BY DEF VolumeNext, volumeVars, allVars, vars, ReceiveWith, SettingStep, StoreStep,
       ControllerNext, settingVars

\* Volumes and mute states change nothing of what requests do to the routes: all
\* that is proved of the controller holds with them.
THEOREM VolumeUsesController == VolumeSpec => ControllerSpec
<1>1. VolumeInit => ControllerInit
  BY DEF VolumeInit
<1> QED
  BY <1>1, VolumeSteps, PTL DEF VolumeSpec, ControllerSpec

SettingsTyped ==
  /\ actual \in [Sinks -> Settings]
  /\ heard \in [Threads -> [Sinks -> Settings]]
  /\ wish \in [Threads -> Levels \cup {100}]
  /\ reported \in [Devices -> Settings]

LEMMA AdjustedTyped ==
  ASSUME SettingsTyped, NEW t \in Threads, NEW old \in Settings
  PROVE  Adjusted(t, old) \in Settings
BY DEF SettingsTyped, Adjusted, Settings

\* What is stored of a successful request comes from a listing with its target.
LEMMA StoredTyped ==
  ASSUME RequestInv, SettingsTyped, NEW t \in Threads, NEW d \in Devices,
         cpc[t] = "calling", pc[t] = "done"
  PROVE  Stored(t, d) \in Settings
<1>1. Asked(t) /\ OnCourse(t)
  BY DEF RequestInv
<1>2. ASSUME kind[t] \in {"set", "add", "resume"}, Succeeds(t)
      PROVE  heard[t][target[t]] \in Settings
  <2>1. op[t] \in {"route", "resume"}
    BY <1>1, <1>2 DEF Asked, ManagerOp, SettingRequests
  <2>2. target[t] \in Sinks
    BY <1>1, <1>2, <2>1 DEF OnCourse, Succeeds
  <2> QED
    BY <2>2 DEF SettingsTyped
<1>3. \A s \in Settings : AtLeast(s) \in Settings
  BY DEF AtLeast, Settings
<1>4. reported[d] \in Settings /\ Adjusted(t, reported[d]) \in Settings
  BY AdjustedTyped DEF SettingsTyped
<1>5. CASE kind[t] \in {"set", "add"} /\ Succeeds(t)
  <2>1. Stored(t, d) = AtLeast(heard[t][target[t]])
    BY <1>5 DEF Stored, SettingRequests, Succeeds
  <2> QED
    BY <1>2, <1>3, <1>5, <2>1
<1>6. CASE kind[t] = "resume" /\ Succeeds(t)
  <2>1. Stored(t, d) = AfterResume(t, d)
    BY <1>6 DEF Stored, SettingRequests, Succeeds
  <2> QED
    BY <1>2, <1>4, <1>6, <2>1 DEF AfterResume
<1>7. CASE kind[t] \in SettingRequests
  BY <1>4, <1>7 DEF Stored, AfterSetting, SettingRequests
<1> QED
  BY <1>4, <1>5, <1>6, <1>7 DEF Stored

LEMMA SettingsNext ==
  RequestInv /\ SettingsTyped /\ [VolumeNext]_volumeVars => SettingsTyped'
<1> SUFFICES ASSUME RequestInv, SettingsTyped, [VolumeNext]_volumeVars
             PROVE  SettingsTyped'
  OBVIOUS
<1> USE VolumeAssumption
<1>1. ASSUME NEW t \in Threads, NEW k, NEW d, ReceiveWith(t, k, d)
      PROVE  SettingsTyped'
  BY <1>1 DEF ReceiveWith, SettingsTyped
<1>2. ASSUME NEW t \in Threads, SettingStep(t)
      PROVE  SettingsTyped'
  <2>1. heard' \in [Threads -> [Sinks -> Settings]]
    BY <1>2 DEF SettingStep, SettingsTyped
  <2>2. actual' \in [Sinks -> Settings]
    BY <1>2, AdjustedTyped DEF SettingStep, SettingsTyped
  <2> QED
    BY <1>2, <2>1, <2>2 DEF SettingStep, SettingsTyped
<1>3. ASSUME NEW t \in Threads, StoreStep(t)
      PROVE  SettingsTyped'
  <2>1. Plain \in Settings /\ Unheard \in [Sinks -> Settings]
    BY DEF Plain, Unheard, Settings
  <2>2. CASE cpc[t] = "calling" /\ cpc'[t] = "idle"
    <3>1. pc[t] = "done"
      BY <1>3, <2>2 DEF StoreStep, RequestStep, DropNext, Dropped, CallManager, AnswerOnly,
          CommitRoute, CommitUnroute, CommitPause, CommitResume, CommitSetting, ReadStatus,
          Publish, Answer
    <3>2. \A d \in Devices : Stored(t, d) \in Settings
      BY <2>2, <3>1, StoredTyped
    <3> QED
      BY <1>3, <2>1, <2>2, <3>2 DEF StoreStep, SettingsTyped
  <2>3. CASE ~(cpc[t] = "calling" /\ cpc'[t] = "idle")
    BY <1>3, <2>1, <2>3 DEF StoreStep, SettingsTyped
  <2> QED
    BY <2>2, <2>3
<1>4. CASE UNCHANGED settingVars
  BY <1>4 DEF settingVars, SettingsTyped
<1> QED
  BY <1>1, <1>2, <1>3, <1>4 DEF VolumeNext, volumeVars

\* The variables of Volume keep their types: no failing call stores the setting of
\* a sink that was not found.
THEOREM VolumeTypeCorrect ==
  ASSUME Called \subseteq Ops
  PROVE  VolumeSpec => []VolumeTypeOK
<1>1. VolumeInit => RequestInv /\ SettingsTyped
  BY RequestInit, VolumeAssumption
  DEF VolumeInit, SettingsTyped, Plain, Unheard, Settings
<1>2. RequestInv /\ SettingsTyped /\ [VolumeNext]_volumeVars
        => RequestInv' /\ SettingsTyped'
  BY VolumeSteps, RequestNext, SettingsNext
<1>3. RequestInv /\ SettingsTyped => VolumeTypeOK
  BY DEF RequestInv, SettingsTyped, VolumeTypeOK
<1> QED
  BY <1>1, <1>2, <1>3, PTL DEF VolumeSpec

===============================================================================
