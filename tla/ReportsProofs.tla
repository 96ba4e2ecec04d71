---------------------------- MODULE ReportsProofs ----------------------------
(***************************************************************************)
(* Proofs about what Controller and Volume report to clients: the loopback *)
(* of each route in the list is the one the manager has recorded, and its  *)
(* volume and mute state are those of its sink, for any devices, sinks and *)
(* module indexes, and every fault.                                        *)
(***************************************************************************)
EXTENDS ControllerProofs, Reports

-----------------------------------------------------------------------------
(* The loopbacks *)

\* An exclusive Route is about to remove the route of d, whose record may have
\* gone already.
Dropping(t, d) == cpc[t] = "dropping" /\ dev[t] = d

\* A request is about to silence d, and has forgotten its record or will.
Silencing(t, d) ==
  cpc[t] = "calling" /\ dev[t] = d /\ op[t] \in {"unroute", "pause"}

\* The record of d is what the list says, or gone after a request that failed.
Agreed(d) ==
  \/ routeModules[d] = routes[d].module
  \/ d \in doubtful /\ routeModules[d] = NoModule

\* What a single client t keeps true of the routes in the list.
OwnReports(t) ==
  \A d \in Reported : Agreed(d) \/ Bringing(t, d) \/ Dropping(t, d) \/ Silencing(t, d)

\* All that is reported is recorded, or a request is about to settle it.
ReportsAgree ==
  \A d \in Reported :
    \/ Agreed(d)
    \/ \E t \in Threads : Bringing(t, d) \/ Dropping(t, d) \/ Silencing(t, d)

ReportsInv == AgreeInv /\ ReportsAgree /\ doubtful \subseteq Reported

-----------------------------------------------------------------------------
(* The history *)

\* Nothing is remembered or forgotten unless a request about a device is answered.
LEMMA NothingToRemember ==
  ASSUME Remember, doubtful \subseteq Reported, UNCHANGED routes,
         \A u \in Threads : cpc[u] = "calling" /\ cpc'[u] = "idle" =>
                              kind[u] \in {"status", "tick"} \cup SettingRequests
  PROVE  UNCHANGED doubtful
<1>1. ASSUME NEW d PROVE ~FailsToSilence(d) /\ ~Settles(d)
  BY DEF FailsToSilence, Settles, Answered, SettingRequests
<1> QED
  BY <1>1 DEF Remember, Reported

\* What is doubtful stays so if it stays in the list and no request about it is
\* answered.
LEMMA OthersInDoubt ==
  ASSUME Remember, NEW d \in doubtful, d \in Reported',
         \A u \in Threads : cpc[u] = "calling" /\ cpc'[u] = "idle" => about[u] # d
  PROVE  d \in doubtful'
BY DEF Remember, Settles, Answered

LEMMA DoubtfulIsReported == ASSUME Remember PROVE (doubtful \subseteq Reported)'
BY DEF Remember

-----------------------------------------------------------------------------
(* A step of the client *)

\* The manager's part: a record goes only for a request that drops or silences
\* the route, and comes with an answer.
LEMMA ReportsInManager ==
  ASSUME RequestInv, NEW t \in Threads, OwnAgreement(t), OwnReports(t),
         doubtful \subseteq Reported, ManagerStep(t), Remember
  PROVE  OwnReports(t)'
<1> USE DEF RequestInv
<1>1. /\ OpStep(t) /\ UNCHANGED <<routes, cpc, kind, about, work, op, dev>>
      /\ Asked(t) /\ OnCourse(t) /\ TypeInv
  BY OpKeeps DEF ManagerStep, controllerVars, storeVars, requestVars, callVars
<1>2. pc[t] \in Critical \cup {"lock"} /\ pc'[t] \in Critical \cup {"done"}
  BY <1>1, OpKeeps
<1>3. cpc[t] \in {"dropping", "calling"}
  BY <1>1, <1>2 DEF Asked, Critical
<1>0. UNCHANGED doubtful
  BY <1>1, NothingToRemember
<1>7. ASSUME NEW d \in Devices, routeModules'[d] = routeModules[d], Agreed(d)
      PROVE  Agreed(d)'
  BY <1>0, <1>1, <1>7 DEF Agreed
<1>4. CASE Forget(t)
  <2>1. /\ op[t] \in {"unroute", "pause"} /\ dev[t] \in Devices
        /\ routeModules' = [routeModules EXCEPT ![dev[t]] = NoModule]
    BY <1>1, <1>4 DEF Forget, ForgetRoute, TypeInv, Addressed, DeviceOps
  <2>2. Dropping(t, dev[t])' \/ Silencing(t, dev[t])'
    BY <1>1, <1>3, <2>1 DEF Dropping, Silencing
  <2>3. ASSUME NEW d \in Reported, d # dev[t]
        PROVE  Agreed(d)'
    <3>1. ~Bringing(t, d) /\ ~Dropping(t, d) /\ ~Silencing(t, d)
      BY <2>3 DEF Bringing, Dropping, Silencing
    <3>2. routeModules'[d] = routeModules[d] /\ d \in Devices
      BY <1>1, <2>1, <2>3 DEF Reported, TypeInv, TypeOK
    <3> QED
      BY <1>7, <3>1, <3>2 DEF OwnReports
  <2> QED
    BY <1>1, <2>2, <2>3 DEF OwnReports, Reported
<1>5. CASE Record(t)
  <2>1. /\ pc[t] = "record" /\ pc'[t] = "unlock"
        /\ routeModules' = [routeModules EXCEPT ![dev[t]] = module[t]]
    BY <1>1, <1>5 DEF Record, Goto, localVars, TypeInv, TypeOK
  <2>2. op[t] \in {"route", "resume"} /\ cpc[t] = "calling"
    <3>1. pc[t] \in Critical \ {"unlock"} /\ pc[t] \notin Refreshing
      BY <2>1 DEF Critical, PcLabels, Refreshing
    <3>2. op[t] \notin {"refresh", "unroute", "pause", "adjust"}
      BY <1>1, <2>1, <3>1 DEF OnCourse
    <3>3. cpc[t] = "calling"
      BY <1>1, <1>3, <3>2 DEF Asked
    <3>4. kind[t] \in RequestKinds /\ op[t] = ManagerOp(kind[t])
      BY <1>1, <3>3, ControllerAssumption DEF Asked, DeviceRequests, RequestKinds
    <3> QED
      BY <3>2, <3>3, <3>4 DEF ManagerOp, RequestKinds, SettingRequests
  <2>3. Bringing(t, dev[t])'
    BY <1>1, <1>5, <2>1, <2>2 DEF Bringing, OnCourse, Record, Goto, TypeInv, TypeOK
  <2>4. ASSUME NEW d \in Reported, d # dev[t]
        PROVE  Agreed(d)'
    <3>1. ~Bringing(t, d) /\ ~Dropping(t, d) /\ ~Silencing(t, d)
      BY <2>4 DEF Bringing, Dropping, Silencing
    <3>2. routeModules'[d] = routeModules[d] /\ d \in Devices
      BY <1>1, <2>1, <2>4 DEF Reported, TypeInv, TypeOK
    <3> QED
      BY <1>7, <3>1, <3>2 DEF OwnReports
  <2> QED
    BY <1>1, <2>3, <2>4 DEF OwnReports, Reported
<1>6. CASE ~Forget(t) /\ ~Record(t)
  <2>1. UNCHANGED routeModules
    BY <1>1, <1>6, RecordsKept
  <2>2. ASSUME NEW d, Bringing(t, d)
        PROVE  Bringing(t, d)'
    BY <1>1, <1>2, <2>2
    DEF Bringing, Critical, OpStep, Lock, Unlock, List, Scan, Sweep, Swept, Create,
        ListingFails, LoadFails, LoadIsLost, Resolve, ResolveFails, Drop, Clean,
        CleanOne, CleanFails, Cleaned, Load, Record, Forget, Unload, UnloadFails,
        Adjust, AdjustFails, Goto, TypeInv, TypeOK
  <2>3. \A d : (Dropping(t, d) => Dropping(t, d)') /\ (Silencing(t, d) => Silencing(t, d)')
    BY <1>1 DEF Dropping, Silencing
  <2>4. \A d \in Reported : Agreed(d) => Agreed(d)'
    BY <1>7, <2>1 DEF Reported
  <2>5. Reported' = Reported
    BY <1>1 DEF Reported
  <2> QED
    BY <2>2, <2>3, <2>4, <2>5 DEF OwnReports
<1> QED
  BY <1>4, <1>5, <1>6

\* The request's part: the store gets what the manager has recorded, and a route
\* that is left in the list without a record is remembered.
LEMMA ReportsInRequest ==
  ASSUME RequestInv, NEW t \in Threads, OwnAgreement(t), OwnReports(t),
         \A u \in Threads \ {t} : Still(u),
         doubtful \subseteq Reported, RequestStep(t), Remember
  PROVE  OwnReports(t)'
<1> USE DEF RequestInv, ControllerTypeOK
<1>1. Asked(t) /\ OnCourse(t) /\ KnowsRecord(t) /\ TypeInv
  BY DEF OwnAgreement
<1>0. \A u \in Threads : cpc[u] = "calling" /\ cpc'[u] = "idle" => u = t
  BY DEF Still
\* What is agreed of another device stays so.
<1>9. ASSUME NEW d \in Devices, d \in Reported, Agreed(d), UNCHANGED routeModules,
             routes'[d] = routes[d], cpc[t] # "calling" \/ cpc'[t] # "idle" \/ about[t] # d
      PROVE  Agreed(d)'
  <2>1. d \in Reported'
    BY <1>9 DEF Reported
  <2>2. d \in doubtful => d \in doubtful'
    BY <1>0, <1>9, <2>1, OthersInDoubt
  <2> QED
    BY <1>9, <2>2 DEF Agreed
<1>2. CASE DropNext(t) \/ CallManager(t)
  <2>1. /\ cpc[t] = "ready" /\ UNCHANGED <<routes, routeModules>>
    BY <1>2 DEF DropNext, CallManager, Call, recordVars, storeVars
  <2>2. \A d \in Reported : Agreed(d)
    BY <2>1 DEF OwnReports, Bringing, Dropping, Silencing
  <2> QED
    BY <1>9, <2>1, <2>2 DEF OwnReports, Reported
<1>3. CASE Dropped(t)
  <2>1. /\ Finish(t) /\ cpc[t] = "dropping"
        /\ routes' = [routes EXCEPT ![dev[t]] = NoRoute]
    BY <1>3 DEF Dropped, RemoveRoute
  <2>2. UNCHANGED routeModules
    BY <1>1, <2>1, Finished
  <2>3. ASSUME NEW d \in Reported' PROVE Agreed(d)'
    <3>1. d \in Reported /\ d # dev[t] /\ routes'[d] = routes[d]
      BY <2>1, <2>3 DEF Reported
    <3>2. Agreed(d)
      BY <2>1, <3>1 DEF OwnReports, Bringing, Dropping, Silencing
    <3> QED
      BY <1>9, <2>1, <2>2, <3>1, <3>2 DEF Reported
  <2> QED
    BY <2>3 DEF OwnReports
<1>4. ASSUME NEW kinds, Answer(t, kinds)
      PROVE  /\ Finish(t) /\ pc[t] = "done" /\ cpc[t] = "calling" /\ cpc'[t] = "idle"
             /\ UNCHANGED routeModules
             /\ kind[t] \in kinds /\ op[t] = ManagerOp(kind[t]) /\ dev[t] = about[t]
             /\ <<kind[t], about[t]>> \in Requests[t]
  <2>1. Finish(t)
    BY <1>4 DEF Answer
  <2>2. UNCHANGED routeModules
    BY <1>1, <2>1, Finished
  <2> QED
    BY <1>1, <1>4, <2>1, <2>2 DEF Answer, Asked
\* An answer that changes the route of its own device at most.
<1>10. ASSUME NEW kinds, Answer(t, kinds), NEW d \in Reported', d # about[t],
              routes'[d] = routes[d]
       PROVE  Agreed(d)'
  <2>1. d \in Reported
    BY <1>10 DEF Reported
  <2>2. Agreed(d)
    BY <1>4, <1>10, <2>1 DEF OwnReports, Bringing, Dropping, Silencing
  <2> QED
    BY <1>4, <1>9, <1>10, <2>1, <2>2 DEF Reported
<1>5. CASE CommitRoute(t) \/ CommitResume(t)
  <2>1. PICK kinds \in {{"set", "add"}, {"resume"}} : Answer(t, kinds)
    BY <1>5 DEF CommitRoute, CommitResume
  <2>2. /\ cpc[t] = "calling" /\ pc[t] = "done" /\ res[t] = "ok"
        /\ op[t] \in {"route", "resume"} /\ dev[t] = about[t]
        /\ UNCHANGED routeModules
    BY <1>4, <1>5, <2>1 DEF ManagerOp, SettingRequests, Succeeds, CommitRoute, CommitResume
  <2>3. routes' = [routes EXCEPT ![dev[t]] = Returned(t, FALSE, module[t])]
    BY <1>5, <2>2 DEF CommitRoute, CommitResume, SetRoute
  <2>4. dev[t] \in Devices /\ module[t] = routeModules[dev[t]]
    BY <1>1, <2>2 DEF KnowsRecord, TypeInv, Addressed, DeviceOps
  <2>5. ASSUME NEW d \in Reported' PROVE Agreed(d)'
    <3>1. CASE d = dev[t]
      BY <2>2, <2>3, <2>4, <3>1 DEF Returned, Agreed
    <3>2. CASE d # dev[t]
      BY <1>10, <2>1, <2>2, <2>3, <3>2 DEF Reported
    <3> QED
      BY <3>1, <3>2
  <2> QED
    BY <2>5 DEF OwnReports
<1>6. CASE CommitUnroute(t) \/ CommitPause(t)
  <2>1. PICK kinds \in {{"unroute"}, {"pause"}} : Answer(t, kinds)
    BY <1>6 DEF CommitUnroute, CommitPause
  <2>2. /\ op[t] \in {"unroute", "pause"} /\ dev[t] = about[t] /\ pc[t] = "done"
        /\ UNCHANGED routeModules
    BY <1>4, <2>1 DEF ManagerOp, SettingRequests
  <2>3. dev[t] \in Devices /\ routeModules[dev[t]] = NoModule
    BY <1>1, <2>2 DEF KnowsRecord, TypeInv, Addressed, DeviceOps
  <2>4. \/ routes' = [routes EXCEPT ![dev[t]] = NoRoute]
        \/ routes' = [routes EXCEPT ![dev[t]] = Returned(t, TRUE, NoModule)]
        \/ UNCHANGED routes /\ dev[t] \notin Reported
    BY <1>6, <2>2 DEF CommitUnroute, CommitPause, SetRoute, RemoveRoute
  <2>5. ASSUME NEW d \in Reported' PROVE Agreed(d)'
    <3>1. CASE d = dev[t]
      BY <2>2, <2>3, <2>4, <2>5, <3>1 DEF Returned, Agreed, Reported
    <3>2. CASE d # dev[t]
      <4>1. routes'[d] = routes[d]
        BY <2>4, <2>5, <3>2 DEF Reported
      <4> QED
        BY <1>10, <2>1, <2>2, <3>2, <4>1
    <3> QED
      BY <3>1, <3>2
  <2> QED
    BY <2>5 DEF OwnReports
<1>7. CASE AnswerOnly(t) \/ CommitSetting(t)
  <2>1. PICK kinds \in {RequestKinds, SettingRequests} : Answer(t, kinds)
    BY <1>7 DEF AnswerOnly, CommitSetting
  <2>2. res[t] # "ok" \/ op[t] \in {"refresh", "adjust"}
    BY <1>4, <1>7 DEF AnswerOnly, CommitSetting, Succeeds, ManagerOp, SettingRequests
  <2>3. UNCHANGED <<routes, routeModules>> /\ Reported' = Reported
        /\ cpc[t] = "calling" /\ cpc'[t] = "idle" /\ dev[t] = about[t] /\ pc[t] = "done"
        /\ op[t] = ManagerOp(kind[t]) /\ kind[t] \in RequestKinds
    BY <1>4, <1>7, <2>1 DEF AnswerOnly, CommitSetting, Reported, SettingRequests, RequestKinds
  <2>4. ASSUME NEW d \in Reported' PROVE Agreed(d)'
    <3>1. CASE d # about[t]
      BY <1>10, <2>1, <2>3, <2>4, <3>1
    <3>2. CASE d = about[t] /\ op[t] \in {"unroute", "pause"}
      <4>1. kind[t] \in {"unroute", "pause"} /\ ~Succeeds(t)
        BY <2>2, <2>3, <3>2 DEF ManagerOp, SettingRequests, RequestKinds, Succeeds
      <4>2. FailsToSilence(d)
        BY <2>3, <3>2, <4>1 DEF FailsToSilence, Answered
      <4>3. d \in doubtful'
        BY <2>4, <4>2 DEF Remember
      <4>4. routeModules[d] = NoModule
        BY <1>1, <2>3, <3>2 DEF KnowsRecord
      <4> QED
        BY <2>3, <4>3, <4>4 DEF Agreed
    <3>3. CASE d = about[t] /\ op[t] \notin {"unroute", "pause"}
      <4>1. Agreed(d)
        BY <2>2, <2>3, <2>4, <3>3 DEF OwnReports, Bringing, Dropping, Silencing
      <4>2. kind[t] \in {"set", "add", "pause", "resume"} => ~Succeeds(t)
        BY <2>2, <2>3 DEF ManagerOp, SettingRequests, RequestKinds, Succeeds
      <4>3. ~Settles(d)
        BY <1>0, <4>2 DEF Settles, Answered
      <4>4. d \in doubtful => d \in doubtful'
        BY <2>4, <4>3 DEF Remember
      <4> QED
        BY <2>3, <4>1, <4>4 DEF Agreed
    <3> QED
      BY <3>1, <3>2, <3>3
  <2> QED
    BY <2>4 DEF OwnReports
<1>8. CASE ReadStatus(t) \/ Publish(t)
  <2>1. UNCHANGED <<routes, routeModules>>
    BY <1>1, <1>8, Finished
    DEF ReadStatus, Publish, storeVars, vars, managerVars, recordVars
  <2>2. cpc[t] # "calling" \/ op[t] = "refresh"
    BY <1>1, <1>8 DEF ReadStatus, Publish, Asked, ManagerOp, SettingRequests
  <2>3. cpc[t] # "dropping" /\ (cpc[t] = "calling" => cpc'[t] = "publish")
    BY <1>8 DEF ReadStatus, Publish
  <2>4. \A d \in Reported : Agreed(d)
    BY <2>2, <2>3 DEF OwnReports, Bringing, Dropping, Silencing
  <2> QED
    BY <1>9, <2>1, <2>3, <2>4 DEF OwnReports, Reported
<1> QED
  BY <1>2, <1>3, <1>5, <1>6, <1>7, <1>8 DEF RequestStep

-----------------------------------------------------------------------------
(* The client's part is the whole *)

\* Whoever is no client has no route under way.
LEMMA OnlyClientsBring ==
  ASSUME RequestInv, NEW t \in Threads, ~IsClient(t), NEW d
  PROVE  ~Bringing(t, d) /\ ~Dropping(t, d) /\ ~Silencing(t, d)
<1>1. Asked(t) /\ OnlyRefreshes
  BY ClientsOnly DEF RequestInv
<1> QED
  BY <1>1 DEF Bringing, Dropping, Silencing, OnlyRefreshes, Asked

ReportsAreOwn == \A t \in Threads : IsClient(t) => (ReportsAgree <=> OwnReports(t))

LEMMA OneReports == SingleClient /\ RequestInv => ReportsAreOwn
BY OnlyClientsBring DEF SingleClient, ReportsAreOwn, ReportsAgree, OwnReports

LEMMA OneReportsNext == SingleClient /\ RequestInv' => ReportsAreOwn'
<1>1. SingleClient' <=> SingleClient
  BY DEF SingleClient, IsClient, DeviceRequests, RequestKinds
<1> QED
  BY <1>1, OneReports, PTL

LEMMA ReportsBegin == ReportsInit => ReportsInv
<1>1. ReportsInit => ControllerInit /\ ReportsAgree /\ doubtful \subseteq Reported
  BY DEF ReportsInit, VolumeInit, ControllerInit, ReportsAgree, Reported
<1> QED
  BY <1>1, AgreeInit DEF ReportsInv

\* A step with the history is one of the controller, or none.
LEMMA ReportsSteps ==
  [ReportsNext]_reportVars =>
    [ControllerNext]_allVars /\ (Remember \/ UNCHANGED <<allVars, doubtful>>)
<1>1. [ReportsNext]_reportVars =>
        [VolumeNext]_volumeVars /\ (Remember \/ UNCHANGED <<allVars, doubtful>>)
  BY DEF ReportsNext, reportVars, volumeVars
<1> QED
  BY <1>1, VolumeSteps

LEMMA ReportsKept ==
  Called \subseteq Ops /\ SingleClient /\ ReportsInv /\ [ReportsNext]_reportVars => ReportsInv'
<1> SUFFICES ASSUME Called \subseteq Ops, SingleClient, ReportsInv, [ControllerNext]_allVars,
                    Remember \/ UNCHANGED <<allVars, doubtful>>
             PROVE  ReportsInv'
  BY ReportsSteps
<1>1. AgreeInv /\ AgreeInv' /\ RequestInv /\ RequestInv' /\ doubtful \subseteq Reported
  BY AgreeNext DEF ReportsInv, AgreeInv
<1>2. ASSUME Remember, NEW t \in Threads, ThreadStep(t), IsClient(t)
      PROVE  ReportsAgree'
  <2>1. OwnReports(t) /\ OwnAgreement(t) /\ \A u \in Threads \ {t} : Still(u)
    BY <1>1, <1>2, OneReports, OneAgrees, OthersStill
    DEF ReportsInv, ReportsAreOwn, PartIsWhole, AllAgree, AgreeInv
  <2>3. ASSUME NEW request \in Requests[t], Receive(t, request[1], request[2])
        PROVE  OwnReports(t)'
    <3>1. /\ UNCHANGED <<routes, routeModules>> /\ cpc[t] = "idle" /\ Reported' = Reported
      BY <2>3 DEF Receive, vars, managerVars, recordVars, storeVars, Reported
    <3>2. UNCHANGED doubtful
      BY <1>1, <1>2, <2>1, <3>1, NothingToRemember DEF Still
    <3> QED
      BY <2>1, <3>1, <3>2 DEF OwnReports, Agreed, Bringing, Dropping, Silencing
  <2>4. OwnReports(t)'
    BY <1>1, <1>2, <2>1, <2>3, ReportsInManager, ReportsInRequest DEF ThreadStep
  <2> QED
    BY <1>1, <1>2, <2>4, OneReportsNext
    DEF ReportsAreOwn, IsClient, DeviceRequests, RequestKinds
<1>3. ASSUME Remember, NEW t \in Threads, ThreadStep(t), ~IsClient(t)
      PROVE  ReportsAgree'
  <2>1. UNCHANGED <<routes, routeModules>> /\ \A u \in Threads \ {t} : Still(u)
    BY <1>1, <1>3, OthersWriteNothing, OthersStill
  <2>2. ASSUME NEW u \in Threads, NEW d, Bringing(u, d) \/ Dropping(u, d) \/ Silencing(u, d)
        PROVE  Bringing(u, d)' \/ Dropping(u, d)' \/ Silencing(u, d)'
    <3>1. u # t
      BY <1>1, <1>3, <2>2, OnlyClientsBring
    <3> QED
      BY <2>1, <2>2, <3>1 DEF Still, Bringing, Dropping, Silencing
  <2>3. cpc[t] = "calling" => kind[t] \in {"status", "tick"}
    BY <1>1, <1>3, ClientsOnly DEF OnlyRefreshes
  <2>4. UNCHANGED doubtful
    BY <1>1, <1>3, <2>1, <2>3, NothingToRemember DEF Still
  <2> QED
    BY <2>1, <2>2, <2>4 DEF ReportsInv, ReportsAgree, Agreed, Reported
<1>4. ASSUME (ServerActs /\ UNCHANGED controllerVars) \/ UNCHANGED allVars
      PROVE  ReportsAgree'
  <2>1. UNCHANGED <<routes, routeModules, cpc, pc, op, dev, res>>
    BY <1>4 DEF ServerActs, allVars, vars, managerVars, recordVars, callVars, localVars,
                controllerVars, storeVars, requestVars
  <2>2. UNCHANGED doubtful
    BY <1>1, <2>1, NothingToRemember
  <2> QED
    BY <2>1, <2>2
    DEF ReportsInv, ReportsAgree, Agreed, Reported, Bringing, Dropping, Silencing
<1>5. ReportsAgree'
  BY <1>2, <1>3, <1>4 DEF ControllerNext, ThreadStep
<1>6. (doubtful \subseteq Reported)'
  BY <1>1, DoubtfulIsReported DEF Reported, allVars, controllerVars, storeVars
<1> QED
  BY <1>1, <1>5, <1>6 DEF ReportsInv

\* The history changes nothing of what requests do.
THEOREM ReportsOnlyRemember == ReportsSpec => VolumeSpec
<1>1. [ReportsNext]_reportVars => [VolumeNext]_volumeVars
  BY DEF ReportsNext, reportVars
<1> QED
  BY <1>1, PTL DEF ReportsSpec, ReportsInit, VolumeSpec

\* A route in the list of a single client names the loopback the manager has
\* recorded, none if it is paused, whatever it asks for and whatever fails; only an
\* Unroute or Pause that fails leaves one in the list whose record is gone.
THEOREM ReportsRecorded ==
  ASSUME Called \subseteq Ops, SingleClient
  PROVE  ReportsSpec => []ReportedIsRecorded
<1>1. ReportsInv => ReportedIsRecorded
  BY DEF ReportsInv, ReportsAgree, ReportedIsRecorded, Agreed, Touched, Bringing, Dropping,
         Silencing
<1> QED
  BY <1>1, ReportsBegin, ReportsKept, PTL DEF ReportsSpec

-----------------------------------------------------------------------------
(* The sinks of the routes *)

\* A device matches one sink at most and shares it with no other.  The volume of a
\* shared sink is set through either device, and reported for that one only.
OneSinkEach ==
  \A d, e \in Devices : \A s \in Match[d], r \in Match[e] : (s = r) <=> (d = e)

\* The target of a call that has not failed is a sink of its device.
OnTarget(t) ==
  /\ pc[t] \in {"drop", "clean", "cleaning", "load", "record"} /\ op[t] \in DeviceOps =>
       target[t] \in Match[dev[t]]
  /\ pc[t] = "unload" => target[t] \in Match[dev[t]] \cup {NoSink}
  /\ pc[t] \in {"unlock", "done"} /\ res[t] = "ok"
       /\ op[t] \in {"route", "resume", "pause", "adjust"} =>
       target[t] \in Match[dev[t]]

\* A Route or Resume has heard the settings as they are: no one turns a volume
\* between its listing and its answer.
Listened(t) ==
  op[t] \in {"route", "resume"} /\ res[t] = "ok"
    /\ pc[t] \in (Critical \ {"list"}) \cup {"done"} => heard[t] = actual

LEMMA TargetKept ==
  ASSUME TypeInv, NEW t \in Threads, OnCourse(t), OnTarget(t), OpStep(t)
  PROVE  OnTarget(t)'
<1>1. pc[t] = "forget" => op[t] \in {"unroute", "pause"}
  BY DEF TypeInv, Addressed
<1> USE <1>1 DEF TypeInv, TypeOK, OnCourse, OnTarget, Refreshing, Critical, PcLabels, Goto,
        Fail, DeviceOps, callVars, localVars
<1>2. CASE Lock(t)
  BY <1>2 DEF Lock
<1>3. CASE Unlock(t)
  BY <1>3 DEF Unlock
<1>4. CASE List(t)
  BY <1>4 DEF List, AfterListing, AfterRefresh
<1>5. CASE Scan(t)
  BY <1>5 DEF Scan
<1>6. CASE Sweep(t) \/ CleanOne(t)
  BY <1>6 DEF Sweep, CleanOne
<1>7. CASE Swept(t)
  BY <1>7 DEF Swept
<1>8. CASE Create(t)
  BY <1>8 DEF Create
<1>9. CASE ListingFails(t) \/ LoadFails(t) \/ LoadIsLost(t)
  BY <1>9 DEF ListingFails, LoadFails, LoadIsLost
<1>10. CASE Resolve(t)
  BY <1>10 DEF Resolve, ResolvesTo, Compare
<1>11. CASE ResolveFails(t) \/ AdjustFails(t)
  BY <1>11 DEF ResolveFails, AdjustFails
<1>12. CASE Drop(t) \/ Clean(t)
  BY <1>12 DEF Drop, Clean
<1>13. CASE CleanFails(t) \/ UnloadFails(t)
  BY <1>13 DEF CleanFails, UnloadFails
<1>14. CASE Cleaned(t)
  BY <1>14 DEF Cleaned
<1>15. CASE Load(t) \/ Record(t)
  BY <1>15 DEF Load, Record
<1>16. CASE Forget(t)
  BY <1>16, ManagerAssumption DEF Forget, ResolvesTo, Released
<1>17. CASE Unload(t)
  BY <1>17, ManagerAssumption DEF Unload, Released
<1>18. CASE Adjust(t)
  BY <1>18 DEF Adjust, ResolvesTo
<1> QED
  BY <1>2, <1>3, <1>4, <1>5, <1>6, <1>7, <1>8, <1>9, <1>10, <1>11, <1>12, <1>13,
     <1>14, <1>15, <1>16, <1>17, <1>18
  DEF OpStep

\* A listing that has been read is kept, and nothing is turned meanwhile.
LEMMA ListeningKept ==
  ASSUME RequestInv, SettingsTyped, NEW t \in Threads, Listened(t), SettingStep(t)
  PROVE  Listened(t)'
<1>1. TypeInv /\ OnCourse(t) /\ OpStep(t) /\ UNCHANGED op
  BY OpKeeps DEF RequestInv, SettingStep, ManagerStep, callVars
<1>2. SUFFICES ASSUME op[t] \in {"route", "resume"}, res'[t] = "ok", pc'[t] # "list"
               PROVE  heard'[t] = actual'
  BY <1>1 DEF Listened
<1>3. pc[t] \in Critical \cup {"lock"}
  BY <1>1, OpKeeps
<1>4. pc[t] # "adjust"
  BY <1>1, <1>2 DEF OnCourse, Critical, PcLabels, Refreshing
<1>5. UNCHANGED actual
  BY <1>4 DEF SettingStep
<1>6. CASE pc[t] \in {"list", "scan", "rescan"}
  BY <1>2, <1>5, <1>6 DEF SettingStep, SettingsTyped
<1>7. CASE pc[t] \notin {"list", "scan", "rescan"}
  <2>1. UNCHANGED heard
    BY <1>7 DEF SettingStep
  <2>2. pc[t] # "lock"
    BY <1>1, <1>2
    DEF OpStep, Lock, Unlock, List, Scan, Sweep, Swept, Create, ListingFails, LoadFails,
        LoadIsLost, Resolve, ResolveFails, Drop, Clean, CleanOne, CleanFails, Cleaned,
        Load, Record, Forget, Unload, UnloadFails, Adjust, AdjustFails, Goto, TypeInv,
        TypeOK
  <2>3. res[t] = "ok"
    <3>1. CASE pc[t] = "unlock"
      BY <1>1, <1>2, <3>1
      DEF OpStep, Lock, Unlock, List, Scan, Sweep, Swept, Create, ListingFails, LoadFails,
          LoadIsLost, Resolve, ResolveFails, Drop, Clean, CleanOne, CleanFails, Cleaned,
          Load, Record, Forget, Unload, UnloadFails, Adjust, AdjustFails, Goto, TypeInv,
          TypeOK
    <3>2. CASE pc[t] # "unlock"
      BY <1>1, <1>3, <3>2 DEF OnCourse, Critical
    <3> QED
      BY <3>1, <3>2
  <2> QED
    BY <1>2, <1>3, <1>5, <1>7, <2>1, <2>2, <2>3 DEF Listened
<1> QED
  BY <1>6, <1>7

-----------------------------------------------------------------------------
(* Settings *)

\* What is told of a sink, and how it is set: 0 may be told as 100.
Agrees(told, real) ==
  \/ told = real
  \/ real.volume = 0 /\ told = AtLeast(real)

\* Thread t has turned the volume of d, or muted it, and the store does not know.
Turning(t, d) ==
  /\ cpc[t] = "calling" /\ dev[t] = d
  /\ op[t] = "adjust" /\ pc[t] \in {"unlock", "done"} /\ res[t] = "ok"

\* What a single client t keeps true of the settings of the routes in the list.
OwnSettings(t) ==
  \A d \in Reported :
    /\ routes[d].sink \in Match[d]
    /\ Turning(t, d) => Agrees(Adjusted(t, reported[d]), actual[routes[d].sink])
    /\ ~Turning(t, d) => Agrees(reported[d], actual[routes[d].sink])

SettingsAgree ==
  \A d \in Reported :
    /\ routes[d].sink \in Match[d]
    /\ \A t \in Threads :
         Turning(t, d) => Agrees(Adjusted(t, reported[d]), actual[routes[d].sink])
    /\ (\A t \in Threads : ~Turning(t, d)) => Agrees(reported[d], actual[routes[d].sink])

SettingsInv ==
  /\ RequestInv
  /\ SettingsTyped
  /\ \A t \in Threads : OnTarget(t) /\ Listened(t)
  /\ SettingsAgree

\* What is told 100 for 0 is so again after both have been muted, and a volume
\* makes both the same.
LEMMA AdjustingAgrees ==
  ASSUME NEW t \in Threads, NEW told \in Settings, NEW real \in Settings,
         Agrees(told, real)
  PROVE  Agrees(Adjusted(t, told), Adjusted(t, real))
<1>1. CASE told = real
  <2>1. Adjusted(t, told) = Adjusted(t, real)
    BY <1>1 DEF Adjusted
  <2> QED
    BY <2>1 DEF Agrees
<1>2. CASE real.volume = 0 /\ told = AtLeast(real)
  <2>1. told = [real EXCEPT !.volume = 100]
    BY <1>2 DEF AtLeast
  <2>2. CASE kind[t] = "volume"
    <3>1. /\ Adjusted(t, told) = [volume |-> wish[t], muted |-> told.muted]
          /\ Adjusted(t, real) = [volume |-> wish[t], muted |-> real.muted]
      BY <2>2 DEF Adjusted, Settings
    <3>2. told.muted = real.muted
      BY <2>1 DEF Settings
    <3>3. Adjusted(t, told) = Adjusted(t, real)
      BY <3>1, <3>2
    <3> QED
      BY <3>3 DEF Agrees
  <2>3. CASE kind[t] # "volume"
    <3>1. Adjusted(t, real).volume = 0
      BY <1>2, <2>3 DEF Adjusted, Settings
    <3>2. Adjusted(t, told) = [Adjusted(t, real) EXCEPT !.volume = 100]
      BY <2>1, <2>3 DEF Adjusted, Settings
    <3> QED
      BY <3>1, <3>2 DEF Agrees, AtLeast
  <2> QED
    BY <2>2, <2>3
<1> QED
  BY <1>1, <1>2 DEF Agrees

LEMMA ToldAtLeast == ASSUME NEW real PROVE Agrees(AtLeast(real), real)
BY DEF Agrees, AtLeast

\* Nothing but a successful Adjust makes a setting wait for the store, and it waits
\* until the answer.
LEMMA TurningKept ==
  ASSUME TypeInv, NEW t \in Threads, OnCourse(t), OpStep(t), UNCHANGED cpc, NEW d,
         ~(pc[t] = "adjust" /\ res'[t] = "ok")
  PROVE  Turning(t, d)' <=> Turning(t, d)
<1>1. UNCHANGED <<op, dev>> /\ pc[t] \in Critical \cup {"lock"}
  BY OpKeeps DEF callVars
<1>2. ASSUME op[t] = "adjust"
      PROVE  /\ pc'[t] \in {"unlock", "done"} /\ res'[t] = "ok"
                  => pc[t] \in {"unlock", "done"} /\ res[t] = "ok"
             /\ pc[t] \in {"unlock", "done"} /\ res[t] = "ok"
                  => pc'[t] \in {"unlock", "done"} /\ res'[t] = "ok"
  <2>1. pc[t] \in {"lock", "adjust", "unlock"}
    BY <1>1, <1>2 DEF OnCourse, Critical
  <2> QED
    BY <1>2, <2>1
    DEF OpStep, Lock, Unlock, List, Scan, Sweep, Swept, Create, ListingFails, LoadFails,
        LoadIsLost, Resolve, ResolveFails, Drop, Clean, CleanOne, CleanFails, Cleaned,
        Load, Record, Forget, Unload, UnloadFails, Adjust, AdjustFails, Goto, Fail,
        TypeInv, TypeOK
<1> QED
  BY <1>1, <1>2 DEF Turning

\* The manager's part: a volume is turned for the one device whose sink it is.
LEMMA SettingsInManager ==
  ASSUME OneSinkEach, RequestInv, SettingsTyped, NEW t \in Threads, OnTarget(t)',
         OwnSettings(t), SettingStep(t)
  PROVE  OwnSettings(t)'
<1>1. /\ OpStep(t) /\ UNCHANGED <<routes, cpc, kind, about, op, dev, wish, reported>>
      /\ Asked(t) /\ OnCourse(t) /\ TypeInv
  BY OpKeeps
  DEF RequestInv, SettingStep, ManagerStep, controllerVars, storeVars, requestVars, callVars
<1>2. UNCHANGED Reported
  BY <1>1 DEF Reported
<1>3. \A x : UNCHANGED Adjusted(t, x)
  BY <1>1 DEF Adjusted
<1>4. CASE ~(pc[t] = "adjust" /\ res'[t] = "ok")
  <2>1. UNCHANGED actual
    BY <1>4 DEF SettingStep
  <2>2. \A d : Turning(t, d)' <=> Turning(t, d)
    BY <1>1, <1>4, TurningKept
  <2> QED
    BY <1>1, <1>2, <1>3, <2>1, <2>2 DEF OwnSettings, Agrees, AtLeast, Adjusted
<1>5. CASE pc[t] = "adjust" /\ res'[t] = "ok"
  <2>1. op[t] = "adjust" /\ pc'[t] = "unlock" /\ cpc[t] = "calling" /\ dev[t] \in Devices
    <3>1. Adjust(t)
      BY <1>1, <1>5
      DEF OpStep, Lock, Unlock, List, Scan, Sweep, Swept, Create, ListingFails, LoadFails,
          LoadIsLost, Resolve, ResolveFails, Drop, Clean, CleanOne, CleanFails, Cleaned,
          Load, Record, Forget, Unload, UnloadFails, AdjustFails, Fail, TypeInv, TypeOK
    <3>2. pc'[t] = "unlock"
      BY <1>1, <3>1 DEF Adjust, Goto, TypeInv, TypeOK
    <3>3. cpc[t] \in {"dropping", "calling"}
      BY <1>1, <1>5 DEF Asked
    <3>4. op[t] \in Called
      <4>1. <<kind[t], about[t]>> \in Requests[t]
        BY <1>1, <3>3 DEF Asked
      <4>2. kind[t] \in RequestKinds
        BY <4>1, ControllerAssumption DEF DeviceRequests, RequestKinds
      <4> QED
        BY <1>1, <3>3, <4>2
        DEF Asked, ManagerOp, Called, DeviceOps, RequestKinds, SettingRequests
    <3>5. op[t] = "adjust"
      BY <1>1, <1>5, <3>4 DEF OnCourse, Critical, PcLabels, Refreshing, Called, DeviceOps
    <3> QED
      BY <1>1, <3>2, <3>3, <3>5 DEF Asked, TypeInv, Addressed, DeviceOps
  <2>2. target'[t] \in Match[dev[t]]
    BY <1>1, <1>5, <2>1 DEF OnTarget
  <2>3. /\ target'[t] \in Sinks
        /\ actual' = [actual EXCEPT ![target'[t]] = Adjusted(t, @)]
    BY <1>5, <2>1, <2>2, ManagerAssumption DEF SettingStep
  <2>4. \A d : ~Turning(t, d) /\ (Turning(t, d)' <=> d = dev[t])
    BY <1>1, <1>5, <2>1 DEF Turning
  <2>5. ASSUME NEW d \in Reported, d # dev[t]
        PROVE  Agrees(reported[d], actual[routes[d].sink])'
    <3>1. routes[d].sink \in Match[d] /\ Agrees(reported[d], actual[routes[d].sink])
      BY <2>4 DEF OwnSettings
    <3>2. routes[d].sink # target'[t]
      BY <2>1, <2>2, <2>5, <3>1 DEF OneSinkEach, Reported
    <3>3. actual'[routes[d].sink] = actual[routes[d].sink]
      BY <2>3, <3>2 DEF SettingsTyped
    <3> QED
      BY <1>1, <3>1, <3>3 DEF Agrees, AtLeast
  <2>6. ASSUME dev[t] \in Reported
        PROVE  Agrees(Adjusted(t, reported[dev[t]]), actual[routes[dev[t]].sink])'
    <3>1. /\ routes[dev[t]].sink \in Match[dev[t]]
          /\ Agrees(reported[dev[t]], actual[routes[dev[t]].sink])
      BY <2>4, <2>6 DEF OwnSettings
    <3>2. routes[dev[t]].sink = target'[t]
      BY <2>1, <2>2, <3>1 DEF OneSinkEach
    <3>3. actual'[routes[dev[t]].sink] = Adjusted(t, actual[routes[dev[t]].sink])
      BY <2>3, <3>2 DEF SettingsTyped
    <3>4. reported[dev[t]] \in Settings /\ actual[routes[dev[t]].sink] \in Settings
      BY <2>1, <2>3, <3>2 DEF SettingsTyped
    <3>5. Agrees(Adjusted(t, reported[dev[t]]), Adjusted(t, actual[routes[dev[t]].sink]))
      BY <3>1, <3>4, AdjustingAgrees
    <3> QED
      BY <1>1, <3>3, <3>5 DEF Agrees, AtLeast, Adjusted
  <2> QED
    BY <1>1, <1>2, <2>4, <2>5, <2>6 DEF OwnSettings
<1> QED
  BY <1>4, <1>5

\* What an answer of t leaves and what it stores.
LEMMA AnswerStores ==
  ASSUME RequestInv, SettingsTyped, NEW t \in Threads, NEW kinds, Answer(t, kinds),
         StoreStep(t)
  PROVE  /\ pc[t] = "done" /\ cpc[t] = "calling" /\ cpc'[t] = "idle"
         /\ kind[t] \in kinds /\ op[t] = ManagerOp(kind[t]) /\ dev[t] = about[t]
         /\ UNCHANGED actual
         /\ \A d \in Devices : routes'[d] # NoRoute =>
              reported'[d] = IF d = about[t] THEN Stored(t, d) ELSE reported[d]
<1>1. Asked(t) /\ cpc \in [Threads -> {"idle", "ready", "dropping", "calling", "publish"}]
  BY DEF RequestInv, ControllerTypeOK
<1>2. pc[t] = "done" /\ cpc[t] = "calling" /\ cpc'[t] = "idle" /\ kind[t] \in kinds
  BY <1>1 DEF Answer
<1> QED
  BY <1>1, <1>2 DEF Asked, StoreStep

\* The request's part: the store gets what the listing said, or what was turned.
LEMMA SettingsInRequest ==
  ASSUME OneSinkEach, RequestInv, SettingsTyped, NEW t \in Threads, OnTarget(t),
         Listened(t), OwnSettings(t), StoreStep(t)
  PROVE  OwnSettings(t)'
<1>1. Asked(t) /\ OnCourse(t) /\ TypeInv /\ RequestStep(t) /\ UNCHANGED actual
  BY DEF RequestInv, StoreStep
<1>2. \A d \in Devices : cpc[t] # "calling" => ~Turning(t, d)
  BY DEF Turning
<1>3. CASE ~(cpc[t] = "calling" /\ cpc'[t] = "idle")
  <2>1. \A d \in Reported' : reported'[d] = reported[d]
    BY <1>3 DEF StoreStep, Reported
  <2>2. \A d \in Reported' : d \in Reported /\ routes'[d] = routes[d]
    <3>1. CASE Dropped(t)
      BY <3>1 DEF Dropped, RemoveRoute, Reported, RequestInv, ControllerTypeOK
    <3>2. CASE ~Dropped(t)
      BY <1>1, <1>3, <3>2
      DEF RequestStep, DropNext, CallManager, AnswerOnly, CommitRoute, CommitUnroute,
          CommitPause, CommitResume, CommitSetting, ReadStatus, Publish, Answer, storeVars,
          Reported, RequestInv, ControllerTypeOK
    <3> QED
      BY <3>1, <3>2
  <2>3. \A d \in Devices : ~Turning(t, d)
    <3>1. cpc[t] = "calling" => ReadStatus(t)
      BY <1>1, <1>3
      DEF RequestStep, DropNext, Dropped, CallManager, AnswerOnly, CommitRoute, Publish,
          CommitUnroute, CommitPause, CommitResume, CommitSetting, Answer, RequestInv,
          ControllerTypeOK
    <3>2. cpc[t] = "calling" => op[t] = "refresh"
      BY <1>1, <3>1 DEF ReadStatus, Asked, ManagerOp, SettingRequests
    <3> QED
      BY <3>2 DEF Turning
  <2>4. \A d \in Devices : ~Turning(t, d)'
    <3>1. cpc'[t] # "calling" \/ pc'[t] \in {"lock", "collect"}
      BY <1>1
      DEF RequestStep, DropNext, Dropped, CallManager, Call, Goto, AnswerOnly, CommitRoute,
          Publish, CommitUnroute, CommitPause, CommitResume, CommitSetting, ReadStatus,
          Answer, RequestInv, ControllerTypeOK, TypeInv, TypeOK
    <3> QED
      BY <3>1 DEF Turning
  <2> QED
    BY <1>1, <2>1, <2>2, <2>3, <2>4 DEF OwnSettings, Reported, Agrees, AtLeast
<1>4. CASE cpc[t] = "calling" /\ cpc'[t] = "idle"
  <2> DEFINE Fine(d) == /\ routes'[d].sink \in Match[d]
                        /\ Agrees(reported'[d], actual[routes'[d].sink])
  <2>1. SUFFICES ASSUME NEW d \in Devices, routes'[d] # NoRoute PROVE Fine(d)
    BY <1>1, <1>4 DEF OwnSettings, Reported, Turning, Agrees, AtLeast
  <2>2. ~ReadStatus(t) /\ ~Publish(t) /\ ~Dropped(t) /\ ~DropNext(t) /\ ~CallManager(t)
    BY <1>4 DEF ReadStatus, Publish, Dropped, DropNext, CallManager, RequestInv,
                ControllerTypeOK
  <2>3. ASSUME NEW kinds, Answer(t, kinds), routes'[d] = routes[d], ~Turning(t, d),
               reported'[d] = reported[d]
        PROVE  Fine(d)
    BY <2>1, <2>3 DEF OwnSettings, Reported, Agrees, AtLeast
  <2>10. ASSUME NEW kinds, Answer(t, kinds), d # about[t], routes'[d] = routes[d]
         PROVE  Fine(d)
    <3>1. ~Turning(t, d) /\ reported'[d] = reported[d]
      BY <1>1, <2>1, <2>10, AnswerStores DEF Turning
    <3> QED
      BY <2>3, <2>10, <3>1
  <2>11. ASSUME NEW kinds, Answer(t, kinds), d = about[t]
         PROVE  reported'[d] = Stored(t, d)
    BY <1>1, <2>1, <2>11, AnswerStores
  <2>4. CASE CommitRoute(t)
    <3>1. Answer(t, {"set", "add"}) /\ res[t] = "ok"
      BY <2>4 DEF CommitRoute, Succeeds
    <3>2. /\ op[t] = "route" /\ pc[t] = "done" /\ kind[t] \in {"set", "add"}
          /\ ~Turning(t, d)
      BY <1>1, <3>1, AnswerStores DEF ManagerOp, SettingRequests, Turning
    <3>3. CASE d = about[t]
      <4>1. routes'[d] = Returned(t, FALSE, module[t])
        BY <2>1, <2>4, <3>3 DEF CommitRoute, SetRoute, RequestInv, ControllerTypeOK
      <4>2. routes'[d].sink = target[t] /\ target[t] \in Match[d]
        BY <1>1, <3>1, <3>2, <3>3, <4>1 DEF Returned, OnTarget, Answer, Asked
      <4>3. reported'[d] = AtLeast(heard[t][target[t]])
        BY <2>11, <3>1, <3>2, <3>3 DEF Stored, Succeeds, SettingRequests
      <4>4. heard[t] = actual
        BY <3>1, <3>2 DEF Listened
      <4> QED
        BY <4>2, <4>3, <4>4, ToldAtLeast
    <3>4. CASE d # about[t]
      <4>1. routes'[d] = routes[d]
        BY <2>4, <3>4 DEF CommitRoute, SetRoute, RequestInv, ControllerTypeOK
      <4> QED
        BY <2>10, <3>1, <3>4, <4>1
    <3> QED
      BY <3>3, <3>4
  <2>5. CASE CommitResume(t)
    <3>1. Answer(t, {"resume"}) /\ res[t] = "ok"
      BY <2>5 DEF CommitResume, Succeeds
    <3>2. /\ op[t] = "resume" /\ pc[t] = "done" /\ kind[t] = "resume"
          /\ ~Turning(t, d)
      BY <1>1, <3>1, AnswerStores DEF ManagerOp, SettingRequests, Turning
    <3>3. CASE d = about[t]
      <4>1. routes'[d] = Returned(t, FALSE, module[t])
        BY <2>1, <2>5, <3>3 DEF CommitResume, SetRoute, RequestInv, ControllerTypeOK
      <4>2. routes'[d].sink = target[t] /\ target[t] \in Match[d]
        BY <1>1, <3>1, <3>2, <3>3, <4>1 DEF Returned, OnTarget, Answer, Asked
      <4>3. reported'[d] = IF d \in Reported THEN reported[d] ELSE heard[t][target[t]]
        BY <2>11, <3>1, <3>2, <3>3 DEF Stored, AfterResume, Succeeds, SettingRequests
      <4>4. heard[t] = actual
        BY <3>1, <3>2 DEF Listened
      <4>5. d \in Reported => routes[d].sink = target[t]
        BY <2>1, <4>2 DEF OneSinkEach, OwnSettings
      <4> QED
        BY <3>2, <4>2, <4>3, <4>4, <4>5 DEF OwnSettings, Agrees, AtLeast
    <3>4. CASE d # about[t]
      <4>1. routes'[d] = routes[d]
        BY <2>5, <3>4 DEF CommitResume, SetRoute, RequestInv, ControllerTypeOK
      <4> QED
        BY <2>10, <3>1, <3>4, <4>1
    <3> QED
      BY <3>3, <3>4
  <2>6. CASE CommitUnroute(t)
    <3>1. Answer(t, {"unroute"}) /\ RemoveRoute(about[t])
      BY <2>6 DEF CommitUnroute
    <3>2. d # about[t] /\ routes'[d] = routes[d]
      BY <2>1, <3>1 DEF RemoveRoute, RequestInv, ControllerTypeOK
    <3> QED
      BY <2>10, <3>1, <3>2
  <2>7. CASE CommitPause(t)
    <3>1. Answer(t, {"pause"}) /\ res[t] = "ok"
      BY <2>7 DEF CommitPause, Succeeds
    <3>2. /\ op[t] = "pause" /\ pc[t] = "done" /\ kind[t] = "pause"
          /\ ~Turning(t, d)
      BY <1>1, <3>1, AnswerStores DEF ManagerOp, SettingRequests, Turning
    <3>3. reported'[d] = reported[d]
      BY <1>1, <2>1, <3>1, <3>2, AnswerStores DEF Stored, SettingRequests
    <3>4. CASE d = about[t] /\ d \in Reported
      <4>1. routes'[d] = Returned(t, TRUE, NoModule)
        BY <2>1, <2>7, <3>4 DEF CommitPause, SetRoute, RequestInv, ControllerTypeOK
      <4>2. routes'[d].sink = target[t] /\ target[t] \in Match[d]
        BY <1>1, <3>1, <3>2, <3>4, <4>1 DEF Returned, OnTarget, Answer, Asked
      <4>3. routes[d].sink = target[t]
        BY <2>1, <3>4, <4>2 DEF OneSinkEach, OwnSettings
      <4> QED
        BY <3>2, <3>3, <3>4, <4>2, <4>3 DEF OwnSettings
    <3>5. CASE ~(d = about[t] /\ d \in Reported)
      <4>1. routes'[d] = routes[d]
        BY <2>1, <2>7, <3>5 DEF CommitPause, SetRoute, Reported, RequestInv, ControllerTypeOK
      <4> QED
        BY <2>3, <3>1, <3>2, <3>3, <4>1
    <3> QED
      BY <3>4, <3>5
  <2>8. CASE CommitSetting(t)
    <3>1. Answer(t, SettingRequests) /\ Succeeds(t) /\ UNCHANGED routes
      BY <2>8 DEF CommitSetting
    <3>2. /\ op[t] = "adjust" /\ kind[t] \in SettingRequests /\ cpc[t] = "calling"
          /\ pc[t] = "done" /\ dev[t] = about[t]
      BY <1>1, <3>1, AnswerStores DEF ManagerOp, SettingRequests
    <3>3. CASE d = about[t]
      <4>1. d \in Reported /\ Turning(t, d)
        BY <2>1, <3>1, <3>2, <3>3 DEF Reported, Turning, Succeeds
      <4>2. reported'[d] = Adjusted(t, reported[d])
        BY <1>1, <2>1, <3>1, <3>2, <3>3, <4>1, AnswerStores
        DEF Stored, AfterSetting, SettingRequests
      <4> QED
        BY <3>1, <4>1, <4>2 DEF OwnSettings
    <3>4. CASE d # about[t]
      BY <2>10, <3>1, <3>4
    <3> QED
      BY <3>3, <3>4
  <2>9. CASE AnswerOnly(t)
    <3>1. /\ Answer(t, RequestKinds) /\ UNCHANGED routes
          /\ ~Succeeds(t) \/ kind[t] = "tick"
      BY <2>9 DEF AnswerOnly
    <3>2. ~Turning(t, d)
      BY <1>1, <3>1, AnswerStores DEF Turning, Succeeds, ManagerOp, SettingRequests
    <3>3. reported'[d] = reported[d]
      BY <1>1, <2>1, <3>1, AnswerStores DEF Stored, AfterSetting, SettingRequests
    <3> QED
      BY <2>1, <2>3, <3>1, <3>2, <3>3
  <2> QED
    BY <1>1, <2>2, <2>4, <2>5, <2>6, <2>7, <2>8, <2>9 DEF RequestStep
<1> QED
  BY <1>3, <1>4

\* Only clients turn a volume.
LEMMA OnlyClientsTurn ==
  ASSUME RequestInv, NEW t \in Threads, ~IsClient(t), NEW d
  PROVE  ~Turning(t, d)
<1>1. Asked(t) /\ OnlyRefreshes
  BY ClientsOnly DEF RequestInv
<1> QED
  BY <1>1 DEF Turning, OnlyRefreshes, Asked

SettingsAreOwn == \A t \in Threads : IsClient(t) => (SettingsAgree <=> OwnSettings(t))

LEMMA OneSets == SingleClient /\ RequestInv => SettingsAreOwn
<1> SUFFICES
      ASSUME SingleClient, RequestInv, NEW t \in Threads, IsClient(t)
      PROVE  SettingsAgree <=> OwnSettings(t)
  BY DEF SettingsAreOwn
<1>1. \A u \in Threads \ {t} : \A d : ~Turning(u, d)
  BY OnlyClientsTurn DEF SingleClient
<1>2. ASSUME NEW d \in Reported
      PROVE  /\ (\A u \in Threads : ~Turning(u, d)) <=> ~Turning(t, d)
             /\ (\A u \in Threads :
                   Turning(u, d) => Agrees(Adjusted(u, reported[d]), actual[routes[d].sink]))
                <=> (Turning(t, d) =>
                       Agrees(Adjusted(t, reported[d]), actual[routes[d].sink]))
  BY <1>1
<1> QED
  BY <1>2 DEF SettingsAgree, OwnSettings

LEMMA OneSetsNext == SingleClient /\ RequestInv' => SettingsAreOwn'
<1>1. SingleClient' <=> SingleClient
  BY DEF SingleClient, IsClient, DeviceRequests, RequestKinds
<1> QED
  BY <1>1, OneSets, PTL

\* A thread's own step keeps what its operation knows.
LEMMA KnowingKept ==
  ASSUME RequestInv, SettingsTyped, NEW t \in Threads, OnTarget(t), Listened(t),
         \/ \E request \in Requests[t] : ReceiveWith(t, request[1], request[2])
         \/ SettingStep(t)
         \/ StoreStep(t)
  PROVE  OnTarget(t)' /\ Listened(t)'
<1>1. TypeInv /\ OnCourse(t) /\ Asked(t)
  BY DEF RequestInv
<1>2. CASE SettingStep(t)
  BY <1>1, <1>2, TargetKept, ListeningKept DEF SettingStep, ManagerStep
<1>3. CASE \E request \in Requests[t] : ReceiveWith(t, request[1], request[2])
  BY <1>3 DEF ReceiveWith, Receive, vars, callVars, localVars, OnTarget, Listened
<1>4. CASE StoreStep(t)
  <2>1. CASE DropNext(t) \/ CallManager(t)
    <3>1. PICK o, d : Call(t, o, d)
      BY <2>1 DEF DropNext, CallManager
    <3>2. pc'[t] \in {"lock", "collect"}
      BY <1>1, <3>1 DEF Call, Goto, TypeInv, TypeOK
    <3> QED
      BY <3>2 DEF OnTarget, Listened, Critical
  <2>2. CASE Publish(t)
    <3>1. /\ UNCHANGED <<pc, op, dev, res, target, actual>>
          /\ cpc[t] = "publish"
      BY <1>4, <2>2 DEF StoreStep, Publish, vars, callVars, localVars
    <3>2. UNCHANGED heard
      BY <1>4, <3>1 DEF StoreStep
    <3> QED
      BY <3>1, <3>2 DEF OnTarget, Listened
  <2>3. CASE Finish(t)
    <3>1. pc'[t] = "idle"
      BY <1>1, <2>3, Finished DEF TypeInv, TypeOK
    <3> QED
      BY <3>1 DEF OnTarget, Listened, Critical
  <2> QED
    BY <1>4, <2>1, <2>2, <2>3
    DEF StoreStep, RequestStep, Dropped, AnswerOnly, CommitRoute, CommitUnroute, CommitPause,
        CommitResume, CommitSetting, ReadStatus, Answer
<1> QED
  BY <1>2, <1>3, <1>4

\* A thread that is no client changes no setting and no route.
LEMMA OthersTurnNothing ==
  ASSUME RequestInv, SettingsTyped, NEW t \in Threads, ~IsClient(t),
         \/ \E request \in Requests[t] : ReceiveWith(t, request[1], request[2])
         \/ SettingStep(t)
         \/ StoreStep(t)
  PROVE  /\ UNCHANGED <<routes, actual>>
         /\ \A d \in Reported : reported'[d] = reported[d]
<1>1. ThreadStep(t)
  BY DEF ThreadStep, ReceiveWith, SettingStep, StoreStep
<1>2. UNCHANGED routes
  BY <1>1, OthersWriteNothing
<1>3. OnlyRefreshes /\ Asked(t) /\ OnCourse(t)
  BY ClientsOnly DEF RequestInv
<1>4. CASE \E request \in Requests[t] : ReceiveWith(t, request[1], request[2])
  BY <1>2, <1>4 DEF ReceiveWith
<1>5. CASE SettingStep(t)
  <2>1. pc[t] # "adjust"
    BY <1>3 DEF OnlyRefreshes, OnCourse, Critical, PcLabels, Refreshing
  <2> QED
    BY <1>2, <1>5, <2>1 DEF SettingStep
<1>6. CASE StoreStep(t)
  <2>1. cpc[t] = "calling" => kind[t] \in {"status", "tick"}
    BY <1>3 DEF OnlyRefreshes
  <2>2. ASSUME cpc[t] = "calling", NEW d \in Devices PROVE Stored(t, d) = reported[d]
    BY <2>1, <2>2 DEF Stored, SettingRequests
  <2> QED
    BY <1>2, <1>6, <2>2 DEF StoreStep, Reported
<1> QED
  BY <1>4, <1>5, <1>6

LEMMA SettingsStart == VolumeInit => SettingsInv
<1> SUFFICES ASSUME VolumeInit PROVE SettingsInv
  OBVIOUS
<1>1. RequestInv
  BY RequestInit DEF VolumeInit
<1>2. SettingsTyped
  BY VolumeAssumption DEF VolumeInit, SettingsTyped, Plain, Unheard, Settings
<1>3. \A t \in Threads : pc[t] = "idle"
  BY DEF VolumeInit, ControllerInit, Init
<1>4. Reported = {}
  BY DEF VolumeInit, ControllerInit, Reported
<1> QED
  BY <1>1, <1>2, <1>3, <1>4 DEF SettingsInv, SettingsAgree, OnTarget, Listened, Critical

LEMMA SettingsKept ==
  Called \subseteq Ops /\ SingleClient /\ OneSinkEach /\ SettingsInv
    /\ [VolumeNext]_volumeVars => SettingsInv'
<1> SUFFICES ASSUME Called \subseteq Ops, SingleClient, OneSinkEach, SettingsInv,
                    [VolumeNext]_volumeVars
             PROVE  SettingsInv'
  OBVIOUS
<1>1. RequestInv /\ SettingsTyped /\ RequestInv' /\ SettingsTyped'
  BY VolumeSteps, RequestNext, SettingsNext DEF SettingsInv
<1>2. ASSUME NEW t \in Threads,
             \/ \E request \in Requests[t] : ReceiveWith(t, request[1], request[2])
             \/ SettingStep(t)
             \/ StoreStep(t)
      PROVE  SettingsInv'
  <2>1. ThreadStep(t)
    BY <1>2 DEF ThreadStep, ReceiveWith, SettingStep, StoreStep
  <2>2. OnTarget(t)' /\ Listened(t)'
    BY <1>1, <1>2, KnowingKept DEF SettingsInv
  <2>3. \A u \in Threads \ {t} : Still(u) /\ heard'[u] = heard[u] /\ wish'[u] = wish[u]
    BY <1>1, <1>2, <2>1, OthersStill DEF ReceiveWith, SettingStep, StoreStep, SettingsTyped
  <2>4. ASSUME NEW u \in Threads, u # t PROVE OnTarget(u)'
    BY <2>3, <2>4 DEF SettingsInv, OnTarget, Still
  <2>5. CASE IsClient(t)
    <3>1. ASSUME NEW u \in Threads, u # t PROVE Listened(u)'
      <4>1. pc'[u] # "idle" => op'[u] = "refresh"
        BY <1>1, <2>5, <3>1, ClientsOnlyNext
        DEF SingleClient, OnlyRefreshes, IsClient, DeviceRequests, RequestKinds
      <4> QED
        BY <4>1 DEF Listened, Critical
    <3>2. OwnSettings(t)
      BY <1>1, <2>5, OneSets DEF SettingsAreOwn, SettingsInv
    <3>3. ASSUME NEW request \in Requests[t], ReceiveWith(t, request[1], request[2])
          PROVE  OwnSettings(t)'
      <4>1. UNCHANGED <<routes, actual, reported>> /\ cpc[t] = "idle" /\ cpc'[t] = "ready"
        BY <1>1, <3>3 DEF ReceiveWith, Receive, storeVars, RequestInv, ControllerTypeOK
      <4> QED
        BY <3>2, <4>1 DEF OwnSettings, Reported, Turning, Agrees, AtLeast
    <3>4. OwnSettings(t)'
      BY <1>1, <1>2, <2>2, <3>2, <3>3, SettingsInManager, SettingsInRequest DEF SettingsInv
    <3>5. SettingsAgree'
      BY <1>1, <2>5, <3>4, OneSetsNext
      DEF SettingsAreOwn, IsClient, DeviceRequests, RequestKinds
    <3> QED
      BY <1>1, <2>2, <2>4, <3>1, <3>5 DEF SettingsInv
  <2>6. CASE ~IsClient(t)
    <3>1. UNCHANGED <<routes, actual>> /\ \A d \in Reported : reported'[d] = reported[d]
      BY <1>1, <1>2, <2>6, OthersTurnNothing
    <3>2. ASSUME NEW u \in Threads, u # t PROVE Listened(u)'
      BY <2>3, <3>1, <3>2 DEF SettingsInv, Listened, Still
    <3>3. \A d : ~Turning(t, d) /\ ~Turning(t, d)'
      <4>1. pc'[t] # "idle" => op'[t] = "refresh"
        BY <1>1, <2>6, ClientsOnlyNext
        DEF OnlyRefreshes, IsClient, DeviceRequests, RequestKinds
      <4> QED
        BY <1>1, <2>6, <4>1, OnlyClientsTurn DEF Turning
    <3>4. ASSUME NEW u \in Threads, NEW d, u # t PROVE Turning(u, d)' <=> Turning(u, d)
      BY <2>3, <3>4 DEF Turning, Still
    <3>5. ASSUME NEW u \in Threads, NEW d \in Reported, u # t
          PROVE  Adjusted(u, reported[d])' = Adjusted(u, reported[d])
      BY <2>3, <3>1, <3>5 DEF Adjusted, Still
    <3>6. ASSUME NEW d \in Reported'
          PROVE  /\ d \in Reported /\ routes'[d] = routes[d] /\ reported'[d] = reported[d]
                 /\ actual'[routes'[d].sink] = actual[routes[d].sink]
      BY <3>1, <3>6 DEF Reported
    <3>7. SettingsAgree'
      <4> SUFFICES
            ASSUME NEW d \in Reported'
            PROVE  /\ (routes[d].sink \in Match[d])'
                   /\ \A u \in Threads : Turning(u, d)' =>
                        Agrees(Adjusted(u, reported[d]), actual[routes[d].sink])'
                   /\ (\A u \in Threads : ~Turning(u, d)') =>
                        Agrees(reported[d], actual[routes[d].sink])'
        BY DEF SettingsAgree
      <4>1. d \in Reported
        BY <3>6
      <4>2. ASSUME NEW u \in Threads, Turning(u, d)'
            PROVE  Agrees(Adjusted(u, reported[d]), actual[routes[d].sink])'
        <5>1. u # t /\ Turning(u, d)
          BY <3>3, <3>4, <4>2
        <5>2. Agrees(Adjusted(u, reported[d]), actual[routes[d].sink])
          BY <4>1, <5>1 DEF SettingsInv, SettingsAgree
        <5> QED
          BY <3>5, <3>6, <4>1, <5>1, <5>2 DEF Agrees, AtLeast
      <4>3. ASSUME \A u \in Threads : ~Turning(u, d)'
            PROVE  Agrees(reported[d], actual[routes[d].sink])'
        <5>1. \A u \in Threads : ~Turning(u, d)
          BY <3>3, <3>4, <4>3
        <5>2. Agrees(reported[d], actual[routes[d].sink])
          BY <4>1, <5>1 DEF SettingsInv, SettingsAgree
        <5> QED
          BY <3>6, <5>2 DEF Agrees, AtLeast
      <4>4. (routes[d].sink \in Match[d])'
        BY <3>6, <4>1 DEF SettingsInv, SettingsAgree
      <4> QED
        BY <4>2, <4>3, <4>4
    <3> QED
      BY <1>1, <2>2, <2>4, <3>2, <3>7 DEF SettingsInv
  <2> QED
    BY <2>5, <2>6
<1>3. ASSUME (ServerActs /\ UNCHANGED <<controllerVars, settingVars>>)
               \/ UNCHANGED volumeVars
      PROVE  SettingsInv'
  <2>1. UNCHANGED <<routes, cpc, kind, pc, op, dev, res, target, actual, heard, wish,
                    reported>>
    BY <1>3 DEF ServerActs, volumeVars, settingVars, allVars, vars, managerVars, callVars,
                localVars, controllerVars, storeVars, requestVars
  <2>2. SettingsAgree'
    BY <2>1 DEF SettingsInv, SettingsAgree, Reported, Turning, Agrees, AtLeast, Adjusted
  <2> QED
    BY <1>1, <2>1, <2>2 DEF SettingsInv, OnTarget, Listened
<1> QED
  BY <1>2, <1>3 DEF VolumeNext

\* A single client sees each route with the volume and the mute state its sink
\* has, through any requests and any failure in them, if no sink has two devices.
THEOREM VolumesReported ==
  ASSUME Called \subseteq Ops, SingleClient, OneSinkEach
  PROVE  VolumeSpec => []VolumesAgree
<1>1. SettingsInv => VolumesAgree
  <2> SUFFICES ASSUME SettingsInv, NEW d \in Reported, ~Touched(d)
               PROVE  Agrees(reported[d], actual[routes[d].sink])
    BY DEF VolumesAgree, Agrees
  <2>1. \A t \in Threads : ~Turning(t, d)
    BY DEF Touched, Turning
  <2> QED
    BY <2>1 DEF SettingsInv, SettingsAgree
<1> QED
  BY <1>1, SettingsStart, SettingsKept, PTL DEF VolumeSpec

=============================================================================
