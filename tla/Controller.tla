----------------------------- MODULE Controller -----------------------------
(***************************************************************************)
(* The requests that change routes: the controller service                 *)
(* (src/internal/controller/controller.go), the handlers and loops of the  *)
(* daemon that refresh (src/internal/daemon/server.go), and the part of    *)
(* the store they write (src/internal/state/store.go): the routes that are *)
(* reported to clients and which devices have a PipeWire sink.             *)
(*                                                                         *)
(* The manager keeps its own record of the routes.  Nothing locks the two  *)
(* together: a request calls the manager, which locks opMu, and writes the *)
(* store after the call has returned, under the store's own lock.  A step  *)
(* is a manager step or one locked section of the store.                   *)
(*                                                                         *)
(* Every device named in a request is known to the store.  A route's       *)
(* volume and mute state are in the module Volume, its texts are left out. *)
(***************************************************************************)
EXTENDS PulseManager

CONSTANTS
  Requests,     \* Requests[t]: the requests thread t makes, <<kind, device>>
  NoRoute

\* "set" and "add" are Route without and with --add, "status" is a client's
\* status or devices request and syncPipeWire's turn, "tick" Start's ticker.
RequestKinds == {"set", "add", "unroute", "pause", "resume", "volume", "mute",
                 "status", "tick"}
SettingRequests == {"volume", "mute"}
DeviceRequests == RequestKinds \ {"status", "tick"}

Route == [paused : BOOLEAN, module : Ids \cup {NoModule}, sink : Sinks]

ASSUME ControllerAssumption ==
  /\ NoRoute \notin Route
  /\ \A t \in Threads :
       Requests[t] \subseteq (DeviceRequests \X Devices)
                               \cup ({"status", "tick"} \X {NoDevice})

VARIABLES
  routes,       \* routes[d]: the route of d that the store reports
  mapped,       \* the devices with HasPipeWireSink
  cpc,          \* next step of each request
  kind, about,  \* the request a thread serves and the device it names
  work,         \* the routes Route has yet to remove
  seen          \* the targets Status returned

storeVars == <<routes, mapped>>
requestVars == <<cpc, kind, about, work, seen>>
controllerVars == <<storeVars, requestVars>>
allVars == <<vars, controllerVars>>

ControllerTypeOK ==
  /\ TypeOK
  /\ routes \in [Devices -> Route \cup {NoRoute}]
  /\ mapped \subseteq Devices
  /\ cpc \in [Threads -> {"idle", "ready", "dropping", "calling", "publish"}]
  /\ kind \in [Threads -> RequestKinds \cup {"none"}]
  /\ about \in [Threads -> Devices \cup {NoDevice}]
  /\ work \in [Threads -> SUBSET Devices]
  /\ seen \in [Threads -> SUBSET Sinks]

\* The devices are loaded with the mapping an earlier daemon saved; the saved
\* routes are dropped (store.ReplaceRoutes(nil) in daemon.New).
ControllerInit ==
  /\ Init
  /\ routes = [d \in Devices |-> NoRoute]
  /\ mapped \in SUBSET Devices
  /\ cpc = [t \in Threads |-> "idle"]
  /\ kind = [t \in Threads |-> "none"]
  /\ about = [t \in Threads |-> NoDevice]
  /\ work = [t \in Threads |-> {}]
  /\ seen = [t \in Threads |-> {}]

-----------------------------------------------------------------------------
(* The store *)

Reported == {d \in Devices : routes[d] # NoRoute}

SetRoute(d, r) == routes' = [routes EXCEPT ![d] = r]

RemoveRoute(d) == routes' = [routes EXCEPT ![d] = NoRoute]

\* What the manager returned to thread t.
Returned(t, paused, m) == [paused |-> paused, module |-> m, sink |-> target[t]]

\* Defect: mapped devices keep their sinks when the sinks are gone.
ReconciledMutant(names) == mapped \cup {d \in Devices : Match[d] \cap names # {}}

\* reconcilePipeWireTargetsLocked: the devices that have a target.
Reconciled(names) == {d \in Devices : Match[d] \cap names # {}}

-----------------------------------------------------------------------------
(* A request up to its call of the manager *)

\* Defect: only the routes that are not paused are removed.
OthersMutant(d) == {e \in Reported \ {d} : ~routes[e].paused}

\* The routes Route removes: all but the device's own.
Others(d) == Reported \ {d}

\* ResolveDevice, and Routes for an exclusive Route: the two reads are one
\* step, as the first reads mapped only and the second routes only.  A Route of
\* a device without a sink is refused and changes nothing.
Receive(t, k, d) ==
  /\ cpc[t] = "idle"
  /\ <<k, d>> \in Requests[t]
  /\ k \in {"set", "add"} => d \in mapped
  /\ cpc' = [cpc EXCEPT ![t] = "ready"]
  /\ kind' = [kind EXCEPT ![t] = k]
  /\ about' = [about EXCEPT ![t] = d]
  /\ work' = [work EXCEPT ![t] = IF k = "set" THEN Others(d) ELSE {}]
  /\ UNCHANGED <<vars, storeVars, seen>>

\* An exclusive Route calls Unroute for each other route ...
DropNext(t) ==
  /\ cpc[t] = "ready"
  /\ \E e \in work[t] : Call(t, "unroute", e)
  /\ cpc' = [cpc EXCEPT ![t] = "dropping"]
  /\ UNCHANGED <<storeVars, kind, about, work, seen>>

\* Defect: the loop does not advance.
DroppedMutant(t) ==
  /\ cpc[t] = "dropping"
  /\ pc[t] = "done"
  /\ RemoveRoute(dev[t])
  /\ Finish(t)
  /\ cpc' = [cpc EXCEPT ![t] = "ready"]
  /\ UNCHANGED <<mapped, kind, about, work, seen>>

\* ... and removes it from the store, whether Unroute failed or not.
Dropped(t) ==
  /\ cpc[t] = "dropping"
  /\ pc[t] = "done"
  /\ RemoveRoute(dev[t])
  /\ work' = [work EXCEPT ![t] = @ \ {dev[t]}]
  /\ Finish(t)
  /\ cpc' = [cpc EXCEPT ![t] = "ready"]
  /\ UNCHANGED <<mapped, kind, about, seen>>

ManagerOp(k) ==
  CASE k \in {"set", "add"} -> "route"
    [] k \in {"status", "tick"} -> "refresh"
    [] k \in SettingRequests -> "adjust"
    [] OTHER -> k

CallManager(t) ==
  /\ cpc[t] = "ready"
  /\ work[t] = {}
  /\ Call(t, ManagerOp(kind[t]), about[t])
  /\ cpc' = [cpc EXCEPT ![t] = "calling"]
  /\ UNCHANGED <<storeVars, kind, about, work, seen>>

-----------------------------------------------------------------------------
(* What a request does with the manager's answer *)

\* Defect: the store is written although the manager failed.
SucceedsMutant(t) == TRUE

Succeeds(t) == res[t] = "ok"

\* The manager has answered a request of one of the kinds, and the request is
\* answered in turn.
Answer(t, kinds) ==
  /\ cpc[t] = "calling"
  /\ pc[t] = "done"
  /\ kind[t] \in kinds
  /\ Finish(t)
  /\ cpc' = [cpc EXCEPT ![t] = "idle"]
  /\ kind' = [kind EXCEPT ![t] = "none"]
  /\ about' = [about EXCEPT ![t] = NoDevice]
  /\ UNCHANGED <<mapped, work, seen>>

\* The manager's error, or a tick, which has nothing to store.
AnswerOnly(t) ==
  /\ ~Succeeds(t) \/ kind[t] = "tick"
  /\ Answer(t, RequestKinds)
  /\ UNCHANGED routes

\* UpdateRoute with a volume or a mute state, or its error without a route.
CommitSetting(t) ==
  /\ Succeeds(t)
  /\ Answer(t, SettingRequests)
  /\ UNCHANGED routes

CommitRoute(t) ==
  /\ Succeeds(t)
  /\ Answer(t, {"set", "add"})
  /\ SetRoute(about[t], Returned(t, FALSE, module[t]))

CommitUnroute(t) ==
  /\ Succeeds(t)
  /\ Answer(t, {"unroute"})
  /\ RemoveRoute(about[t])

\* Defect: the module of the paused route is not cleared.
CommitPauseMutant(t) ==
  /\ Succeeds(t)
  /\ Answer(t, {"pause"})
  /\ IF about[t] \in Reported
       THEN SetRoute(about[t], [routes[about[t]] EXCEPT !.paused = TRUE])
       ELSE UNCHANGED routes

\* UpdateRoute: pausing a device without a route is an error.
CommitPause(t) ==
  /\ Succeeds(t)
  /\ Answer(t, {"pause"})
  /\ IF about[t] \in Reported
       THEN SetRoute(about[t], Returned(t, TRUE, NoModule))
       ELSE UNCHANGED routes

\* Defect: Resume of a device without a route does not make one.
CommitResumeMutant(t) ==
  /\ Succeeds(t)
  /\ Answer(t, {"resume"})
  /\ IF about[t] \in Reported
       THEN SetRoute(about[t], Returned(t, FALSE, module[t]))
       ELSE UNCHANGED routes

\* UpdateRoute, or SetRoute if there is no route: the same fields either way.
CommitResume(t) ==
  /\ Succeeds(t)
  /\ Answer(t, {"resume"})
  /\ SetRoute(about[t], Returned(t, FALSE, module[t]))

\* Refresh has succeeded: Status reads the manager's targets, which another
\* refresh may have replaced since.
ReadStatus(t) ==
  /\ cpc[t] = "calling"
  /\ pc[t] = "done"
  /\ kind[t] = "status"
  /\ Succeeds(t)
  /\ seen' = [seen EXCEPT ![t] = targets]
  /\ Finish(t)
  /\ cpc' = [cpc EXCEPT ![t] = "publish"]
  /\ UNCHANGED <<storeVars, kind, about, work>>

\* SetPipeWireStatus.
Publish(t) ==
  /\ cpc[t] = "publish"
  /\ mapped' = Reconciled(seen[t])
  /\ cpc' = [cpc EXCEPT ![t] = "idle"]
  /\ kind' = [kind EXCEPT ![t] = "none"]
  /\ seen' = [seen EXCEPT ![t] = {}]
  /\ UNCHANGED <<vars, routes, about, work>>

-----------------------------------------------------------------------------
(* The daemon *)

RequestStep(t) ==
  \/ DropNext(t) \/ Dropped(t) \/ CallManager(t)
  \/ AnswerOnly(t) \/ CommitRoute(t) \/ CommitUnroute(t)
  \/ CommitPause(t) \/ CommitResume(t) \/ CommitSetting(t)
  \/ ReadStatus(t) \/ Publish(t)

ManagerStep(t) == OpStep(t) /\ UNCHANGED controllerVars

ControllerNext ==
  \/ \E t \in Threads :
       \/ \E request \in Requests[t] : Receive(t, request[1], request[2])
       \/ RequestStep(t)
       \/ ManagerStep(t)
  \/ ServerActs /\ UNCHANGED controllerVars

ControllerSpec == ControllerInit /\ [][ControllerNext]_allVars

\* Handlers run to their end, and sync.Mutex starves no one.  No client has to
\* make a request.
HandlerFairness ==
  \A t \in Threads :
    /\ WF_allVars(RequestStep(t))
    /\ WF_allVars(ManagerStep(t))
    /\ SF_allVars(Lock(t) /\ UNCHANGED controllerVars)

\* A thread whose only request is "status" is syncPipeWire, which makes it on
\* every tick.
SyncFairness ==
  \A t \in {u \in Threads : Requests[u] = {<<"status", NoDevice>>}} :
    WF_allVars(Receive(t, "status", NoDevice))

-----------------------------------------------------------------------------
(* Properties *)

\* A request under way may still change what is known of d.
Touched(d) ==
  \E t \in Threads : cpc[t] # "idle" /\ d \in {about[t], dev[t]} \cup work[t]

\* A loopback in the manager's records is in the list of routes, as one that
\* plays.  Otherwise a device plays that no client sees, and the next exclusive
\* Route, which goes by the list, leaves it playing.
RecordedIsReported ==
  \A d \in Devices :
    ~Touched(d) /\ routeModules[d] # NoModule =>
      /\ d \in Reported
      /\ ~routes[d].paused
      /\ routes[d].module = routeModules[d]

\* When the manager has made the route of an exclusive Route, no other device
\* has a route, in the list or in the records, even if an Unroute failed.
SetIsExclusive ==
  \A t \in Threads :
    cpc[t] = "calling" /\ pc[t] = "done" /\ kind[t] = "set" /\ res[t] = "ok" =>
      \A e \in Devices \ {about[t]} : e \notin Reported /\ routeModules[e] = NoModule

\* After exclusive Routes only, one device at most has a route.
OneRouteAfterSets ==
  (\A t \in Threads : cpc[t] = "idle") =>
    \A d, e \in Reported : d = e

\* Every request is answered.
RequestsAnswered == \A t \in Threads : cpc[t] # "idle" ~> cpc[t] = "idle"

\* Once the sinks stay as they are, the store has the right mapping: a status
\* that was read early and written late does not stay.
MappingCatchesUp ==
  <>[][FALSE]_sinks =>
    <>[](mapped = {d \in Devices : Match[d] \cap sinks # {}})

=============================================================================
