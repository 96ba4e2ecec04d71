---------------------------- MODULE PulseManager ----------------------------
(***************************************************************************)
(* PulseManager (src/internal/pipewire/manager.go): the one component that *)
(* loads and unloads modules.  Every operation holds opMu from its first   *)
(* step to its last, and runs one pactl command after another; a step here *)
(* is one pactl command with the memory accesses around it, so the server  *)
(* and other applications may act between any two commands and any command *)
(* may fail.                                                               *)
(*                                                                         *)
(* A thread is a goroutine that calls the manager: an HTTP handler,        *)
(* syncPipeWire, or the manager's own ticker, which runs the cleanup when  *)
(* the daemon is told to stop: the one operation that does not hold opMu.  *)
(* The fields of Status that no decision reads are left out; volumes are   *)
(* in the module Volume.                                                   *)
(***************************************************************************)
EXTENDS PulseServer

CONSTANTS
  Threads,
  Devices,      \* device IDs
  Match,        \* Match[d]: the sinks resolveTarget accepts for device d
  Rank,         \* Rank[s]: place of s when sinks are sorted by description
  Extensions,   \* Extensions[s]: the sinks whose name begins with s's name
  Ops,          \* the operations called in this instance
  NoThread, NoDevice, NoSink, NoModule

\* "adjust" is SetVolume and SetMute, "cleanup" the end of Start.
OpKinds == {"start", "refresh", "route", "unroute", "pause", "resume", "adjust",
            "cleanup"}
DeviceOps == {"route", "unroute", "pause", "resume", "adjust"}
Phases == {"new", "starting", "ticking", "failed", "stopping"}

ASSUME ManagerAssumption ==
  /\ Match \in [Devices -> SUBSET Sinks]
  /\ Rank \in [Sinks -> Nat]
  /\ Extensions \in [Sinks -> SUBSET Sinks]
  /\ \A s \in Sinks : s \in Extensions[s]
  /\ Ops \subseteq OpKinds
  /\ NoThread \notin Threads /\ NoDevice \notin Devices
  /\ NoSink \notin Sinks /\ NoModule \notin Ids

VARIABLES
  opMu,             \* the thread that holds opMu
  phase,            \* how far Start is
  targets,          \* status.Targets, as names
  outputExists,     \* status.OutputSinkExists
  outputModuleID,
  createdOutputSink,
  routeModules,     \* routeModules[d]: the loopback loaded for d
  routeSinks,       \* routeSinks[d]: the sink it was loaded for
  pc,               \* next step of each thread
  op, dev,          \* the operation it runs and on which device
  target,           \* the sink the operation resolved
  module,           \* a module index it read or was given
  todo,             \* the listed modules it has yet to unload
  ret,              \* where ensureOutputSink returns to
  res               \* "err" once the operation fails

statusVars == <<targets, outputExists>>
recordVars == <<routeModules, routeSinks>>
callVars == <<op, dev>>
localVars == <<target, module, todo, ret>>
outputVars == <<outputModuleID, createdOutputSink>>
managerVars == <<opMu, phase, statusVars, outputVars, recordVars>>
vars == <<serverVars, managerVars, pc, callVars, localVars, res>>

PcLabels == {"idle", "lock", "list", "scan", "sweep", "create", "rescan",
             "resweep", "resolve", "drop", "clean", "cleaning", "load",
             "record", "forget", "unload", "adjust", "collect", "release",
             "unlock", "done"}

TypeOK ==
  /\ ServerTypeOK
  /\ opMu \in Threads \cup {NoThread}
  /\ phase \in Phases
  /\ targets \subseteq Sinks
  /\ outputExists \in BOOLEAN
  /\ outputModuleID \in Ids \cup {NoModule}
  /\ createdOutputSink \in BOOLEAN
  /\ routeModules \in [Devices -> Ids \cup {NoModule}]
  /\ routeSinks \in [Devices -> Sinks \cup {NoSink}]
  /\ pc \in [Threads -> PcLabels]
  /\ op \in [Threads -> OpKinds \cup {"none"}]
  /\ dev \in [Threads -> Devices \cup {NoDevice}]
  /\ target \in [Threads -> Sinks \cup {NoSink}]
  /\ module \in [Threads -> Ids \cup {NoModule}]
  /\ todo \in [Threads -> SUBSET Ids]
  /\ ret \in [Threads -> {"list", "resolve", "unlock"}]
  /\ res \in [Threads -> {"ok", "err"}]

\* New: nothing is known of the server before the first listing.
Init ==
  /\ ServerInit
  /\ opMu = NoThread
  /\ phase = "new"
  /\ targets = {}
  /\ outputExists = FALSE
  /\ outputModuleID = NoModule
  /\ createdOutputSink = FALSE
  /\ routeModules = [d \in Devices |-> NoModule]
  /\ routeSinks = [d \in Devices |-> NoSink]
  /\ pc = [t \in Threads |-> "idle"]
  /\ op = [t \in Threads |-> "none"]
  /\ dev = [t \in Threads |-> NoDevice]
  /\ target = [t \in Threads |-> NoSink]
  /\ module = [t \in Threads |-> NoModule]
  /\ todo = [t \in Threads |-> {}]
  /\ ret = [t \in Threads |-> "unlock"]
  /\ res = [t \in Threads |-> "ok"]

-----------------------------------------------------------------------------
(* Helpers *)

Goto(t, label) == pc' = [pc EXCEPT ![t] = label] /\ UNCHANGED res

Fail(t) ==
  /\ pc' = [pc EXCEPT ![t] = "unlock"]
  /\ res' = [res EXCEPT ![t] = "err"]

\* The loopbacks the manager knows it loaded.
Recorded == {routeModules[d] : d \in Devices} \ {NoModule}

\* Defect: every loopback counts as stale, the known ones included.
StaleMutantAll == Loopbacks

\* Defect: stale loopbacks are never looked for.
StaleMutantNone == {}

\* The loopbacks of no known route, left behind by a crash or a failed call.
Stale == Loopbacks \ Recorded

\* Defect: the cleanup looks only for the loopbacks in the records.
LoopbacksToMutant(s) == {i \in Recorded : modules[i] \in Extensions[s]}

\* The loopbacks whose argument contains "sink=" and the name of s.
LoopbacksTo(s) == {i \in Loopbacks : modules[i] \in Extensions[s]}

\* Defect: the first of the targets is taken, whatever the device.
ResolvesToMutant(d, s) == s \in targets /\ \A r \in targets : Rank[s] <= Rank[r]

\* resolveTarget(d) returns s: the first match in the order of the targets.
\* Sinks of equal rank have equal descriptions, and either may come first.
ResolvesTo(d, s) ==
  /\ s \in targets \cap Match[d]
  /\ \A r \in targets \cap Match[d] : Rank[s] <= Rank[r]

\* resolveTarget(d) returns ErrTargetSinkUnavailable.
Unresolved(d) == targets \cap Match[d] = {}

\* Defect: tuxplay_output is listed as a target too.
ReadSinksMutant ==
  /\ targets' = sinks \cup (IF Outputs = {} THEN {} ELSE {Output})
  /\ outputExists' = (Outputs # {})

\* status.Targets and status.OutputSinkExists from a listing of the sinks.
ReadSinks ==
  /\ targets' = sinks
  /\ outputExists' = (Outputs # {})

\* Where an operation goes on once refreshLocked has returned.
AfterRefresh(t) == IF op[t] \in {"route", "resume"} THEN "resolve" ELSE "unlock"

\* Defect: a refresh does not ensure the output sink.
AfterListingMutant(t) == AfterRefresh(t)

\* refreshLocked(true) ensures the output sink if its listing shows none.
AfterListing(t) == IF Outputs = {} THEN "scan" ELSE AfterRefresh(t)

\* Defect: the records stay when the loopback goes.
ForgetRouteMutant(d) == UNCHANGED recordVars

\* delete(m.routeModules, device.ID); delete(m.routeSinks, device.ID)
ForgetRoute(d) ==
  /\ routeModules' = [routeModules EXCEPT ![d] = NoModule]
  /\ routeSinks' = [routeSinks EXCEPT ![d] = NoSink]

-----------------------------------------------------------------------------
(* Calling the manager *)

\* A goroutine calls an operation.  Start is called once, by Server.Run, and
\* ends with the cleanup if it has come as far as its loop.
Call(t, o, d) ==
  /\ pc[t] = "idle"
  /\ \/ o = "start" /\ phase = "new" /\ phase' = "starting"
     \/ o = "cleanup" /\ phase = "ticking" /\ phase' = "stopping"
     \/ o \notin {"start", "cleanup"} /\ UNCHANGED phase
  /\ Goto(t, IF o = "cleanup" THEN "collect" ELSE "lock")
  /\ op' = [op EXCEPT ![t] = o]
  /\ dev' = [dev EXCEPT ![t] = d]
  /\ UNCHANGED <<serverVars, opMu, statusVars, outputVars, recordVars,
                 localVars>>

\* Defect: the operation does not wait for opMu.
CanLockMutant == TRUE

\* opMu.Lock() returns.
CanLock == opMu = NoThread

\* The first step: Start begins with ensureOutputSink, Refresh, Route and Resume
\* with refreshLocked, Unroute and Pause with their own record, SetVolume and
\* SetMute with the target.
Lock(t) ==
  /\ pc[t] = "lock"
  /\ CanLock
  /\ opMu' = t
  /\ \/ /\ op[t] = "start"
        /\ ret' = [ret EXCEPT ![t] = "list"]
        /\ Goto(t, "scan")
     \/ /\ op[t] \in {"refresh", "route", "resume"}
        /\ Goto(t, "list")
        /\ UNCHANGED ret
     \/ /\ op[t] \in {"unroute", "pause"}
        /\ Goto(t, "forget")
        /\ UNCHANGED ret
     \/ /\ op[t] = "adjust"
        /\ Goto(t, "adjust")
        /\ UNCHANGED ret
  /\ UNCHANGED <<serverVars, phase, statusVars, outputVars, recordVars,
                 callVars, target, module, todo>>

\* Defect: Start returns without unlocking.
UnlockMutant(t) ==
  /\ pc[t] = "unlock"
  /\ opMu' = IF op[t] = "start" THEN opMu ELSE NoThread
  /\ Goto(t, "done")
  /\ UNCHANGED <<serverVars, phase, statusVars, outputVars, recordVars,
                 callVars, localVars>>

\* opMu.Unlock(), deferred in every operation but Start, which has one on
\* each of its ways out.
Unlock(t) ==
  /\ pc[t] = "unlock"
  /\ opMu' = NoThread
  /\ Goto(t, "done")
  /\ UNCHANGED <<serverVars, phase, statusVars, outputVars, recordVars,
                 callVars, localVars>>

\* The caller has the result and the locals of the call are gone.  Start goes
\* on to its loop, or is over: after an error, and after the cleanup.
Finish(t) ==
  /\ pc[t] = "done"
  /\ op[t] # "cleanup"
  /\ phase' = IF op[t] # "start" THEN phase
              ELSE IF res[t] = "ok" THEN "ticking" ELSE "failed"
  /\ pc' = [pc EXCEPT ![t] = "idle"]
  /\ op' = [op EXCEPT ![t] = "none"]
  /\ dev' = [dev EXCEPT ![t] = NoDevice]
  /\ target' = [target EXCEPT ![t] = NoSink]
  /\ module' = [module EXCEPT ![t] = NoModule]
  /\ todo' = [todo EXCEPT ![t] = {}]
  /\ ret' = [ret EXCEPT ![t] = "unlock"]
  /\ res' = [res EXCEPT ![t] = "ok"]
  /\ UNCHANGED <<serverVars, opMu, statusVars, outputVars, recordVars>>

-----------------------------------------------------------------------------
(* refreshLocked(true) and ensureOutputSink *)

\* refreshLocked: list the sinks; without an output sink, ensure there is one.
List(t) ==
  /\ pc[t] = "list"
  /\ ReadSinks
  /\ ret' = [ret EXCEPT ![t] = AfterRefresh(t)]
  /\ Goto(t, AfterListing(t))
  /\ UNCHANGED <<serverVars, opMu, phase, outputVars, recordVars,
                 callVars, target, module, todo>>

\* refreshWithoutEnsureLocked up to its unloads: list sinks and modules, keep
\* the first output sink, mark the others and every unrecorded loopback.  The
\* two listings are one step: only sinks and output modules show in the first
\* and only loopbacks in the second, so what the server does in between may as
\* well come before or after both.  The records are read after them, but only
\* holders of opMu and Collect write to them: a Collect in between, which
\* changes nothing that the listings show, may as well come before them, and
\* the unloads that follow it after the read.
Scan(t) ==
  /\ pc[t] \in {"scan", "rescan"}
  /\ ReadSinks
  /\ \E keep \in IF Outputs = {} THEN {outputModuleID} ELSE Outputs :
       /\ outputModuleID' = keep
       /\ todo' = [todo EXCEPT
                     ![t] = (Outputs \ {keep}) \cup Stale]
  /\ Goto(t, IF pc[t] = "scan" THEN "sweep" ELSE "resweep")
  /\ UNCHANGED <<serverVars, opMu, phase, createdOutputSink, recordVars,
                 callVars, target, module, ret>>

\* Unload one marked module; a failure is only logged.
Sweep(t) ==
  /\ pc[t] \in {"sweep", "resweep"}
  /\ \E i \in todo[t] :
       /\ UnloadModule(i) \/ UnloadModuleFails(i)
       /\ todo' = [todo EXCEPT ![t] = @ \ {i}]
  /\ UNCHANGED <<sinks, managerVars, pc, callVars, target, module, ret, res>>

\* ensureOutputSink after a refresh: return if it was the second one or the
\* sink exists, load the null sink otherwise.
Swept(t) ==
  /\ pc[t] \in {"sweep", "resweep"}
  /\ todo[t] = {}
  /\ Goto(t, IF pc[t] = "sweep" /\ ~outputExists THEN "create" ELSE ret[t])
  /\ UNCHANGED <<serverVars, managerVars, callVars, localVars>>

Create(t) ==
  /\ pc[t] = "create"
  /\ \E i \in Ids :
       /\ LoadModule(i, Output)
       /\ outputModuleID' = i
  /\ createdOutputSink' = TRUE
  /\ Goto(t, "rescan")
  /\ UNCHANGED <<sinks, opMu, phase, statusVars, recordVars, callVars,
                 localVars>>

-----------------------------------------------------------------------------
(* pactl commands that fail and end the operation *)

\* A listing fails: no memory is written before both listings are in.
ListingFails(t) ==
  /\ "list" \in Faults
  /\ pc[t] \in {"list", "scan", "rescan", "clean"}
  /\ Fail(t)
  /\ UNCHANGED <<serverVars, managerVars, callVars, localVars>>

\* load-module fails, also when the server has no index left (a bound of
\* the instance, Ids).
LoadFails(t) ==
  /\ "load" \in Faults \/ \A i \in Ids : modules[i] # Free
  /\ pc[t] \in {"create", "load"}
  /\ Fail(t)
  /\ UNCHANGED <<serverVars, managerVars, callVars, localVars>>

\* load-module loads, but its output is not a number: runPactl joins stdout
\* and stderr, and any warning makes ParseUint fail.
LoadIsLost(t) ==
  /\ "lost" \in Faults
  /\ pc[t] \in {"create", "load"}
  /\ \E i \in Ids :
       LoadModule(i, IF pc[t] = "create" THEN Output ELSE target[t])
  /\ Fail(t)
  /\ UNCHANGED <<sinks, managerVars, callVars, localVars>>

-----------------------------------------------------------------------------
(* Route and Resume *)

\* Defect: Route reloads the loopback of a device already routed to the sink.
AlreadyRoutedMutant(d, s) == FALSE

\* Route's fast path: a record for this sink is trusted.
AlreadyRouted(d, s) == routeModules[d] # NoModule /\ routeSinks[d] = s

\* Route returns what is recorded for this sink; a record for another sink has
\* its loopback unloaded first.
Compare(t, s) ==
  /\ module' = [module EXCEPT ![t] = routeModules[dev[t]]]
  /\ \/ AlreadyRouted(dev[t], s) /\ Goto(t, "unlock")
     \/ /\ ~AlreadyRouted(dev[t], s)
        /\ Goto(t, IF routeModules[dev[t]] # NoModule THEN "drop" ELSE "clean")

\* Resume loads at once, Route looks at its record first.
Resolve(t) ==
  /\ pc[t] = "resolve"
  /\ \E s \in Sinks :
       /\ ResolvesTo(dev[t], s)
       /\ target' = [target EXCEPT ![t] = s]
       /\ \/ op[t] = "resume" /\ Goto(t, "load") /\ UNCHANGED module
          \/ op[t] = "route" /\ Compare(t, s)
  /\ UNCHANGED <<serverVars, managerVars, callVars, todo, ret>>

ResolveFails(t) ==
  /\ pc[t] = "resolve"
  /\ Unresolved(dev[t])
  /\ Fail(t)
  /\ UNCHANGED <<serverVars, managerVars, callVars, localVars>>

\* Route unloads the loopback of a device that moved to another sink; a
\* failure is only logged.
Drop(t) ==
  /\ pc[t] = "drop"
  /\ UnloadModule(module[t]) \/ UnloadModuleFails(module[t])
  /\ Goto(t, "clean")
  /\ UNCHANGED <<sinks, managerVars, callVars, localVars>>

\* cleanupLoopbacksForTarget: list the loopbacks to the target ...
Clean(t) ==
  /\ pc[t] = "clean"
  /\ todo' = [todo EXCEPT ![t] = LoopbacksTo(target[t])]
  /\ Goto(t, "cleaning")
  /\ UNCHANGED <<serverVars, managerVars, callVars, target, module, ret>>

\* ... and unload them, until one unload fails.
CleanOne(t) ==
  /\ pc[t] = "cleaning"
  /\ \E i \in todo[t] :
       /\ UnloadModule(i)
       /\ todo' = [todo EXCEPT ![t] = @ \ {i}]
  /\ UNCHANGED <<sinks, managerVars, pc, callVars, target, module, ret, res>>

CleanFails(t) ==
  /\ pc[t] = "cleaning"
  /\ \E i \in todo[t] : UnloadModuleFails(i)
  /\ Fail(t)
  /\ UNCHANGED <<sinks, managerVars, callVars, localVars>>

Cleaned(t) ==
  /\ pc[t] = "cleaning"
  /\ todo[t] = {}
  /\ Goto(t, IF op[t] = "route" THEN "load" ELSE "unlock")
  /\ UNCHANGED <<serverVars, managerVars, callVars, localVars>>

\* loadLoopback(target).
Load(t) ==
  /\ pc[t] = "load"
  /\ \E i \in Ids :
       /\ LoadModule(i, target[t])
       /\ module' = [module EXCEPT ![t] = i]
  /\ Goto(t, "record")
  /\ UNCHANGED <<sinks, managerVars, callVars, target, todo, ret>>

\* routeModules[device.ID] = moduleID; routeSinks[device.ID] = target.Name.
Record(t) ==
  /\ pc[t] = "record"
  /\ routeModules' = [routeModules EXCEPT ![dev[t]] = module[t]]
  /\ routeSinks' = [routeSinks EXCEPT ![dev[t]] = target[t]]
  /\ Goto(t, "unlock")
  /\ UNCHANGED <<serverVars, opMu, phase, statusVars, outputVars,
                 callVars, localVars>>

-----------------------------------------------------------------------------
(* Unroute and Pause *)

\* Defect: Unroute is done once its own loopback is gone.
ReleasedMutant(t, s) ==
  IF op[t] = "pause" /\ s = NoSink THEN Fail(t) ELSE Goto(t, "unlock")

\* Once its own loopback is gone, Unroute cleans the sink if it resolved
\* one, Pause is done but fails if it resolved none.
Released(t, s) ==
  \/ op[t] = "unroute" /\ s # NoSink /\ Goto(t, "clean")
  \/ op[t] = "unroute" /\ s = NoSink /\ Goto(t, "unlock")
  \/ op[t] = "pause" /\ s = NoSink /\ Fail(t)
  \/ op[t] = "pause" /\ s # NoSink /\ Goto(t, "unlock")

\* The record goes first, the loopback after it.  Pause resolves its target
\* only after the unload, with the same result: targets changes under opMu.
Forget(t) ==
  /\ pc[t] = "forget"
  /\ module' = [module EXCEPT ![t] = routeModules[dev[t]]]
  /\ ForgetRoute(dev[t])
  /\ \E s \in Sinks \cup {NoSink} :
       /\ \/ ResolvesTo(dev[t], s)
          \/ s = NoSink /\ Unresolved(dev[t])
       /\ target' = [target EXCEPT ![t] = s]
       /\ \/ routeModules[dev[t]] # NoModule /\ Goto(t, "unload")
          \/ routeModules[dev[t]] = NoModule /\ Released(t, s)
  /\ UNCHANGED <<serverVars, opMu, phase, statusVars, outputVars,
                 callVars, todo, ret>>

Unload(t) ==
  /\ pc[t] = "unload"
  /\ UnloadModule(module[t])
  /\ Released(t, target[t])
  /\ UNCHANGED <<sinks, managerVars, callVars, localVars>>

UnloadFails(t) ==
  /\ pc[t] = "unload"
  /\ UnloadModuleFails(module[t])
  /\ Fail(t)
  /\ UNCHANGED <<sinks, managerVars, callVars, localVars>>

-----------------------------------------------------------------------------
(* SetVolume and SetMute *)

\* One pactl command for the target, which is looked up without a refresh.
Adjust(t) ==
  /\ pc[t] = "adjust"
  /\ \E s \in sinks :
       /\ ResolvesTo(dev[t], s)
       /\ target' = [target EXCEPT ![t] = s]
  /\ Goto(t, "unlock")
  /\ UNCHANGED <<serverVars, managerVars, callVars, module, todo, ret>>

\* There is no target, or pactl fails, as it does for a sink that has left.
AdjustFails(t) ==
  /\ pc[t] = "adjust"
  /\ \/ Unresolved(dev[t])
     \/ "adjust" \in Faults
     \/ \E s \in Sinks \ sinks : ResolvesTo(dev[t], s)
  /\ Fail(t)
  /\ UNCHANGED <<serverVars, managerVars, callVars, localVars>>

-----------------------------------------------------------------------------
(* cleanup, when the daemon is told to stop, and the next daemon *)

\* Defect: the records are thrown away before they are copied.
CollectedMutant == {}

\* The modules cleanup is to unload.
Collected == Recorded

\* Copy the records and forget them, under mu but not opMu.
Collect(t) ==
  /\ pc[t] = "collect"
  /\ todo' = [todo EXCEPT ![t] = Collected]
  /\ module' = [module EXCEPT
                  ![t] = IF createdOutputSink THEN outputModuleID ELSE NoModule]
  /\ routeModules' = [d \in Devices |-> NoModule]
  /\ routeSinks' = [d \in Devices |-> NoSink]
  /\ Goto(t, "release")
  /\ UNCHANGED <<serverVars, opMu, phase, statusVars, outputVars, callVars,
                 target, ret>>

\* Unload one of the copies; a failure is only logged.
Release(t) ==
  /\ pc[t] = "release"
  /\ \E i \in todo[t] :
       /\ UnloadModule(i) \/ UnloadModuleFails(i)
       /\ todo' = [todo EXCEPT ![t] = @ \ {i}]
  /\ UNCHANGED <<sinks, managerVars, pc, callVars, target, module, ret, res>>

\* Then the output sink, if this manager has made one.
ReleaseOutput(t) ==
  /\ pc[t] = "release"
  /\ todo[t] = {}
  /\ \/ module[t] = NoModule /\ UNCHANGED modules
     \/ module[t] # NoModule /\ (UnloadModule(module[t]) \/ UnloadModuleFails(module[t]))
  /\ Goto(t, "done")
  /\ UNCHANGED <<sinks, managerVars, callVars, localVars>>

\* The daemon's process ends and another one starts.  It ends by a crash at any
\* step, or once cleanup has returned: Run waits for Start, but not for
\* handlers or syncPipeWire, whose operations are cut off.  The modules stay.
Restart ==
  /\ "crash" \in Faults \/ \E t \in Threads : op[t] = "cleanup" /\ pc[t] = "done"
  /\ opMu' = NoThread
  /\ phase' = "new"
  /\ targets' = {}
  /\ outputExists' = FALSE
  /\ outputModuleID' = NoModule
  /\ createdOutputSink' = FALSE
  /\ routeModules' = [d \in Devices |-> NoModule]
  /\ routeSinks' = [d \in Devices |-> NoSink]
  /\ pc' = [t \in Threads |-> "idle"]
  /\ op' = [t \in Threads |-> "none"]
  /\ dev' = [t \in Threads |-> NoDevice]
  /\ target' = [t \in Threads |-> NoSink]
  /\ module' = [t \in Threads |-> NoModule]
  /\ todo' = [t \in Threads |-> {}]
  /\ ret' = [t \in Threads |-> "unlock"]
  /\ res' = [t \in Threads |-> "ok"]
  /\ UNCHANGED serverVars

-----------------------------------------------------------------------------
(* The manager and its callers *)

\* One step of the operation thread t is in.
OpStep(t) ==
  \/ Lock(t) \/ Unlock(t)
  \/ List(t) \/ Scan(t) \/ Sweep(t) \/ Swept(t) \/ Create(t)
  \/ ListingFails(t) \/ LoadFails(t) \/ LoadIsLost(t)
  \/ Resolve(t) \/ ResolveFails(t) \/ Drop(t)
  \/ Clean(t) \/ CleanOne(t) \/ CleanFails(t) \/ Cleaned(t)
  \/ Load(t) \/ Record(t)
  \/ Forget(t) \/ Unload(t) \/ UnloadFails(t)
  \/ Adjust(t) \/ AdjustFails(t)

\* One step of the cleanup, which is outside opMu.
StopStep(t) == Collect(t) \/ Release(t) \/ ReleaseOutput(t)

\* The calls of this instance: any operation of Ops, on any device.
AnyCall(t) ==
  \/ \E o \in Ops \cap DeviceOps, d \in Devices : Call(t, o, d)
  \/ \E o \in Ops \ DeviceOps : Call(t, o, NoDevice)

ServerActs == ServerStep /\ UNCHANGED <<managerVars, pc, callVars, localVars, res>>

Next ==
  \/ \E t \in Threads : AnyCall(t) \/ OpStep(t) \/ StopStep(t) \/ Finish(t)
  \/ ServerActs
  \/ Restart

Spec == Init /\ [][Next]_vars

\* An operation under way runs on.  Locking is strongly fair: a sync.Mutex
\* hands itself to a waiter that has waited for a millisecond.
OpFairness ==
  \A t \in Threads : /\ WF_vars(OpStep(t) \/ StopStep(t))
                    /\ SF_vars(Lock(t))
                    /\ WF_vars(Finish(t))

\* Start and syncPipeWire refresh on every tick for as long as they run: one
\* of the threads that are idle again and again calls Refresh again and again.
TickFairness == \E t \in Threads : SF_vars(Call(t, "refresh", NoDevice))

FairSpec == Spec /\ OpFairness

TickingSpec == Spec /\ OpFairness /\ TickFairness

-----------------------------------------------------------------------------
(* Properties *)

\* Thread t is about to return from operation o without an error.
Returns(t, o) == pc[t] = "unlock" /\ op[t] = o /\ res[t] = "ok"

\* No two TuxPlay loopbacks feed one sink: a second one is heard as an echo,
\* and no record points to it.  Route ensures this by cleaning the sink
\* before it loads, whatever failed before.  It needs that Resume is never
\* called, which loads without cleaning.
OneLoopbackPerSink ==
  \A i, j \in Loopbacks : modules[i] = modules[j] => i = j

\* The sweep of stale loopbacks never unloads the loopback of a known route,
\* although it works from a listing taken before other commands ran.
SweepSparesRecorded ==
  \A t \in Threads :
    pc[t] \in {"sweep", "resweep"} => todo[t] \cap Recorded = {}

\* When Unroute of a device with a sink returns without an error, nothing
\* feeds the sink, not even a loopback that an earlier failure orphaned.
UnrouteSilences ==
  \A t \in Threads :
    Returns(t, "unroute") /\ target[t] # NoSink => Feeding(target[t]) = {}

\* The same of Pause: what is paused is not heard.
PauseSilences ==
  \A t \in Threads : Returns(t, "pause") => Feeding(target[t]) = {}

\* When Route or Resume returns without an error a loopback feeds the sink it
\* names, also when it trusted a record.
RouteSounds ==
  \A t \in Threads :
    Returns(t, "route") \/ Returns(t, "resume") => Feeding(target[t]) # {}

\* Whatever happens to the loopback, a client that routes the device again and
\* again and is told it is routed gets a loopback again and again.
RouteRepairs ==
  \A s \in Sinks :
    []<>(\E t \in Threads : Returns(t, "route") /\ target[t] = s)
      => []<>(Feeding(s) # {})

\* A record names a module that is loaded and feeds the recorded sink, so
\* unloading a record never hits another module.
RecordsLive ==
  \A d \in Devices :
    routeModules[d] # NoModule => modules[routeModules[d]] = routeSinks[d]

\* The indexes the manager keeps: its records, its output sink, and those an
\* operation or the cleanup has yet to unload or to record.
KeptIndexes ==
  Recorded \cup {outputModuleID}
    \cup {module[t] :
            t \in {u \in Threads : pc[u] \in {"record", "unload", "drop", "release"}}}
    \cup UNION {todo[t] :
            t \in {u \in Threads : pc[u] \in {"sweep", "resweep", "cleaning", "release"}}}

\* The manager does not ask whose module has a kept index when it unloads it,
\* and the module it was kept for may be gone: the server may then give the
\* index to another application, whose module goes.  That is the only way: what
\* another application has under an index that is not kept stays until the
\* server drops it, and no listing and no load makes the manager keep its
\* index.
SparesForeign ==
  [][\A i \in Ids \ KeptIndexes :
       modules[i] = Foreign =>
         i \notin KeptIndexes' /\ (modules'[i] = Foreign \/ ServerActs)]_vars

\* Whatever an earlier daemon left behind, once Start's ensureOutputSink has
\* run there is no second output sink, and every loopback belongs to a route.
StartAdopts ==
  \A t \in Threads :
    pc[t] = "list" /\ op[t] = "start" =>
      Loopbacks \subseteq Recorded /\ Outputs \subseteq {outputModuleID}

\* The steps between opMu.Lock and opMu.Unlock.
Critical == PcLabels \ {"idle", "lock", "collect", "release", "done"}

\* The thread that holds opMu is the one that is between Lock and Unlock.
Exclusive == \A t \in Threads : pc[t] \in Critical <=> opMu = t

\* An operation that loads or cleans has resolved a target.
Aimed ==
  \A t \in Threads :
    pc[t] \in {"drop", "clean", "cleaning", "load", "record"} =>
      target[t] \in Sinks

\* The operations on a device know it, and only two of them forget its route.
Addressed ==
  \A t \in Threads :
    /\ op[t] \in DeviceOps => dev[t] \in Devices
    /\ pc[t] = "forget" => op[t] \in {"unroute", "pause"}

\* Unroute neither refreshes nor loads.
UnrouteSteps ==
  \A t \in Threads :
    op[t] = "unroute" /\ pc[t] \in Critical =>
      pc[t] \in {"forget", "unload", "clean", "cleaning", "unlock"}

\* A cleanup has yet to unload whatever still feeds the target, ...
CleanupComplete ==
  \A t \in Threads : pc[t] = "cleaning" => Feeding(target[t]) \subseteq todo[t]

\* ... so when Route loads, nothing does.
RouteLoadsAlone ==
  \A t \in Threads :
    pc[t] = "load" /\ op[t] # "resume" => Feeding(target[t]) = {}

\* What the manager keeps true at every step, whatever fails: the reason why
\* UnrouteSilences, and OneLoopbackPerSink without Resume, hold.
ManagerInv ==
  /\ TypeOK
  /\ Exclusive
  /\ Aimed
  /\ Addressed
  /\ UnrouteSteps
  /\ CleanupComplete
  /\ RouteLoadsAlone
  /\ UnrouteSilences

\* Every call returns, unless the daemon is restarted: opMu is released on
\* every path.
CallsReturn == \A t \in Threads : pc[t] = "lock" ~> pc[t] \in {"done", "idle"}

\* An output sink that is removed comes back, by the tickers' refreshes, unless
\* daemons are restarted for ever or this one is stopping.
OutputRestored ==
  <>[][~Restart]_vars =>
    (Outputs = {} ~> Outputs # {} \/ phase = "stopping")

\* The modules an operation under way holds the index of.
InHand ==
  {module[t] : t \in {u \in Threads : pc[u] \in {"record", "unload", "drop"}}}

\* When no command has failed, cleanup leaves no device playing but those of an
\* operation that went on next to it, which has recorded its loopback since
\* or is about to.  What an earlier daemon left went when Start began.
CleanupSilences ==
  \A t \in Threads :
    pc[t] = "done" /\ op[t] = "cleanup" => Loopbacks \subseteq Recorded \cup InHand

-----------------------------------------------------------------------------
(* What the manager promises *)

\* The operation under way: that of the thread that holds opMu.
UnderWay ==
  [by  |-> opMu,
   op  |-> IF opMu = NoThread THEN "none" ELSE op[opMu],
   dev |-> IF opMu = NoThread THEN NoDevice ELSE dev[opMu],
   aim |-> IF opMu = NoThread THEN NoSink ELSE target[opMu],
   res |-> IF opMu = NoThread THEN "ok" ELSE res[opMu]]

Heard == {s \in Sinks : Feeding(s) # {}}

Told == {t \in Threads : pc[t] = "done" /\ op[t] # "cleanup"}

Play == INSTANCE Playback
          WITH current <- UnderWay, heard <- Heard, returned <- Told

\* The manager does what Playback says, at every step and whatever fails: a
\* sink begins to be heard only in a Route or Resume that has found it for its
\* device, no two operations overlap, and an Unroute that returns without an
\* error leaves its sink silent.
ImplementsPlayback == Play!PlaybackSpec

=============================================================================
