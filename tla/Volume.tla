-------------------------------- MODULE Volume --------------------------------
(***************************************************************************)
(* Volumes and mute states.  The server has them for each sink, the        *)
(* manager copies them with every listing (status.Targets), and the store  *)
(* reports one with each route.  SetVolume and Mute                        *)
(* (src/internal/controller/controller.go) write the server through the    *)
(* manager, then the store; Route and Resume store what the listing said.  *)
(*                                                                         *)
(* Only the Route or Resume that made a listing reads the copies in it, so *)
(* they are kept with its thread.  A volume outside 0..100 is refused      *)
(* before anything is done.  What a listener turns on the receiver itself  *)
(* is left out.                                                            *)
(***************************************************************************)
EXTENDS Controller

CONSTANTS
  Levels,       \* the volumes a client asks for, and a sink may have
  Beginnings    \* what the sinks may be set to when the daemon starts

\* A volume and a mute state.
Settings == [volume : Levels \cup {100}, muted : BOOLEAN]

ASSUME VolumeAssumption ==
  /\ Levels \subseteq 0..100 /\ Levels # {}
  /\ Beginnings \subseteq [Sinks -> Settings]

Plain == [volume |-> 100, muted |-> FALSE]

Unheard == [s \in Sinks |-> Plain]

VARIABLES
  actual,       \* actual[s]: the setting of sink s on the server
  heard,        \* heard[t]: the settings in the listing of thread t
  wish,         \* wish[t]: the volume t's request asks for
  reported      \* reported[d]: the setting in the store's route of d

settingVars == <<actual, heard, wish, reported>>
volumeVars == <<allVars, settingVars>>

VolumeTypeOK ==
  /\ ControllerTypeOK
  /\ actual \in [Sinks -> Settings]
  /\ heard \in [Threads -> [Sinks -> Settings]]
  /\ wish \in [Threads -> Levels \cup {100}]
  /\ reported \in [Devices -> Settings]

VolumeInit ==
  /\ ControllerInit
  /\ actual \in Beginnings
  /\ heard = [t \in Threads |-> Unheard]
  /\ wish = [t \in Threads |-> 100]
  /\ reported = [d \in Devices |-> Plain]

-----------------------------------------------------------------------------
(* The manager *)

\* Defect: the percentage is added to the volume.
AdjustedMutant(t, old) == [old EXCEPT !.volume = @ + wish[t]]

\* The setting a SetVolume or a SetMute of thread t makes of an older one.
\* Clients cannot ask to unmute.
Adjusted(t, old) ==
  IF kind[t] = "volume" THEN [old EXCEPT !.volume = wish[t]]
                        ELSE [old EXCEPT !.muted = TRUE]

\* The listings of a Route or Resume copy the settings of the sinks, SetVolume
\* and SetMute set the target's own.
SettingStep(t) ==
  /\ ManagerStep(t)
  /\ heard' = IF /\ pc[t] \in {"list", "scan", "rescan"}
                /\ op[t] \in {"route", "resume"}
                /\ res'[t] = "ok"
                THEN [heard EXCEPT ![t] = actual] ELSE heard
  /\ actual' = IF pc[t] = "adjust" /\ res'[t] = "ok"
                 THEN [actual EXCEPT ![target'[t]] = Adjusted(t, @)] ELSE actual
  /\ UNCHANGED <<wish, reported>>

-----------------------------------------------------------------------------
(* The requests *)

ReceiveWith(t, k, d) ==
  /\ Receive(t, k, d)
  /\ IF k = "volume"
       THEN \E v \in Levels : wish' = [wish EXCEPT ![t] = v]
       ELSE UNCHANGED wish
  /\ UNCHANGED <<actual, heard, reported>>

\* Controller.Route stores 100 for a volume of 0.
AtLeast(setting) ==
  IF setting.volume = 0 THEN [setting EXCEPT !.volume = 100] ELSE setting

\* Resume makes a route if there is none, and keeps the setting of the one
\* there is.
AfterResume(t, d) == IF d \in Reported THEN reported[d] ELSE heard[t][target[t]]

\* Defect: the setting is stored whether the manager could set it or not.
AfterSettingMutant(t, d) == Adjusted(t, reported[d])

\* UpdateRoute sets it in the route, if there is one and the manager has set it.
AfterSetting(t, d) ==
  IF Succeeds(t) /\ d \in Reported THEN Adjusted(t, reported[d]) ELSE reported[d]

\* The setting the store reports for d once t's request is answered.
Stored(t, d) ==
  CASE kind[t] \in {"set", "add"} /\ Succeeds(t) -> AtLeast(heard[t][target[t]])
    [] kind[t] = "resume" /\ Succeeds(t) -> AfterResume(t, d)
    [] kind[t] \in SettingRequests -> AfterSetting(t, d)
    [] OTHER -> reported[d]

\* The setting is written, or goes, in the same section of the store as the
\* route; the locals of the request go with its answer.
StoreStep(t) ==
  /\ RequestStep(t)
  /\ IF cpc[t] = "calling" /\ cpc'[t] = "idle"
       THEN /\ reported' = [d \in Devices |->
                              IF routes'[d] = NoRoute THEN Plain
                              ELSE IF d = about[t] THEN Stored(t, d)
                              ELSE reported[d]]
            /\ heard' = [heard EXCEPT ![t] = Unheard]
            /\ wish' = [wish EXCEPT ![t] = 100]
       ELSE /\ reported' = [d \in Devices |->
                              IF routes'[d] = NoRoute THEN Plain ELSE reported[d]]
            /\ UNCHANGED <<heard, wish>>
  /\ UNCHANGED actual

VolumeNext ==
  \/ \E t \in Threads :
       \/ \E request \in Requests[t] : ReceiveWith(t, request[1], request[2])
       \/ SettingStep(t)
       \/ StoreStep(t)
  \/ ServerActs /\ UNCHANGED <<controllerVars, settingVars>>

VolumeSpec == VolumeInit /\ [][VolumeNext]_volumeVars

FairVolumeSpec == VolumeSpec /\ HandlerFairness /\ SyncFairness

-----------------------------------------------------------------------------
(* Properties *)

\* A route is reported with the volume and the mute state its sink really has,
\* through any sequence of requests of one client and any failure in them,
\* also after a volume was set while the device had no route.  A volume of 0
\* may be reported as 100: Route takes 0 for "not known".
VolumesAgree ==
  \A d \in Reported :
    ~Touched(d) =>
      LET s == routes[d].sink IN
        \/ reported[d] = actual[s]
        \/ actual[s].volume = 0 /\ reported[d] = AtLeast(actual[s])

=============================================================================
