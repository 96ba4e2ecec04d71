------------------------------- MODULE Reports -------------------------------
(***************************************************************************)
(* Volume with a history variable: of which devices an Unroute or Pause    *)
(* has failed since they were last routed, resumed, unrouted or paused.    *)
(* Both forget the manager's record first (PulseManager's Forget), and a   *)
(* request that fails leaves the store as it is (AnswerOnly), so that the  *)
(* list of routes then names a loopback the manager no longer knows.  With *)
(* the history it can be said that this is the only way the two disagree.  *)
(***************************************************************************)
EXTENDS Volume

VARIABLE
  doubtful      \* the devices in the list whose last Unroute or Pause failed

reportVars == <<volumeVars, doubtful>>

\* Thread t's request of one of the kinds about d is answered.
Answered(t, d, kinds) ==
  /\ cpc[t] = "calling" /\ cpc'[t] = "idle"
  /\ about[t] = d
  /\ kind[t] \in kinds

\* A request to silence d fails.
FailsToSilence(d) ==
  \E t \in Threads : Answered(t, d, {"unroute", "pause"}) /\ ~Succeeds(t)

\* A request about d succeeds that writes the route.
Settles(d) ==
  \E t \in Threads :
    Answered(t, d, {"set", "add", "pause", "resume"}) /\ Succeeds(t)

ReportsInit == VolumeInit /\ doubtful = {}

Remember ==
  doubtful' = {d \in Reported' : FailsToSilence(d) \/ (d \in doubtful /\ ~Settles(d))}

ReportsNext == VolumeNext /\ Remember

ReportsSpec == ReportsInit /\ [][ReportsNext]_reportVars

-----------------------------------------------------------------------------
(* Properties *)

\* A route in the list names the loopback the manager has recorded, and none if
\* it is paused, through every request of one client and every failure.  The
\* one exception is a device whose Unroute or Pause has failed: the manager may
\* have forgotten the loopback then, but never has another one.
ReportedIsRecorded ==
  \A d \in Reported :
    ~Touched(d) =>
      \/ routeModules[d] = routes[d].module
      \/ d \in doubtful /\ routeModules[d] = NoModule

=============================================================================
