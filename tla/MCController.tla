---------------------------- MODULE MCController ----------------------------
(***************************************************************************)
(* Instances of Controller for TLC: two devices with a sink each, and a    *)
(* thread for each client and for syncPipeWire, whose requests are listed. *)
(***************************************************************************)
EXTENDS Controller, TLC

CONSTANTS d1, d2, s1, s2, c1, c2, sync

SymmetricIds == Permutations(Ids)

OwnMatch == d1 :> {s1} @@ d2 :> {s2}
OwnExtensions == s1 :> {s1} @@ s2 :> {s2}
OwnRank == s1 :> 1 @@ s2 :> 2

Nothing == {[i \in Ids |-> Free]}

AllFaults == FaultKinds
NoFaults == {}
SinksCome == {"sink"}
Nobody == {}
ManagerOps == DeviceOps \cup {"refresh"}

-----------------------------------------------------------------------------
(* Who asks for what *)

Sync == {<<"status", NoDevice>>}

\* One client at a time, next to syncPipeWire.  It turns the volume of one
\* device and mutes the other.
OneClient ==
  c1 :> (((DeviceRequests \ SettingRequests) \X Devices)
           \cup {<<"volume", d1>>, <<"mute", d2>>}) @@
  sync :> Sync

\* A client that asks for the status while it changes the route.
Watching ==
  c1 :> (({"set"} \X Devices) \cup Sync \cup {<<"tick", NoDevice>>}) @@
  sync :> Sync

\* Two clients that each want the one route.
TwoSets ==
  c1 :> {<<"set", d1>>} @@ c2 :> {<<"set", d2>>} @@ sync :> Sync
=============================================================================
