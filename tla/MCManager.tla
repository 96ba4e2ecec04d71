----------------------------- MODULE MCManager -----------------------------
(***************************************************************************)
(* Instances of PulseManager for TLC.  Two devices and two sinks are       *)
(* enough for a sink shared by two devices, a device that moves between    *)
(* sinks, and a sink whose name is a prefix of another's.                  *)
(***************************************************************************)
EXTENDS PulseManager, TLC

CONSTANTS d1, d2, s1, s2

Symmetric == Permutations(Threads) \cup Permutations(Ids)

-----------------------------------------------------------------------------
(* Names and ranks *)

\* Every device has a sink of its own, and no name is a prefix of another.
OwnMatch == d1 :> {s1} @@ d2 :> {s2}
OwnExtensions == s1 :> {s1} @@ s2 :> {s2}
OwnRank == s1 :> 1 @@ s2 :> 2

\* d1 has two sinks and shares one with d2; s1's name begins s2's; the sinks
\* have the same description.
SharedMatch == d1 :> {s1, s2} @@ d2 :> {s2}
SharedExtensions == s1 :> {s1, s2} @@ s2 :> {s2}
SharedRank == s1 :> 1 @@ s2 :> 1

\* One device and its sink.
OneMatch == d1 :> {s1}
OneExtensions == s1 :> {s1}
OneRank == s1 :> 1

-----------------------------------------------------------------------------
(* What an earlier daemon left behind *)

Nothing == {[i \in Ids |-> Free]}

\* Several output sinks, or several loopbacks for a sink.
Untidy == [Ids -> ModuleKinds \ {Foreign}]

-----------------------------------------------------------------------------
(* What may happen *)

AllFaults == FaultKinds
NoFaults == {}
Crashes == {"crash"}
Nobody == {}
NoVanish == {"sink", "foreign"}
Vanish == {"vanish"}
VanishForeign == {"vanish", "foreign"}

OnDevices == DeviceOps
Routing == {"refresh", "route", "unroute"}
Starting == {"start", "refresh", "route", "cleanup"}
=============================================================================
