----------------------------- MODULE PulseServer -----------------------------
(***************************************************************************)
(* The PipeWire server as the daemon sees it through the pactl command     *)
(* (runPactl, src/internal/pipewire/manager.go): the RAOP sinks that exist *)
(* and the table of loaded modules.  The server is not part of the         *)
(* repository; what it does is modelled from the calls the daemon makes.   *)
(*                                                                         *)
(* A module index is any index not in use: an index freed by an unload may *)
(* be given to the next module that is loaded, by the daemon or by another *)
(* application.                                                            *)
(***************************************************************************)
EXTENDS Integers

CONSTANTS
  Sinks,        \* names of raop_sink.* sinks
  Ids,          \* module indexes the server hands out
  Free,         \* no module has this index
  Output,       \* the null sink module of tuxplay_output
  Foreign,      \* a module of another application, and no TuxPlay loopback
  Leftover,     \* module tables an earlier daemon may have left behind
  Faults,       \* what may fail: kinds of pactl call, or the daemon itself
  Env           \* what the server and other applications do on their own

\* What the table says of an index.  A sink stands for a TuxPlay loopback,
\* a module-loopback from tuxplay_output.monitor into that sink.  One that a
\* user loads is the same to isTuxPlayLoopback, and is unloaded as stale; no
\* one but the daemon loads any here.
ModuleKinds == Sinks \cup {Free, Output, Foreign}

FaultKinds == {"list", "load", "lost", "unload", "adjust", "crash"}
EnvKinds == {"sink", "vanish", "foreign"}

ASSUME ServerAssumption ==
  /\ Free # Output /\ Free # Foreign /\ Output # Foreign
  /\ {Free, Output, Foreign} \cap Sinks = {}
  /\ Leftover \subseteq [Ids -> ModuleKinds]
  /\ Faults \subseteq FaultKinds
  /\ Env \subseteq EnvKinds

VARIABLES
  sinks,        \* the RAOP sinks that exist now
  modules       \* modules[i]: what is loaded under index i

serverVars == <<sinks, modules>>

ServerTypeOK ==
  /\ sinks \subseteq Sinks
  /\ modules \in [Ids -> ModuleKinds]

ServerInit ==
  /\ sinks \in SUBSET Sinks
  /\ modules \in Leftover

-----------------------------------------------------------------------------
(* What the listings show *)

Outputs == {i \in Ids : modules[i] = Output}

\* Defect: any module is taken for a TuxPlay loopback.
LoopbacksMutant == {i \in Ids : modules[i] \in Sinks \cup {Foreign}}

\* The modules isTuxPlayLoopback accepts.
Loopbacks == {i \in Ids : modules[i] \in Sinks}

Feeding(s) == {i \in Ids : modules[i] = s}

-----------------------------------------------------------------------------
(* pactl load-module and unload-module *)

LoadModule(i, what) ==
  /\ modules[i] = Free
  /\ modules' = [modules EXCEPT ![i] = what]

UnloadModule(i) ==
  /\ modules[i] # Free
  /\ modules' = [modules EXCEPT ![i] = Free]

\* "No such entity" for an index that is not in use, or any other failure.
UnloadModuleFails(i) ==
  /\ modules[i] = Free \/ "unload" \in Faults
  /\ UNCHANGED modules

-----------------------------------------------------------------------------
(* What happens on the server without the daemon *)

\* An AirPlay receiver comes into or leaves the network.
SinkAppears(s) ==
  /\ "sink" \in Env
  /\ s \notin sinks
  /\ sinks' = sinks \cup {s}
  /\ UNCHANGED modules

SinkDisappears(s) ==
  /\ "sink" \in Env
  /\ s \in sinks
  /\ sinks' = sinks \ {s}
  /\ UNCHANGED modules

\* A module goes away: the server restarts, tears a stream down, or someone
\* unloads it.
ModuleVanishes(i) ==
  /\ "vanish" \in Env
  /\ UnloadModule(i)
  /\ UNCHANGED sinks

\* Another application loads a module that isTuxPlayLoopback does not accept.
ForeignLoads(i) ==
  /\ "foreign" \in Env
  /\ LoadModule(i, Foreign)
  /\ UNCHANGED sinks

ServerStep ==
  \/ \E s \in Sinks : SinkAppears(s) \/ SinkDisappears(s)
  \/ \E i \in Ids : ModuleVanishes(i) \/ ForeignLoads(i)

=============================================================================
