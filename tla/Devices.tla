------------------------------ MODULE Devices ------------------------------
(***************************************************************************)
(* The list of devices: src/internal/discovery/service.go, which hears of  *)
(* AirPlay receivers, and the device part of src/internal/state/store.go,  *)
(* which merges what it hears into one entry per receiver.                 *)
(*                                                                         *)
(* A receiver announces two services, and the two announcements give it    *)
(* two IDs: a MAC address with colons ("airplay") and without ("raop").    *)
(* Each service has a browser of its own, which asks for it once and then  *)
(* listens, so announcements of different services are handled in any      *)
(* order.  When a receiver gets a new network address it announces both    *)
(* services again.                                                         *)
(*                                                                         *)
(* A browser that cannot start ends Run, and clients are told that nothing *)
(* is discovered any more; the other browser goes on.  What happens when   *)
(* the daemon stops is in the module Daemon.                               *)
(*                                                                         *)
(* Of a device its ID, address, name and protocols are kept; which devices *)
(* have a PipeWire sink is part of Controller.  Every announcement has an  *)
(* address.                                                                *)
(***************************************************************************)
EXTENDS Integers, FiniteSets, SequencesExt

CONSTANTS
  Receivers,
  Addresses,
  Own,          \* Own[p]: the addresses receiver p may get
  Ids,
  IdOf,         \* IdOf[p][s]: the ID normalizeDeviceID makes of p's service s
  Weight,       \* Weight[i]: the more colons in i, and the shorter, the more
  Saved,        \* device lists that the state file may hold
  MaxQueue,     \* bound on the announcements of a service on their way
  NoDevice

Services == {"airplay", "raop"}

Device == [id : Ids, address : Addresses, name : Receivers,
           protocols : SUBSET Services]

ASSUME DevicesAssumption ==
  /\ Own \in [Receivers -> SUBSET Addresses]
  /\ IdOf \in [Receivers -> [Services -> Ids]]
  /\ Weight \in [Ids -> Nat]
  /\ Saved \subseteq [Ids -> Device \cup {NoDevice}]
  /\ NoDevice \notin Device
  /\ MaxQueue \in Nat

VARIABLES
  address,      \* the present address of each receiver
  heard,        \* heard[p][s]: the announcements on their way to browser s
  devices,      \* devices[i]: the device under ID i, or NoDevice
  browser,      \* how far the browser of each service is
  live          \* discoveryLive, which the status shows

browsers == <<browser, live>>
vars == <<address, heard, devices, browsers>>

\* Every device is stored under its own ID.
DevicesTypeOK ==
  /\ address \in [Receivers -> Addresses]
  /\ heard \in [Receivers -> [Services -> Seq(Addresses)]]
  /\ devices \in [Ids -> Device \cup {NoDevice}]
  /\ \A i \in Ids : devices[i] # NoDevice => devices[i].id = i
  /\ browser \in [Services -> {"new", "starting", "open", "failed"}]
  /\ live \in BOOLEAN

-----------------------------------------------------------------------------
(* Merging *)

Present(devs) == {i \in Ids : devs[i] # NoDevice}

At(devs, a) == {i \in Present(devs) : devs[i].address = a}

\* Defect: a device keeps its first address.
MergeMutant(existing, incoming) ==
  [existing EXCEPT !.name = incoming.name,
                   !.protocols = @ \cup incoming.protocols]

\* mergeDevice: what is heard last counts, protocols add up.
Merge(existing, incoming) ==
  [existing EXCEPT !.name = incoming.name,
                   !.address = incoming.address,
                   !.protocols = @ \cup incoming.protocols]

\* Defect: the ID that was met first stays.
PreferredIDMutant(left, right) == left

\* preferredDeviceID
PreferredID(left, right) == IF Weight[right] > Weight[left] THEN right ELSE left

\* The IDs of S that preferredDeviceID prefers to none of the others.
Preferred(S) == {i \in S : \A j \in S : PreferredID(i, j) = i}

\* Defect: the joined device keeps the ID of the last one.
JointMutant(devs, S, k, last) ==
  [key |-> k,
   device |-> [devs[last] EXCEPT !.protocols = UNION {devs[i].protocols : i \in S}]]

\* What the devices under the IDs of S become, with k the preferred one that the
\* loop meets first and last the one that it meets last.
Joint(devs, S, k, last) ==
  [key |-> k,
   device |-> [devs[last] EXCEPT !.id = k,
                                 !.protocols = UNION {devs[i].protocols : i \in S}]]

\* What the devices of address a may become in an iteration over the map, which
\* meets them in any order.  One that is met last is not the first of several.
Joined(devs, a) ==
  LET S == At(devs, a) IN
  UNION {{Joint(devs, S, k, last) : last \in {i \in S : i # k \/ Preferred(S) = {k}}} :
           k \in Preferred(S)}

\* The list with the devices of S under their keys.
Stored(S) ==
  [i \in Ids |-> IF \E d \in S : d.key = i THEN (CHOOSE d \in S : d.key = i).device
                 ELSE NoDevice]

\* Defect: devices of one address stay apart.
NormalizedMutant(devs) == {devs}

\* normalizeDevicesLocked: the lists with one device for each address.
Normalized(devs) ==
  LET used == {devs[i].address : i \in Present(devs)}
      any == UNION {Joined(devs, a) : a \in used}
  IN  {Stored({pick[a] : a \in used}) :
         pick \in {f \in [used -> any] : \A a \in used : f[a].device.address = a}}

-----------------------------------------------------------------------------
(* The steps *)

\* The daemon loads the list an earlier one saved.
Init ==
  /\ address \in {f \in [Receivers -> Addresses] : \A p \in Receivers : f[p] \in Own[p]}
  /\ heard = [p \in Receivers |-> [s \in Services |-> <<>>]]
  /\ \E list \in Saved : devices \in Normalized(list)
  /\ browser = [s \in Services |-> "new"]
  /\ live = FALSE

\* Run starts both browsers.
Run ==
  /\ \A s \in Services : browser[s] = "new"
  /\ browser' = [s \in Services |-> "starting"]
  /\ live' = TRUE
  /\ UNCHANGED <<address, heard, devices>>

\* A browser asks for its service, and every receiver answers.
Open(s) ==
  /\ browser[s] = "starting"
  /\ browser' = [browser EXCEPT ![s] = "open"]
  /\ heard' = [p \in Receivers |-> [heard[p] EXCEPT ![s] = Append(@, address[p])]]
  /\ UNCHANGED <<address, devices, live>>

\* It cannot: there is no resolver, or no network to ask in.
OpenFails(s) ==
  /\ browser[s] = "starting"
  /\ browser' = [browser EXCEPT ![s] = "failed"]
  /\ UNCHANGED <<address, heard, devices, live>>

\* Run gets the error of one browser and returns.
GiveUp ==
  /\ \E s \in Services : browser[s] = "failed"
  /\ live /\ live' = FALSE
  /\ UNCHANGED <<address, heard, devices, browser>>

\* A receiver gets an address, or the one it has again, and announces itself to
\* the browsers that listen.
Announce(p, a) ==
  /\ a \in Own[p]
  /\ \A s \in Services : Len(heard[p][s]) < MaxQueue
  /\ address' = [address EXCEPT ![p] = a]
  /\ heard' = [heard EXCEPT ![p] =
                 [s \in Services |-> IF browser[s] = "open" THEN Append(@[s], a) ELSE @[s]]]
  /\ UNCHANGED <<devices, browsers>>

\* The device normalizeEntry makes of an announcement.
Entry(p, s, a) ==
  [id |-> IdOf[p][s], address |-> a, name |-> p, protocols |-> {s}]

\* UpsertDevice up to normalizeDevicesLocked: the device goes to the entry with
\* its ID, else to one with its address, else to a new one.
Upserted(d) ==
  LET known == IF d.id \in Present(devices) THEN {d.id} ELSE At(devices, d.address)
  IN  IF known = {} THEN {[devices EXCEPT ![d.id] = d]}
      ELSE {[devices EXCEPT ![i] = Merge(@, d)] : i \in known}

\* A browser takes its next announcement and calls UpsertDevice.
Browse(p, s) ==
  /\ heard[p][s] # <<>>
  /\ \E list \in Upserted(Entry(p, s, Head(heard[p][s]))) :
       devices' \in Normalized(list)
  /\ heard' = [heard EXCEPT ![p][s] = Tail(@)]
  /\ UNCHANGED <<address, browsers>>

Next ==
  \/ Run \/ GiveUp
  \/ \E s \in Services : Open(s) \/ OpenFails(s)
  \/ \E p \in Receivers :
       \/ \E a \in Addresses : Announce(p, a)
       \/ \E s \in Services : Browse(p, s)

Spec == Init /\ [][Next]_vars

-----------------------------------------------------------------------------
(* The loop of normalizeDevicesLocked, as it is written *)

\* Defect: the joined device keeps the ID of the first one.
JoinMutant(devs, one, i) ==
  [key |-> PreferredID(one.key, i), device |-> Merge(one.device, devs[i])]

\* The device under i is joined to the one that stands for its address.
Join(devs, one, i) ==
  LET key == PreferredID(one.key, i) IN
  [key |-> key, device |-> [Merge(one.device, devs[i]) EXCEPT !.id = key]]

\* The device that stands for the address at each turn, when they are met in order.
Turns(devs, order) ==
  LET one[n \in 1..Len(order)] ==
        IF n = 1 THEN [key |-> order[1], device |-> devs[order[1]]]
        ELSE Join(devs, one[n - 1], order[n])
  IN  one

\* What the devices of address a become, in each order.  A device put back under
\* way may be met again, and is then joined with itself.
InTurn(devs, a) ==
  {Turns(devs, order)[Len(order)] : order \in SetToSeqs(At(devs, a))}

\* The lists whose devices all have address a.
Crowded(a) ==
  {[i \in Ids |-> IF given[i] = NoDevice THEN NoDevice
                  ELSE [id |-> i, address |-> a,
                        name |-> given[i].name, protocols |-> given[i].protocols]] :
     given \in [Ids -> {NoDevice} \cup
                         [name : Receivers, protocols : SUBSET Services \ {{}}]]}

-----------------------------------------------------------------------------
(* Properties *)

\* Once a store operation is over no two devices have the same address, although
\* a merge may move a device to the address of another.
OnePerAddress ==
  \A i, j \in Present(devices) : devices[i].address = devices[j].address => i = j

\* Joined, which the steps and the proofs use, is what the loop over the devices
\* does with any list that the daemon may load before it starts to listen: each
\* outcome comes of an order, and each order has one of the outcomes.
JoinsInTurn ==
  (\A s \in Services : browser[s] = "new") =>
    \A a \in Addresses : \A list \in Crowded(a) :
      Present(list) # {} => Joined(list, a) = InTurn(list, a)

\* When both browsers listen, and all that a receiver announced has been handled,
\* in any order of the two services, it is listed once: one device has its name,
\* with its address and both services, whichever of its IDs and old addresses
\* were listed before, and whatever it announced before a browser listened.
ListedOnce ==
  (\A s \in Services : browser[s] = "open") =>
    \A p \in Receivers :
      (\A s \in Services : heard[p][s] = <<>>) =>
        \E i \in Present(devices) :
          /\ devices[i].address = address[p]
          /\ devices[i].protocols = Services
          /\ {j \in Present(devices) : devices[j].name = p} = {i}

\* The ID that groups and routes had better name stays: once a receiver is
\* listed under its preferred ID, no merge drops that ID.
PreferredIDStays ==
  [][\A i \in Present(devices) :
       (\A j \in Ids : Weight[j] <= Weight[i]) => i \in Present(devices')]_vars

=============================================================================
