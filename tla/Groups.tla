------------------------------- MODULE Groups -------------------------------
(***************************************************************************)
(* Groups of devices: src/internal/group/service.go and the group part of  *)
(* src/internal/state/store.go.                                            *)
(*                                                                         *)
(* The list of a group is a Go slice, an array and a length, and a client  *)
(* that plays the group copies the slice under the store's lock and reads  *)
(* the array after unlocking it.  Arrays are therefore part of the state   *)
(* here: which requests write into an array that another one still reads?  *)
(*                                                                         *)
(* Every device named in a request is known to the store and stays known.  *)
(* The controller's Route is a step that may fail.                         *)
(***************************************************************************)
EXTENDS Integers, FiniteSets, SequencesExt, Removal

CONSTANTS
  Threads, Names, Devices,
  Arrays,       \* enough that one is always free
  Requests,     \* the requests a client may make
  Saved,        \* the slices a group may have in the state file
  NoThread, NoGroup, NoRequest, Blank,
  Garbled       \* a string put together from two others

Kinds == {"create", "add", "remove", "play"}

ASSUME GroupsAssumption ==
  /\ \A r \in Requests :
       /\ r.kind \in Kinds /\ r.name \in Names
       /\ r.kind = "create" => r.list \in Seq(Devices)
       /\ r.kind \in {"add", "remove"} => r.device \in Devices
  /\ \A s \in Saved :
       /\ s.array \in Seq(Devices \cup {Blank})
       /\ s.len \in Nat
       /\ \A i \in 1..s.len : i \in DOMAIN s.array /\ s.array[i] \in Devices
  /\ NoGroup \notin [arr : Arrays, len : Nat] \cup Saved \cup Seq(Devices)
  /\ \A set \in {Names, Threads, Arrays} : IsFiniteSet(set)
  /\ Cardinality(Names) + Cardinality(Threads) < Cardinality(Arrays)
  /\ NoThread \notin Threads /\ NoRequest \notin Requests
  /\ {Blank, Garbled} \cap Devices = {}

VARIABLES
  cells,        \* cells[a]: the array a, with Blank in the cells not in use
  groups,       \* groups[n]: the slice of group n
  mu,           \* the request that holds the store's lock over several steps
  pc, request,  \* next step of each request, and what it asks for
  slice,        \* the slice a request works on
  next, kept,   \* its place in the slice, and the cells Remove has kept
  device,       \* the device Play has read
  routed,       \* the devices Play has routed
  atStart,      \* history: the members when Play read the group
  stayed        \* history: those that have been members ever since

store == <<cells, groups, mu>>
history == <<atStart, stayed>>
locals == <<slice, next, kept, device, routed>>
vars == <<store, pc, request, locals, history>>

Slice == [arr : Arrays, len : Nat]
NoSlice == [arr |-> CHOOSE a \in Arrays : TRUE, len |-> 0]

\* The cells that slice s reaches are there and in use.
Holds(s) ==
  \A i \in 1..s.len : i \in DOMAIN cells[s.arr] /\ cells[s.arr][i] \in Devices

\* Groups and requests reach devices only.
TypeOK ==
  /\ cells \in [Arrays -> Seq(Devices \cup {Blank})]
  /\ groups \in [Names -> Slice \cup {NoGroup}]
  /\ \A n \in Names : groups[n] # NoGroup => Holds(groups[n])
  /\ mu \in Threads \cup {NoThread}
  /\ pc \in [Threads -> 
            {"idle", "apply", "filter", "read", "route", "played"}]
  /\ request \in [Threads -> Requests \cup {NoRequest}]
  /\ slice \in [Threads -> Slice]
  /\ \A t \in Threads : Holds(slice[t])
  /\ next \in [Threads -> Nat \ {0}]
  /\ kept \in [Threads -> Nat]
  /\ device \in [Threads -> Devices \cup {Garbled, Blank}]
  /\ routed \in [Threads -> SUBSET Devices]
  /\ atStart \in [Threads -> SUBSET Devices]
  /\ stayed \in [Threads -> SUBSET Devices]

\* The groups are those of the state file, each in an array of its own.
Init ==
  /\ \E own \in {f \in [Names -> Arrays] : IsInjective(f)},
        loaded \in [Names -> Saved \cup {NoGroup}] :
       /\ groups = [n \in Names |->
            IF loaded[n] = NoGroup THEN NoGroup
            ELSE [arr |-> own[n], len |-> loaded[n].len]]
       /\ cells = [a \in Arrays |->
            IF \E n \in Names : own[n] = a /\ loaded[n] # NoGroup
              THEN loaded[CHOOSE n \in Names : own[n] = a].array
              ELSE <<>>]
  /\ mu = NoThread
  /\ pc = [t \in Threads |-> "idle"]
  /\ request = [t \in Threads |-> NoRequest]
  /\ slice = [t \in Threads |-> NoSlice]
  /\ next = [t \in Threads |-> 1]
  /\ kept = [t \in Threads |-> 0]
  /\ device = [t \in Threads |-> Blank]
  /\ routed = [t \in Threads |-> {}]
  /\ atStart = [t \in Threads |-> {}]
  /\ stayed = [t \in Threads |-> {}]

-----------------------------------------------------------------------------
(* Slices *)

Contents(s) == SubSeq(cells[s.arr], 1, s.len)

\* The arrays that a group or a request can still reach.
Reachable ==
  {groups[n].arr : n \in {m \in Names : groups[m] # NoGroup}}
    \cup {slice[t].arr : t \in {u \in Threads : slice[u].len > 0}}

\* make: an array of no one.
Fresh == CHOOSE a \in Arrays : a \notin Reachable

\* The arrays are those of cs, but for the ones no one reaches any more.
Collected(cs) ==
  cells' = [a \in Arrays |-> IF a \in Reachable' THEN cs[a] ELSE <<>>]

\* groups[n] is the first len cells of array a, which holds list.
Save(n, a, len, list) ==
  /\ groups' = [groups EXCEPT ![n] = [arr |-> a, len |-> len]]
  /\ Collected([cells EXCEPT ![a] = list])

\* Whether Add appends d to the list of n.
Adds(n, d) == ~Contains(Contents(groups[n]), d)

\* groups[n] = append(s, d): in place while the array has a cell to spare,
\* otherwise in a new array of twice the length.
AppendTo(n, s, d) ==
  LET a == IF s.len < Len(cells[s.arr]) THEN s.arr ELSE Fresh
      array == IF a = s.arr THEN cells[a]
               ELSE Contents(s) \o [i \in DOMAIN Contents(s) |-> Blank]
  IN  Save(n, a, s.len + 1,
           IF array = <<>> THEN <<d>> ELSE [array EXCEPT ![s.len + 1] = d])

-----------------------------------------------------------------------------
(* Requests that change a group *)

Goto(t, label) == pc' = [pc EXCEPT ![t] = label]

\* The answer is sent, and the request's variables are gone.
Answer(t) ==
  /\ Goto(t, "idle")
  /\ request' = [request EXCEPT ![t] = NoRequest]
  /\ slice' = [slice EXCEPT ![t] = NoSlice]
  /\ next' = [next EXCEPT ![t] = 1]
  /\ kept' = [kept EXCEPT ![t] = 0]
  /\ device' = [device EXCEPT ![t] = Blank]
  /\ routed' = [routed EXCEPT ![t] = {}]
  /\ atStart' = [atStart EXCEPT ![t] = {}]

\* A request of thread t for group n, when the store's lock is free.
Starts(t, kind, n) ==
  /\ pc[t] = "apply"
  /\ request[t].kind = kind /\ request[t].name = n
  /\ mu = NoThread

\* Those who play n have seen only the members in left stay.
OnlyStay(n, left) ==
  stayed' = [t \in Threads |->
    IF pc[t] \in {"read", "route", "played"} /\ request[t].name = n
      THEN stayed[t] \cap left ELSE stayed[t]]

Ask(t, r) ==
  /\ pc[t] = "idle"
  /\ Goto(t, "apply")
  /\ request' = [request EXCEPT ![t] = r]
  /\ UNCHANGED <<store, locals, history>>

\* UpsertGroup: a clone of the request's list.
Create(t, n) ==
  /\ Starts(t, "create", n)
  /\ Answer(t)
  /\ LET list == request[t].list IN
       /\ Save(n, Fresh, Len(list), list)
       /\ OnlyStay(n, ToSet(list))
  /\ UNCHANGED mu

\* AddGroupDevice, RemoveGroupDevice and Play of an unknown group.
NotFound(t, n) ==
  /\ \E kind \in Kinds \ {"create"} : Starts(t, kind, n)
  /\ groups[n] = NoGroup
  /\ Answer(t)
  /\ UNCHANGED <<store, stayed>>

\* AddGroupDevice.
Add(t, n) ==
  /\ Starts(t, "add", n)
  /\ groups[n] # NoGroup
  /\ Answer(t)
  /\ LET d == request[t].device IN
       \/ Adds(n, d) /\ AppendTo(n, groups[n], d)
       \/ ~Adds(n, d) /\ UNCHANGED <<cells, groups>>
  /\ UNCHANGED <<mu, stayed>>

\* RemoveGroupDevice takes the lock, ...
StartRemove(t, n) ==
  /\ Starts(t, "remove", n)
  /\ groups[n] # NoGroup
  /\ mu' = t
  /\ slice' = [slice EXCEPT ![t] = groups[n]]
  /\ OnlyStay(n, ToSet(Contents(groups[n])) \ {request[t].device})
  /\ Goto(t, "filter")
  /\ UNCHANGED <<cells, groups, request, next, kept, device, routed, atStart>>

\* ... moves the devices that stay to the front of the same array, ...
Filter(t) ==
  LET a == slice[t].arr
      d == cells[a][next[t]]
  IN  /\ pc[t] = "filter"
      /\ next[t] <= slice[t].len
      /\ next' = [next EXCEPT ![t] = @ + 1]
      /\ \/ /\ d # request[t].device
            /\ cells' = [cells EXCEPT ![a][kept[t] + 1] = d]
            /\ kept' = [kept EXCEPT ![t] = @ + 1]
         \/ d = request[t].device /\ UNCHANGED <<cells, kept>>
      /\ UNCHANGED <<groups, mu, pc, request, slice, device, routed, history>>

\* Defect: one device too few.
FilteredMutant(t) == SubSeq(Contents(slice[t]), 1, kept[t] - 1)

\* Defect: the list keeps its length, with the cells left over cleared.
ClearedMutant(t) ==
  [i \in 1..slice[t].len |-> IF i <= kept[t] THEN cells[slice[t].arr][i] ELSE Blank]

Filtered(t) == SubSeq(Contents(slice[t]), 1, kept[t])

\* ... and saves a clone of them.
EndRemove(t) ==
  /\ pc[t] = "filter"
  /\ next[t] > slice[t].len
  /\ Answer(t)
  /\ Save(request[t].name, Fresh, Len(Filtered(t)), Filtered(t))
  /\ mu' = NoThread
  /\ UNCHANGED stayed

-----------------------------------------------------------------------------
(* Play *)

\* GetGroup.
StartPlay(t, n) ==
  /\ Starts(t, "play", n)
  /\ groups[n] # NoGroup
  /\ slice' = [slice EXCEPT ![t] = groups[n]]
  /\ LET members == ToSet(Contents(groups[n])) IN
       /\ atStart' = [atStart EXCEPT ![t] = members]
       /\ stayed' = [stayed EXCEPT ![t] = members]
  /\ Goto(t, "read")
  /\ UNCHANGED <<store, request, next, kept, device, routed>>

\* A Remove is about to write another device into cell i of array a.  A string
\* is two words, so one who reads the cell meanwhile may get one word of each.
Torn(a, i) ==
  \E t \in Threads :
    /\ pc[t] = "filter" /\ slice[t].arr = a
    /\ kept[t] + 1 = i
    /\ next[t] <= slice[t].len
    /\ cells[a][next[t]] \notin {request[t].device, cells[a][i]}

\* Defect: the loop stops before the last member.
LeftMutant(t) == next[t] < slice[t].len

\* Play has members left to route.
Left(t) == next[t] <= slice[t].len

\* The next turn of Play's loop reads a cell, with no lock held.
Read(t) ==
  LET a == slice[t].arr IN
  /\ pc[t] = "read"
  /\ Left(t)
  /\ \E d \in {cells[a][next[t]]} \cup (IF Torn(a, next[t]) THEN {Garbled} ELSE {}) :
       device' = [device EXCEPT ![t] = d]
  /\ Goto(t, "route")
  /\ UNCHANGED <<store, request, slice, next, kept, routed, history>>

\* ResolveDevice waits for the lock; then controller.Route with add.
RouteMember(t) ==
  /\ pc[t] = "route"
  /\ mu = NoThread
  /\ device[t] \in Devices
  /\ routed' = [routed EXCEPT ![t] = @ \cup {device[t]}]
  /\ next' = [next EXCEPT ![t] = @ + 1]
  /\ Goto(t, "read")
  /\ UNCHANGED <<store, request, slice, kept, device, history>>

\* ResolveDevice or Route fails.  The members already routed stay routed.
RouteFails(t) ==
  /\ pc[t] = "route"
  /\ mu = NoThread
  /\ Answer(t)
  /\ UNCHANGED <<groups, mu>>
  /\ Collected(cells)
  /\ stayed' = [stayed EXCEPT ![t] = {}]

EndPlay(t) ==
  /\ pc[t] = "read"
  /\ ~Left(t)
  /\ Goto(t, "played")
  /\ UNCHANGED <<store, request, locals, history>>

\* Play returns no error.
Played(t) ==
  /\ pc[t] = "played"
  /\ Answer(t)
  /\ UNCHANGED <<groups, mu>>
  /\ Collected(cells)
  /\ stayed' = [stayed EXCEPT ![t] = {}]

Step(t) ==
  \/ \E n \in Names :
       \/ Create(t, n) \/ NotFound(t, n) \/ Add(t, n)
       \/ StartRemove(t, n) \/ StartPlay(t, n)
  \/ Filter(t) \/ EndRemove(t)
  \/ Read(t) \/ RouteMember(t) \/ RouteFails(t) \/ EndPlay(t) \/ Played(t)

Next == \E t \in Threads : (\E r \in Requests : Ask(t, r)) \/ Step(t)

Spec == Init /\ [][Next]_vars

-----------------------------------------------------------------------------
(* Properties *)

\* The list of group n as clients may see it: Remove takes effect when it gets
\* the lock, so what it has not filtered yet counts without the device.
ListOf(n) ==
  IF groups[n] = NoGroup THEN NoGroup
  ELSE IF mu # NoThread /\ request[mu].name = n
    THEN LET list == Contents(slice[mu]) IN
         SubSeq(list, 1, kept[mu]) \o Rest(list, request[mu].device)[next[mu]]
    ELSE Contents(groups[n])

Changes == {r \in Requests : r.kind # "play"}

Lists == INSTANCE GroupList WITH
  Requests <- Changes,
  members <- [n \in Names |-> ListOf(n)],
  pending <- [t \in Threads |->
    IF pc[t] = "apply" /\ request[t].kind # "play" THEN request[t] ELSE NoRequest]

\* Creating, adding and removing are atomic for one another: although Remove
\* works in place, every list is what the requests in some order make of it.
ImplementsGroupList == Lists!Spec

\* A Play that succeeds has routed every member if none was removed meanwhile,
\* however many were added and however the group was created anew.
UndisturbedPlayIsComplete ==
  \A t \in Threads :
    pc[t] = "played" /\ stayed[t] = atStart[t] => routed[t] = atStart[t]

\* A Play that succeeds has routed every device that was a member throughout,
\* also when another device was removed meanwhile.
PlayRoutesMembers ==
  \A t \in Threads : pc[t] = "played" => stayed[t] \subseteq routed[t]
=============================================================================
