# TuxPlay in TLA+

TuxPlay is a daemon that plays the sound of a Linux desktop on AirPlay devices.
It discovers devices, maps them to the `raop_sink.*` sinks PipeWire makes for
them, creates an output sink `tuxplay_output` for applications, and connects
the two with loopback modules: a device is *routed* while a loopback from
`tuxplay_output.monitor` feeds its sink. This directory holds the TLA+
specifications of the daemon and its clients, their TLC configurations, and proofs.

## The system

| component | state | operations | works with |
|---|---|---|---|
| PipeWire manager `internal/pipewire/manager.go` | `opMu`; under `mu`: `status` (targets, output sink), `outputModuleID`, `routeModules`, `routeSinks` | Start, Refresh, Route, Unroute, SetVolume, SetMute, Pause, Resume, cleanup | runs `pactl`, one process per command |
| PipeWire server (outside the repository) | sinks and their volumes, module table | list, load-module, unload-module, set-sink-volume, set-sink-mute | other applications and the network change it too |
| controller `internal/controller/controller.go` | none | Route, Unroute, SetVolume, Mute, Pause/Resume, Stop | calls the manager, then writes the store |
| state store `internal/state/store.go` | devices, routes, groups, PipeWire status, under one RWMutex; a JSON file | upsert/merge devices, publish status, set/remove/update routes, groups, resolve names, snapshot, load/save | called by everyone |
| group service `internal/group/service.go` | none | Create, Add, Remove, Play | store, controller |
| daemon `internal/daemon/server.go`, `runDaemon` | socket, goroutines | HTTP handlers, syncPipeWire (every 3 s), start, shutdown | all of the above |
| discovery `internal/discovery/service.go` | two mDNS browsers, the live flag | normalise an entry, upsert the device | store |
| command line `cmd/tuxplay` | none | a status request, then one request per command | the socket |
| desktop client `cmd/tuxplay-gui` | last status shown | polls every 5 s, one thread per request | the socket |
| `internal/api`, `internal/rtsp`, `internal/mdns` | per connection | answer requests | imported by nothing in the repository |

How they interact. Every request is a goroutine of its own. The manager
serialises its operations with `opMu`, but one operation is a sequence of
`pactl` processes, and between any two of them the server may change; each
command may fail, and `load-module` may succeed with an answer the daemon cannot
parse (stdout and stderr are joined). The controller calls the manager and
afterwards writes the store: each is locked, the pair is not. `Start`'s ticker
(4 s), `syncPipeWire` (3 s) and the status handlers refresh independently of each
other. The store's groups are Go slices that escape from the lock. The daemon's
process may end at any of these steps; modules, state file and socket stay, and
systemd starts it again. `install.sh` can install two units, which then run
two daemons on one socket path and one state file.

What is hard, and what makes each component correct:

* **manager**: records name the loopbacks they were made for although the server
  gives indexes out again, and a module of another application is hit under no index
  but a kept one; a sweep of stray loopbacks spares known routes; no sink
  gets two loopbacks (it would play the stream twice); Unroute and Pause make a
  device silent; Route makes it sound; `opMu` is released on every path; the
  output sink comes back; Start copes with what a killed daemon left; cleanup leaves
  nothing playing.
* **controller and store**: what the list of routes says, what the manager
  has loaded, and what volume the server has, agree; an exclusive Route leaves one
  route; a late status does not stay.
* **groups**: changes are atomic, and Play routes the members.
* **discovery and devices**: a receiver, which announces two services under two
  IDs, is listed once, at its present address; no ID that groups name is dropped.
* **daemon life**: the state file is readable after a crash at any step, and holds what
  was answered; a daemon on its own can be reached; one that failed comes back.
* **clients**: a command ends with an answer or an error; an outdated
  status does not stay in the window.

`hazards` in `PROJECT.json` lists these at their lines, with the properties that
cover them or the reason why none does yet.

## The modules

    PulseServer   <- PulseManager <- Controller <- Volume
    PulseManager  <- MCManager           Controller           <- MCController
                                         Volume, MCController <- MCVolume
    PulseManager  <- PulseManagerProofs  <- RecordsProofs, PlaybackProofs
    Volume        <- Reports;            Reports, MCVolume    <- MCReports
    Volume, PlaybackProofs               <- ControllerProofs
    ControllerProofs, Reports            <- ReportsProofs
    PulseManager  - -> Playback
    Groups        - -> GroupList
    Daemon        - -> Durability
    Removal       <- Groups, GroupList
    Groups        <- MCGroups, GroupsProofs
    Devices       <- MCDevices, DevicesProofs
    Daemon        <- Desktop             <- MCDesktop, DaemonProofs

An arrow `<-` is EXTENDS, from right to left; PulseManager *implements* Playback, Groups
*implements* GroupList and Daemon *implements* Durability (INSTANCE with a refinement mapping).

**PulseServer** is external: `sinks`, and `modules`, a function from indexes to
what is loaded there (a free index, an output sink, a foreign module, or the
sink a loopback feeds). Its load and unload actions are the `pactl` commands. A
freed index may be given out again at once. `Faults` says which commands may fail, and
whether the daemon may crash, and `Env` what happens without the daemon
(receivers come and go, modules vanish, other applications load modules).

**PulseManager** has the manager's fields and, for each thread (goroutine), a
program counter `pc` and the locals of the call. One step is one `pactl` command
with the memory accesses around it. `Lock`/`Unlock` are `opMu`.
`refreshLocked(true)` is `List`, followed by `ensureOutputSink` (`Scan`, `Sweep`*,
`Swept`, `Create`, again `Scan`, `Sweep`*, `Swept`) when the listing shows no
output sink; `ret` is where it goes on. Route is `List`..., `Resolve` (with its
fast path, `AlreadyRouted`), `Drop`, `Clean`, `CleanOne`*, `Cleaned`, `Load`,
`Record`; Resume goes from `Resolve` to `Load`; Unroute and Pause are `Forget`,
`Unload`, and for Unroute the cleanup of the sink; SetVolume and SetMute are `Adjust`,
which needs the sink to be there still.
`ListingFails`, `LoadFails`, `LoadIsLost`, `UnloadFails`, `CleanFails`,
`ResolveFails` and `AdjustFails` are the error returns. The cleanup at shutdown is
`Collect`, `Release`* and `ReleaseOutput`, outside `opMu` as in the code. `Restart`
is the end of the process, by a crash at any step or after the cleanup, and the
start of another: memory goes, modules stay.
Abstractions: `Match[d]` stands for the conditions of `resolveTarget` (and of
`matchesPipeWireTarget`), `Extensions[s]` for `strings.Contains(argument,
"sink="+s)`, which also accepts names that begin with `s`, `Rank` for the order
by description. `Scan`'s two listings and its reading of the records are one step: each
listing shows what the other does not, and the records are written only by holders of `opMu`
and by `Collect`, which changes memory alone and may as well come before the listings. Operations of one thread follow each other; several
threads call at any time.

**Playback** is the abstract specification of the manager: no modules, records or
commands, only the operation under way, the sinks that are heard, and the callers
that were answered. The mapping takes the operation of the thread that holds `opMu`
for the one under way, and a sink for heard when a loopback feeds it. What the
abstraction forbids is what callers rely on: a sink that begins to be heard without
a Route or Resume that found it for its device, two operations at once, an Unroute
that returns without an error while its sink is heard.

**Controller** adds the store's `routes` and `mapped` (the devices with a sink) and
the requests: `Receive`, then for an exclusive Route `DropNext`/`Dropped` for each
other route, then `CallManager`, and one of the `Commit` actions, `AnswerOnly`, or
`ReadStatus` and `Publish`. A step is a manager step or one locked section of the store.

**Volume** adds the volumes and mute states: those of the sinks (`actual`), the copies in
the listing a Route or Resume made (`heard`), and those the store reports with each
route. Its steps are Controller's steps (`SettingStep`, `StoreStep`, `ReceiveWith`)
with what they do to the settings. Whatever is true of Controller is true of Volume
(theorem VolumeUsesController), so the runs OneClient and Watching check both at once.

**Reports** is Volume with a history variable, `doubtful`: the devices in the list of routes whose last
Unroute or Pause has failed. Both forget the manager's record before the command that may fail, and the
store then keeps the route. With the history ReportedIsRecorded can say that the list and the records disagree in
no other way.

**Groups** models the slices themselves: `cells` is the heap of arrays, `groups[n]` an
array and a length. `append` writes in place if the array has a cell to spare and
allocates twice the length otherwise; `slices.Clone` allocates the exact length;
`group.Devices[:0]` in RemoveGroupDevice is `Filter`, which writes into the shared array
one cell per step while `mu` is held. `Read` is a turn of Play's loop, without the
lock; if a Remove is about to write another device into the cell, the two words
of the string may be torn (`Torn`, `Garbled`). Arrays no one reaches are
collected. `atStart` and `stayed` are history variables.
**GroupList** is the abstract specification: a group is a list and a request takes
effect in one step. The mapping lets a Remove take effect when it gets the
lock: what is not filtered yet counts without the device (`ListOf`). **Removal** says what a list is
without a device, from each of its places on (`Rest`), as a recursive function, which
can be proved about.

**Devices** models the two browsers and what UpsertDevice does with each
announcement: `Upserted` finds the device by ID, then by address, and merges;
`Normalized` is `normalizeDevicesLocked`. Go iterates over a map in any order, and joins the devices
of one address as it meets them; that is why `Normalized` is a set of lists. `Join` is a
turn of that loop and `Turns` the loop in one order, a recursive function, which can be proved about;
`InTurn` takes every order. `Joined` says in one line what can come of it, for the steps
and the proofs (a device with a preferred ID, the data of the one met last and the protocols of
all). `JoinsInTurn` says that the two are the same on every list of devices at one address
(`Crowded`).
`Weight` stands for the order of `preferredDeviceID`. `heard` is the FIFO of
announcements each browser has yet to take. `Run`, `Open`, `OpenFails` and `GiveUp`
start the browsers, which may fail, and set the live flag (no property is about the flag). The sinks of devices are in
Controller (`mapped`), not here.

**Daemon** models the processes (`proc`, from New to Exit), the socket path (`path`: whose
socket it leads to), the store's lock and save (`saving`), the temporary and the
state file, and the commands, each with its status check and its request (`cli`,
`server`). A process ends by itself when its start fails (`StartFails`), when told
to (`Shutdown`, `Exit`), or is killed (`Crash`), and its phase is then "failed",
"down" or "killed". Of the store's contents it keeps the members that commands add to
groups. Two processes may write the one temporary file at once: `WriteTemp` may then
mix them, or write a file that the other has renamed already. `mixed` and
`alone` are history variables: whether two daemons have ever run at once, and who
runs without ever having had company. Properties of the file are stated for
`~mixed`; with two daemons they do not hold.

**Durability** is the abstract specification of the daemon for those who add to groups: no processes,
sockets, files or locks, only what is stored, what is known, the commands that wait, those that were
answered, and the edits whose last save failed. Knowledge is stored all at once or not at all, a daemon may
end at any time and forgets what is not stored, and an edit is answered when it is stored or
its failure is on record. The mapping takes for stored what the state file holds, and for
known what the running daemon has in memory or, if none runs, what the next one will load: so
starting one changes nothing, whatever it does to the file. Once two daemons have run at once (`shared`)
nothing is promised.

**Desktop** adds the window: `asked` (status requests a daemon has), `inFlight` (answers
that threads have yet to send), `shown`. Equal answers are not counted: `Show` may leave
its status in flight.

Operators named `...Mutant` are deliberate defects, each introduced by a comment
"Defect:". No specification uses them. Replacing the operator they
stand beside by the defect makes TLC find a violation of a property: this is how
we know that the property can fail. The pairs are in `mutants` in `PROJECT.json`.

## The runs

| run | instance | shows |
|---|---|---|
| Manager | 2 threads that refresh, route and unroute, 2 devices sharing a sink, 2 indexes, all faults, crashes, vanishing and foreign modules | OneLoopbackPerSink, SweepSparesRecorded, UnrouteSilences, ManagerInv (the inductive invariant), ImplementsPlayback, SparesForeign |
| Records | 2 threads, every operation on a device, a sink per device, 3 indexes, all faults, foreign modules, sinks come and go | RecordsLive, RouteSounds |
| Ticking | 2 threads, 1 device, any leftovers, vanishing modules, crashes, cleanup, no failing command | StartAdopts, CallsReturn, OutputRestored, CleanupSilences |
| OneClient | a client and syncPipeWire, all requests, all faults, volumes 0, 50, 100 | RecordedIsReported, ReportedIsRecorded, SetIsExclusive, VolumesAgree |
| Watching | a client and syncPipeWire, set/status/tick, sinks come and go | RequestsAnswered, MappingCatchesUp |
| Groups | 2 clients, every kind of request, lists of up to 4, with and without spare cells, a duplicate | ImplementsGroupList, UndisturbedPlayIsComplete |
| Discovery | 2 receivers with 2 addresses each, up to 3 announcements on their way, browsers that may not start | JoinsInTurn, OnePerAddress, ListedOnce, PreferredIDStays |
| Daemons | 2 units and a command, 1 unit and 2 commands, or 1 unit, a command and the window; crashes and failing writes at every step | AlwaysReadable, AnsweredIsSaved, AloneIsReachable, ImplementsDurability, FailedRecovers, CommandsEnd, WindowCatchesUp |
| Pause, StaleRecord, TwoSets, GroupPlay | as small as the counterexample allows | violations, see below |

Bounds. Two devices and two sinks give a shared sink, a device that moves, and a
sink whose name begins another's; a third would only repeat a role, since the manager
treats devices one at a time under `opMu`. Two threads are enough for every
interleaving around a lock that only one holds. Indexes (`Ids`) are the
resource bound: 2 or 3 force reuse, and when none is free a load fails.
`Manager` leaves Resume out, because with it OneLoopbackPerSink fails (finding Pause), and Pause,
SetVolume and SetMute, which `Records` and `OneClient` have and which add nothing to a sink, so
that foreign modules fit in.
`Records` has no vanishing modules and no shared sinks: with either a
record may go stale (finding StaleRecord; and a Route of one device to a sink
removes the loopback of another device on the same sink). In `OneClient` the volumes are 0,
which Route takes for "not known" and reports as 100, and 50. In `Groups`, lists
come from three devices, and there is an array more than groups and requests can hold, so an
allocation never lacks one (`GroupsAssumption`). In
`Discovery` no receiver takes over an address another had (`Own`): if one does, ListedOnce
and PreferredIDStays fail, as the receivers are taken for one (see hazards). `MaxQueue`
bounds how far a receiver's moves run ahead of the browsers; 3 lets it come back to an old
address before the first announcement is handled. In `Daemons` three setups take the
place of their product, which has tens of millions of states; two processes are enough
to take each other's path and to write one file at once, and two commands for one
save to follow another.

Fairness. Operations and handlers run on (weak fairness of their steps).
Locking is strongly fair: `sync.Mutex` goes into starvation mode and hands itself
to a waiter after 1 ms; the store's `sync.RWMutex` likewise lets a waiting
writer in before later readers, and readers after each writer, whence strong fairness of the steps of
a handler in `DaemonFairness`. Ticks repeat (strong fairness of one thread's
refresh, weak fairness of syncPipeWire's request and of the window's timer): these
loops never end while their process runs. Both units have `Restart=on-failure`
(`install.sh:104,139`), so a daemon that failed or was killed begins again; one that was told to
stop need not. `FailedRecovers` holds when crashes end at some time and two daemons
never run at once, as its formula says. That an operation runs on assumes that every `pactl`
command returns: `runPactl` sets no time limit (`manager.go:730-737`), and one that hangs holds
`opMu` for ever. No client is obliged to make a request, no fault is
obliged to stop, except where a run has no faults or a property says so.

Deadlock is checked in every run.

## What the checks found

* **Pause** (`manager.go:356`): Resume of a device that already plays, by a Route or an earlier Resume, loads a
  second loopback and forgets the first; Pause then unloads one of the two and reports "paused".
* **StaleRecord** (`manager.go:212`): Route trusts its record, so after PipeWire dropped
  the loopback Route answers "routed" and loads nothing, for ever.
* **TwoSets** (`controller.go:36`): two concurrent exclusive Routes both stay routed.
* **GroupPlay** (`store.go:476`): a Remove that filters in place while Play reads makes
  Play pass over a device that was a member throughout, and Play succeeds.

Seen while modelling, and not runs of their own:

* Routes are saved with the state but `daemon.New` drops them at every start (`server.go:69`).
* A record may name an index whose loopback is gone: it vanished, or was unloaded for another
  device on the same sink. If the server has given the index to another application, Unroute or
  Pause unloads that application's module (`manager.go:273`, `manager.go:321`), and so does
  cleanup. SparesForeign says that this is the only way.
* A loopback from `tuxplay_output.monitor` that a user has loaded is unloaded by the next sweep
  (`manager.go:538-547`): `isTuxPlayLoopback` accepts it and no record names it.

## The proofs

All proofs are for all values of the constants, under the assumptions the modules
name (`ServerAssumption`, `ManagerAssumption`, `ControllerAssumption`, `VolumeAssumption`,
`DaemonAssumption`, `DesktopAssumption`, `DevicesAssumption`, `GroupsAssumption`), which TLC evaluates in the runs.

`PulseManagerProofs`:

* `TypeCorrect`: `Spec => []TypeOK`.
* `ManagerInvariant`: `Spec => []ManagerInv`. The invariant is inductive.
  `UnrouteSilences` and `RouteLoadsAlone` alone are not: they speak of a moment in
  an operation and need to know what the cleanup before it has done. The
  conjunct that carries the argument is `CleanupComplete`: while a thread
  is cleaning, everything that feeds its target is still on its list `todo`. It is
  preserved because only the holder of `opMu` loads loopbacks (`Exclusive`), and
  the server itself only frees indexes or loads foreign modules. `Aimed`,
  `Addressed` and `UnrouteSteps` say which operation can be at which step.
* `UnrouteIsSilent`: `Spec => []UnrouteSilences`, from `ManagerInvariant`.
* `OneLoopback`: `Spec => []OneLoopbackPerSink`, if Resume is not among the operations
  and an earlier daemon left at most one loopback per sink. A load is
  the only step that could add one, and `RouteLoadsAlone` says the sink is
  free then.
* `SweepIsSafe`: `Spec => []SweepSparesRecorded`: while a thread sweeps it holds `opMu`,
  and records are only added by the holder; cleanup, which does without, only removes them.
  `OrderInv` adds to ManagerInv which steps each operation can be at (`Way`) and what each phase of
  the daemon allows (`PhaseInv`); the proofs below start from it.

The proof of each step lemma follows the disjuncts of `Next`; steps that
change no loopback are handled together (`QuietStep`).

`PlaybackProofs`: `ManagerImplementsPlayback`, `Spec => ImplementsPlayback`. Steps of the
holder of `opMu` map to `Begin`, `Aim`, `Work` and `Return`, cleanup and server to
`FallSilent`, `Restart` to `Abandon`, everything else to a stutter. Besides
`ManagerInv` it needs `CourseInv`: an operation has a target only once it
has resolved one, and a sink is loaded only for a device it matches.

`ControllerProofs`, for any clients, under the assumption that the manager's `Ops` include
those that requests call (`Called`; the runs set `Ops` to them):

* `ControllerUsesManager`: `ControllerSpec => Spec`, so the theorems about the manager hold
  under the controller. `VolumeUsesController`: `VolumeSpec => ControllerSpec`.
* `ControllerTypeCorrect` and `VolumeTypeCorrect`. That no route without a sink is stored
  is not in the code that stores it: it rests on `OnCourse` (an operation that has
  not failed has resolved its target when it returns) and on `Asked` (which operation
  serves which request).
* `RecordsReported` and `SetsAreExclusive`: RecordedIsReported and SetIsExclusive, whatever
  fails, if at most one thread is a client (`SingleClient`; any number may refresh). The invariant
  is `AgreeInv`: a record is a reported route that plays or is on its way to the store
  (`RecordsAgree`), the operations that forget a record have forgotten it and those that
  make one return it (`KnowsRecord`), and an exclusive Route has what else is reported
  on its list (`SetsKnowOthers`). With two clients they are false: run TwoSets.

`DaemonProofs`: `DaemonInvariant`, from which `FileIsReadable`, `AnswersAreSaved` and
`AloneHasPath` follow. `DaemonInv` says what is known of each moment: `Saves` (only a running
daemon saves), `Connected` (a command is connected just as long as it waits), `HasPath` (a daemon that runs
alone and has listened is where the path leads), `History` (what `alone` and `mixed`
record), and `OneAtATime`, which for `~mixed` bounds the running daemons by one and relates file,
memory and answers: what a running daemon knows contains what the file holds, and what it
knows and the file does not is risky or being saved. Without the part about memory
the claim about the file is not inductive: a save replaces the file by what memory holds.
`DaemonKeepsPromise`: `DaemonSpec => ImplementsDurability`, from the same invariant. `Post` asks, `Handle` learns,
`Rename` stores, `SaveFails` and `Answer` are what their names say, a process that ends forgets, and all
else, the start of a daemon and the writing of the temporary file among it, is a stutter. That
`Rename` stores exactly what is known rests on `Undisturbed` (what is renamed is what was in memory when the
lock was taken), that a start is a stutter on its loading the whole file, and that what is
answered may be on `DoneIsSaved`. A command of the daemon that ends is not among the answered, as `Connected`
says in its other direction. A step that makes two daemons run, and all that follow it, are `Share`.
`PromiseIsKept` shows that Durability is strong enough to be worth implementing: from it alone follow that
answers are stored (`AnsweredIsStored`) and that nothing stored is lost (`NothingIsLost`), whence `NoEditIsLost`
for the daemon.
`WindowOnlyWatches` (`DesktopSpec => DaemonSpec`) carries all of it over to the composition, which
`WindowTypeCorrect` also uses.

`RecordsProofs` says what the manager's records are worth. Each theorem names what it needs, and each
hypothesis is one the run of the property satisfies:

* `RecordsAreLive`, `RoutesSound`: RecordsLive and RouteSounds,
  through failing commands, crashes and reused indexes, if each device has a sink of its own and no
  other sink's loopbacks are taken for its own (`OwnSinks`), no module goes away by itself
  (`NoneVanish`), and the daemon is not told to stop (`NeverStops`). Without the first, Route
  of a device to a sink unloads the loopback of another, whose record stays, and a device that moves keeps its
  old record while the cleanup for the new one fails. Without the second it is the finding StaleRecord.
  Without the third, cleanup, which takes no `opMu`, works from a copy of the indexes, and an
  Unroute next to it may have freed one that the server has given to someone else since.
  The invariant (`RecordsInv`) follows an index through an operation: what is recorded feeds the recorded
  sink, and what is about to be unloaded is a loopback whose record is gone, or the operation's own.
* `ForeignSpared`: `Spec => SparesForeign`, with no hypothesis: vanishing modules, shared sinks,
  cleanup and crashes are included. What an operation picks from a listing is never foreign, what it
  loads has a free index, and what it unloads it has kept (`Holds`).
* `StartTidies`: StartAdopts, if modules that are loaded can be unloaded (`UnloadsSucceed`). A
  sweep passes over an unload that fails, so without it a stray loopback stays.
* `CleanupIsSilent`: CleanupSilences, if also the index of a loaded module is always understood
  (`NoneLost`) and Resume is not used (`WithoutResume`: it overwrites the record of a loopback that
  goes on). The invariant is that each loopback is recorded, in cleanup's hand, or in the hand of one
  operation.

`ReportsProofs`, about what clients are told, for a single client next to any number of refreshes:

* `ReportsOnlyRemember`: `ReportsSpec => VolumeSpec`, so the theorems about Volume, Controller and the manager
  hold with the history.
* `ReportsRecorded`: ReportedIsRecorded, for all requests. The invariant says of each route in the list that it
  agrees with the record, up to doubt (`Agreed`), or that a request is under way that will settle it: one that brings
  the route, silences its device, or drops it for an exclusive Route, whose failed Unroutes leave no doubt
  as the Route removes the entries anyway.
* `VolumesReported`: VolumesAgree, for all requests, if no sink has two devices (`OneSinkEach`): the
  volume of a shared sink is set through one of them and reported for that one. Besides the
  agreement itself the invariant says what the copies in the listings of a Route or Resume are worth
  until it is stored.

`DevicesProofs`, for any receivers, addresses, IDs, orders of announcement and orders of iteration:

* `ListTyped` and `OneForEachAddress`: DevicesTypeOK and OnePerAddress, if the lists that may have been
  saved have their devices under their own IDs (`SavedKeyed`). A lemma says what
  `Normalized` makes of a list: one joined device for each address, and nothing else.
* `ReceiversListedOnce` and `PreferredStays`: ListedOnce and PreferredIDStays, if receivers keep to addresses
  and IDs of their own (`SeparateReceivers`; if not, they are taken for one) and did so in the saved list
  (`SavedNamed`), and for the second if `preferredDeviceID` tells the two IDs of a receiver apart
  (`WeightsDiffer`: one has colons). ListedOnce is not inductive. `ReceiverInv` says what each announcement
  that was handled has left: a browser hears of the present address last (`LastHeard`), a device whose
  services have nothing on the way is at it (`AtAddress`), and each such service is one of a device's (`Shown`). That
  there is only one device then follows from one device per address. A receiver whose services have the
  same ID is covered.
* `JoinsAsWritten`: JoinsInTurn, for any list of devices at one address, if IDs are finitely many, as those of a
  map are. What `Turns` has after each turn (`TurnsSum`) is the device met first of the most preferred of those met so
  far, with the name of the last and the protocols of all, by induction over the turns; `Upwards`
  makes it from a least counterexample. Conversely every device that `Joined` allows comes of an order that begins
  with its key and ends with its last (`OrderBetween`); only a finite set has orders.

`GroupsProofs`, for any groups, clients and requests, with no hypothesis but `GroupsAssumption`.
`GroupsTyped` and `UndisturbedPlays`: TypeOK and UndisturbedPlayIsComplete. The hard part is that slices share arrays. `OwnArrays` says that no two groups
share one, `ReadsOwn` that an array Play reads belongs to no group but the one it plays, and `Locked` and
`Filters` that a Remove under way holds the lock and writes behind the place it reads. `Whole` says
that while no member was removed the cells of Play's slice are still the members it began with, and those in
front of its place are routed: an append in place writes behind them, and a Remove that works in the same
array (`Spared`) has met no device to drop among them, so it writes each over itself.
That an array is free when one is needed (`FreshIsFree`) is a counting argument.

`GroupsImplementLists`: `Spec => ImplementsGroupList`, from the same invariant. A request arrives with `Ask`;
Create, Add and the beginning of Remove are `Perform`, or fail as it does; all else, the turns of
Remove's loop among it, is a stutter. An Add appends to one list and no other because no two groups share an
array. A turn of the loop writes into the array it reads, and what it has kept together with what is
to come of the rest is the same list afterwards (`TurnKeepsList`), since it writes in front of what it has
yet to read. What `Rest` is at each place is an induction from the end of the list; `Backwards` makes
it from a least counterexample, since the library's induction theorems cannot be used.

Only model-checked:

* liveness, which is beyond the prover: CallsReturn, OutputRestored, RequestsAnswered,
  MappingCatchesUp, FailedRecovers, CommandsEnd, WindowCatchesUp;
* the properties of the violation runs, which are false.

## The plan

1. *(done)* The manager and its server, the routes in controller and store,
   groups, discovery and the list of devices; the manager's type and main
   invariants proved.
2. *(done)* Cleanup, crash and restart; volumes; Playback and its refinement, proved; the daemon's life
   with socket and state file, and the window, with proofs; the proofs about the controller.
3. *(done)* Proofs of what records and reports are worth, of the devices and the loop that joins them, of the groups,
   that groups implement GroupList, and that daemons implement Durability: every safety and action property of a
   passing run is a theorem.
4. What holds when two clients ask for one device at once; devices that are merged while a
   route or group names them; `ResolveDevice` by name.

## Not modelled

* Loopbacks from `tuxplay_output.monitor` that someone else loads: `Foreign` stands for the modules that
  `isTuxPlayLoopback` does not accept. Such a loopback would be one more stray to the sweep.
* A crash of the machine: `saveLocked` does not call fsync (`store.go:124-127`), so what is said of the
  state file is said of processes that end, not of what the disk holds after a power failure.
* ResolveDevice by name and `resolveTarget`'s comparison of names: `Match` and the devices that
  requests name stand for their results.
* The JSON of requests and answers, names and descriptions, status codes: formatting
  that no property is about. `RefreshWithoutEnsure` and `listModules` have no caller.
* The window's buttons and sliders, whose requests are those of the command line in
  threads of their own; layout.
* `internal/api`, `internal/rtsp` and `internal/mdns` are imported by no package; `install.sh` builds and copies.
