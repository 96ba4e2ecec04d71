-------------------------------- MODULE Daemon --------------------------------
(***************************************************************************)
(* The life of daemon processes (src/internal/daemon/server.go, runDaemon  *)
(* in src/cmd/tuxplay/main.go), the socket path and the state file         *)
(* (src/internal/state/store.go) they share, and the commands a user gives *)
(* (withClient in main.go).                                                *)
(*                                                                         *)
(* install.sh can install a user unit and a system unit, which run the     *)
(* same program with the same socket path and state file, and systemd      *)
(* restarts each one that fails.  So there may be two processes, and what  *)
(* they promise depends on whether two have ever run at once.              *)
(*                                                                         *)
(* Of the state the model keeps what commands have added to groups: an     *)
(* edit is a member added by AddGroupDevice.  Routes are dropped at every  *)
(* start; devices are found again.                                         *)
(***************************************************************************)
EXTENDS Naturals

CONSTANTS
  Daemons,      \* the units that run a daemon
  Edits,        \* members that commands add, one command for each
  NoDaemon, NoEdit,
  NoSocket,     \* nothing has the path
  DeadSocket,   \* the socket of a process that was killed
  Missing,      \* there is no such file: like Garbled, a set of no edits
  Garbled,      \* what a file that cannot be decoded holds
  Mishaps,      \* what may happen: "crash", "disk"
  Setups        \* which units are installed, which commands are given, and
                \* whether the window is open

\* How far a process is: New, removeStaleSocket, Listen, Chmod, Serve, Shutdown.
Starting == {"loaded", "clearing", "remove", "listen", "chmod"}
Answering == {"serving", "stopping"}
Up == Starting \cup Answering
Fallen == {"failed", "killed"}     \* with an error; by a signal: systemd restarts it
Phases == Up \cup Fallen \cup {"down"}

Contents == (SUBSET Edits) \cup {Missing, Garbled}

ASSUME DaemonAssumption ==
  /\ NoDaemon \notin Daemons /\ NoEdit \notin Edits
  /\ {NoSocket, DeadSocket} \cap Daemons = {} /\ NoSocket # DeadSocket
  /\ {Missing, Garbled} \cap SUBSET Edits = {} /\ Missing # Garbled
  /\ (Missing \cup Garbled) \cap Edits = {}
  /\ Mishaps \subseteq {"crash", "disk"}
  /\ Setups \subseteq
       [units : SUBSET Daemons, commands : SUBSET Edits, window : BOOLEAN]

VARIABLES
  setup,        \* one of Setups; it does not change
  proc,         \* proc[p]: how far daemon p is
  path,         \* whose socket the path leads to
  known,        \* known[p]: the edits in p's store
  saving,       \* saving[p]: how far the save is that holds p's store lock
  saver,        \* saver[p]: the edit whose handler saves
  tmp, file,    \* the temporary file and the state file
  cli,          \* cli[e]: how far the command of e is
  server,       \* server[e]: the daemon it is connected to
  risky,        \* edits whose last save failed
  mixed,        \* whether two daemons have ever run at once
  alone         \* the running daemons that no other has run next to

fileVars == <<tmp, file, risky>>
storeVars == <<known, saving, saver>>
cliVars == <<cli, server>>
historyVars == <<mixed, alone>>
daemonVars == <<setup, proc, path, storeVars, fileVars, cliVars, historyVars>>

CliSteps == {"idle", "check", "checked", "post", "done", "ok", "err"}
CliWaits == {"check", "post", "done"}

DaemonTypeOK ==
  /\ setup \in Setups
  /\ proc \in [Daemons -> Phases]
  /\ path \in Daemons \cup {NoSocket, DeadSocket}
  /\ known \in [Daemons -> SUBSET Edits]
  /\ saving \in [Daemons -> {"no", "writing", "written"}]
  /\ saver \in [Daemons -> Edits \cup {NoEdit}]
  /\ tmp \in Contents /\ file \in Contents
  /\ cli \in [Edits -> CliSteps]
  /\ server \in [Edits -> Daemons \cup {NoDaemon}]
  /\ risky \subseteq Edits
  /\ mixed \in BOOLEAN
  /\ alone \subseteq Daemons

DaemonInit ==
  /\ setup \in Setups
  /\ proc = [p \in Daemons |-> "down"]
  /\ path \in {NoSocket, DeadSocket}
  /\ known = [p \in Daemons |-> {}]
  /\ saving = [p \in Daemons |-> "no"]
  /\ saver = [p \in Daemons |-> NoEdit]
  /\ tmp = Missing /\ file = Missing
  /\ cli = [e \in Edits |-> "idle"]
  /\ server = [e \in Edits |-> NoDaemon]
  /\ risky = {}
  /\ mixed = FALSE
  /\ alone = {}

Running == {p \in Daemons : proc[p] \in Up}

-----------------------------------------------------------------------------
(* saveLocked, under the store's lock *)

\* Defect: the state file itself is opened.
StartSaveMutant(p, edits, e) ==
  /\ saving[p] = "no"
  /\ known' = [known EXCEPT ![p] = edits]
  /\ saving' = [saving EXCEPT ![p] = "writing"]
  /\ saver' = [saver EXCEPT ![p] = e]
  /\ tmp' = Garbled /\ file' = Garbled
  /\ UNCHANGED risky

\* Memory is changed and the temporary file opened, which empties it.
StartSave(p, edits, e) ==
  /\ saving[p] = "no"
  /\ known' = [known EXCEPT ![p] = edits]
  /\ saving' = [saving EXCEPT ![p] = "writing"]
  /\ saver' = [saver EXCEPT ![p] = e]
  /\ tmp' = Garbled
  /\ UNCHANGED <<file, risky>>

\* The save is over, whether it failed or not, and so is its handler's work.
EndSave(p) ==
  /\ saving' = [saving EXCEPT ![p] = "no"]
  /\ saver' = [saver EXCEPT ![p] = NoEdit]
  /\ cli' = [e \in Edits |-> IF e = saver[p] THEN "done" ELSE cli[e]]
  /\ UNCHANGED <<proc, path, known, server, historyVars, setup>>

\* The file is written.  Another process that saves has opened it too: either
\* the two writes mix, or it has renamed the file that this one writes.
WriteTemp(p) ==
  /\ saving[p] = "writing"
  /\ \E written \in
       IF \E q \in Daemons \ {p} : saving[q] # "no" THEN {known[p], Garbled}
                                                   ELSE {known[p]} :
       IF tmp = Missing THEN file' = written /\ UNCHANGED tmp
                        ELSE tmp' = written /\ UNCHANGED file
  /\ saving' = [saving EXCEPT ![p] = "written"]
  /\ UNCHANGED <<proc, path, known, saver, risky, cliVars, historyVars, setup>>

\* It is renamed.
Rename(p) ==
  /\ saving[p] = "written" /\ tmp # Missing
  /\ file' = tmp
  /\ tmp' = Missing
  /\ risky' = risky \ known[p]
  /\ EndSave(p)

\* Defect: what could not be replaced is cleared away.
SaveFailsMutant(p) ==
  /\ \/ saving[p] \in {"writing", "written"} /\ "disk" \in Mishaps
     \/ saving[p] = "written" /\ tmp = Missing
  /\ risky' = risky \cup (known[p] \ file)
  /\ EndSave(p)
  /\ file' = Missing
  /\ UNCHANGED tmp

\* Defect: the caller returns without unlocking if the rename has failed.
SaveFailsLockedMutant(p) ==
  /\ \/ saving[p] \in {"writing", "written"} /\ "disk" \in Mishaps
     \/ saving[p] = "written" /\ tmp = Missing
  /\ risky' = risky \cup (known[p] \ file)
  /\ saving' = IF saving[p] = "written" /\ tmp = Missing THEN saving
               ELSE [saving EXCEPT ![p] = "no"]
  /\ saver' = [saver EXCEPT ![p] = NoEdit]
  /\ cli' = [e \in Edits |-> IF e = saver[p] THEN "done" ELSE cli[e]]
  /\ UNCHANGED <<proc, path, known, server, tmp, file, historyVars, setup>>

\* Any part of it fails, and every caller ignores the error.
SaveFails(p) ==
  /\ \/ saving[p] \in {"writing", "written"} /\ "disk" \in Mishaps
     \/ saving[p] = "written" /\ tmp = Missing
  /\ risky' = risky \cup (known[p] \ file)
  /\ EndSave(p)
  /\ UNCHANGED <<tmp, file>>

\* UpsertDevice saves whenever discovery hears an announcement.
BackgroundSave(p) ==
  /\ proc[p] \in Answering
  /\ StartSave(p, known[p], NoEdit)
  /\ UNCHANGED <<proc, path, cliVars, historyVars, setup>>

-----------------------------------------------------------------------------
(* The process *)

Become(p, phase) == proc' = [proc EXCEPT ![p] = phase]

\* Process p is over.  Its memory and its connections go, a save is cut off.
Ends(p, phase) ==
  /\ Become(p, phase)
  /\ known' = [known EXCEPT ![p] = {}]
  /\ saving' = [saving EXCEPT ![p] = "no"]
  /\ saver' = [saver EXCEPT ![p] = NoEdit]
  /\ cli' = [e \in Edits |-> IF server[e] = p THEN "err" ELSE cli[e]]
  /\ server' = [e \in Edits |-> IF server[e] = p THEN NoDaemon ELSE server[e]]
  /\ alone' = alone \ {p}
  /\ UNCHANGED <<fileVars, mixed, setup>>

\* What load makes of the state file.
Loaded == IF file = Missing THEN {} ELSE file

\* Defect: the error of load is ignored, and the daemon keeps what was decoded.
BeginMutant(p) ==
  /\ p \in setup.units
  /\ proc[p] \in Fallen \cup {"down"}
  /\ Become(p, "loaded")
  /\ known' = [known EXCEPT ![p] = Loaded]
  /\ mixed' = (mixed \/ Running # {})
  /\ alone' = IF Running = {} THEN {p} ELSE {}
  /\ UNCHANGED <<path, saving, saver, fileVars, cliVars, setup>>

\* New: load the state.  Without a file there is none, and with a garbled one
\* the process is over.
Begin(p) ==
  /\ p \in setup.units
  /\ proc[p] \in Fallen \cup {"down"}
  /\ IF file = Garbled
       THEN Become(p, "failed") /\ UNCHANGED <<known, historyVars>>
       ELSE /\ Become(p, "loaded")
            /\ known' = [known EXCEPT ![p] = Loaded]
            /\ mixed' = (mixed \/ Running # {})
            /\ alone' = IF Running = {} THEN {p} ELSE {}
  /\ UNCHANGED <<path, saving, saver, fileVars, cliVars, setup>>

\* ReplaceRoutes(nil) drops the saved routes, and saves.
DropRoutes(p) ==
  /\ proc[p] = "loaded"
  /\ Become(p, "clearing")
  /\ StartSave(p, known[p], NoEdit)
  /\ UNCHANGED <<path, cliVars, historyVars, setup>>

\* Defect: a socket that is there is left there.
StatMutant(p) ==
  /\ proc[p] = "clearing" /\ saving[p] = "no"
  /\ Become(p, "listen")
  /\ UNCHANGED <<path, storeVars, fileVars, cliVars, historyVars, setup>>

\* removeStaleSocket looks at the path ...
Stat(p) ==
  /\ proc[p] = "clearing" /\ saving[p] = "no"
  /\ Become(p, IF path = NoSocket THEN "listen" ELSE "remove")
  /\ UNCHANGED <<path, storeVars, fileVars, cliVars, historyVars, setup>>

\* ... and removes what it has seen, whosever it is ...
Remove(p) ==
  /\ proc[p] = "remove" /\ path # NoSocket
  /\ path' = NoSocket
  /\ Become(p, "listen")
  /\ UNCHANGED <<storeVars, fileVars, cliVars, historyVars, setup>>

Listen(p) ==
  /\ proc[p] = "listen" /\ path = NoSocket
  /\ path' = p
  /\ Become(p, "chmod")
  /\ UNCHANGED <<storeVars, fileVars, cliVars, historyVars, setup>>

\* Defect: the old socket is cleared away once the daemon listens.
ChmodMutant(p) ==
  /\ proc[p] = "chmod" /\ path # NoSocket
  /\ path' = NoSocket
  /\ Become(p, "serving")
  /\ UNCHANGED <<storeVars, fileVars, cliVars, historyVars, setup>>

Chmod(p) ==
  /\ proc[p] = "chmod" /\ path # NoSocket
  /\ Become(p, "serving")
  /\ UNCHANGED <<path, storeVars, fileVars, cliVars, historyVars, setup>>

\* ... but any of these fails if another process has been quicker, and ends
\* the daemon with an error.  Whoever has listened removes the path.
StartFails(p) ==
  /\ \/ proc[p] \in {"remove", "chmod"} /\ path = NoSocket
     \/ proc[p] = "listen" /\ path # NoSocket
  /\ Ends(p, "failed")
  /\ UNCHANGED path

\* Told to stop, Shutdown closes the listener, which removes the path, ...
Shutdown(p) ==
  /\ proc[p] = "serving"
  /\ path' = NoSocket
  /\ Become(p, "stopping")
  /\ UNCHANGED <<storeVars, fileVars, cliVars, historyVars, setup>>

\* ... and once discovery and the manager have returned, Run removes it again.
\* It waits for no handler.
Exit(p) ==
  /\ proc[p] = "stopping"
  /\ path' = NoSocket
  /\ Ends(p, "down")

\* The process is killed.  Its socket stays.
Crash(p) ==
  /\ "crash" \in Mishaps
  /\ proc[p] \in Up
  /\ path' = IF path = p THEN DeadSocket ELSE path
  /\ Ends(p, "killed")

-----------------------------------------------------------------------------
(* A command: tuxplay group add *)

\* Connect to whatever the path leads to.
Connect(e, step) ==
  /\ IF path \in Daemons
       THEN /\ cli' = [cli EXCEPT ![e] = step]
            /\ server' = [server EXCEPT ![e] = path]
       ELSE cli' = [cli EXCEPT ![e] = "err"] /\ UNCHANGED server
  /\ UNCHANGED <<proc, path, storeVars, fileVars, historyVars, setup>>

\* The daemon has answered and the connection is closed.
Answered(e, step) ==
  /\ cli' = [cli EXCEPT ![e] = step]
  /\ server' = [server EXCEPT ![e] = NoDaemon]
  /\ UNCHANGED <<proc, path, storeVars, fileVars, historyVars, setup>>

\* withClient asks for the status first, ...
Check(e) ==
  /\ e \in setup.commands
  /\ cli[e] = "idle"
  /\ Connect(e, "check")

\* ... which takes the store's lock, ...
Checked(e) ==
  /\ cli[e] = "check"
  /\ proc[server[e]] \in Answering /\ saving[server[e]] = "no"
  /\ Answered(e, "checked")

\* ... and sends the command over a connection of its own.
Post(e) ==
  /\ cli[e] = "checked"
  /\ Connect(e, "post")

\* Defect: the answer does not wait for the save.
HandleMutant(e) ==
  LET p == server[e] IN
  /\ cli[e] = "post"
  /\ proc[p] \in Answering /\ saving[p] = "no"
  /\ IF e \in known[p] THEN UNCHANGED <<storeVars, fileVars>>
                       ELSE StartSave(p, known[p] \cup {e}, e)
  /\ cli' = [cli EXCEPT ![e] = "done"]
  /\ UNCHANGED <<proc, path, server, historyVars, setup>>

\* AddGroupDevice adds and saves, unless the member is there.
Handle(e) ==
  LET p == server[e] IN
  /\ cli[e] = "post"
  /\ proc[p] \in Answering /\ saving[p] = "no"
  /\ IF e \in known[p]
       THEN cli' = [cli EXCEPT ![e] = "done"] /\ UNCHANGED <<storeVars, fileVars>>
       ELSE StartSave(p, known[p] \cup {e}, e) /\ UNCHANGED cli
  /\ UNCHANGED <<proc, path, server, historyVars, setup>>

\* The answer is written once the store has returned.
Answer(e) ==
  /\ cli[e] = "done"
  /\ Answered(e, "ok")

\* The user tries a command that failed again.
Again(e) ==
  /\ cli[e] = "err"
  /\ cli' = [cli EXCEPT ![e] = "idle"]
  /\ UNCHANGED <<proc, path, storeVars, fileVars, server, historyVars, setup>>

-----------------------------------------------------------------------------

SaveStep(p) == WriteTemp(p) \/ Rename(p) \/ SaveFails(p)

StartStep(p) ==
  DropRoutes(p) \/ Stat(p) \/ Remove(p) \/ Listen(p) \/ Chmod(p) \/ StartFails(p)

ProcStep(p) ==
  \/ Begin(p) \/ StartStep(p) \/ Shutdown(p) \/ Exit(p) \/ Crash(p)
  \/ SaveStep(p) \/ BackgroundSave(p)

CliStep(e) ==
  Check(e) \/ Checked(e) \/ Post(e) \/ Handle(e) \/ Answer(e) \/ Again(e)

DaemonNext == (\E p \in Daemons : ProcStep(p)) \/ (\E e \in Edits : CliStep(e))

DaemonSpec == DaemonInit /\ [][DaemonNext]_daemonVars

\* systemd restarts what has failed (Restart=on-failure), a process runs on, and
\* a handler gets the store's lock in the end, as a sync.RWMutex sees to.
DaemonFairness ==
  /\ \A p \in Daemons :
       WF_daemonVars((proc[p] \in Fallen /\ Begin(p)) \/ StartStep(p) \/ SaveStep(p))
  /\ \A e \in Edits :
       SF_daemonVars(Checked(e) \/ Post(e) \/ Handle(e) \/ Answer(e))

Crashes == \E p \in Daemons : Crash(p)

-----------------------------------------------------------------------------
(* Properties *)

\* As long as one daemon at a time has run, the state file can be read, so a
\* daemon can be started, whenever the last one was killed.
AlwaysReadable == ~mixed => file # Garbled

\* As long as one daemon at a time has run, an edit that was answered is in the
\* file, unless the save that was to put it there has failed: it outlives
\* crashes at every step of later saves and of later starts.
AnsweredIsSaved ==
  ~mixed => \A e \in Edits \ risky : cli[e] = "ok" => e \in file

\* A daemon that serves, and that no other has run next to, is the one the
\* path leads to, whatever earlier daemons have left there, alone or not.
AloneIsReachable == \A p \in alone : proc[p] = "serving" => path = p

\* What the state file holds, and what the daemon knows or the next one will.
OnDisk == IF file = Missing THEN {} ELSE file

InMemory == IF Running = {} THEN OnDisk ELSE UNION {known[p] : p \in Running}

Promise == INSTANCE Durability WITH
  stored <- OnDisk,
  known <- InMemory,
  open <- {e \in Edits : cli[e] \in {"post", "done"}},
  answered <- {e \in Edits : cli[e] = "ok"},
  excused <- risky,
  shared <- mixed

\* Writing a file of its own and renaming it makes a save one step, however the
\* daemon ends and whatever a start does with the file: edits are stored all
\* together, and none is lost that was, or invented, or answered too early.
ImplementsDurability == Promise!Spec

\* If daemons crash only so often and never run two at a time, one that has
\* failed comes up again and has the path.
FailedRecovers ==
  ([]~mixed /\ <>[][~Crashes]_daemonVars) =>
    \A p \in Daemons : proc[p] \in Fallen ~> path = p

\* A command that was sent is answered or fails, also when the daemon it
\* was sent to never came to serve, and with two daemons.
CommandsEnd == \A e \in Edits : cli[e] \in CliWaits ~> cli[e] \in {"checked", "ok", "err"}

=============================================================================
