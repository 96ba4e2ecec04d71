-------------------------------- MODULE Desktop --------------------------------
(***************************************************************************)
(* The desktop client (src/cmd/tuxplay-gui/src/main.rs, api.rs): a window  *)
(* that asks for the status every five seconds, each time in a thread of   *)
(* its own that gives up after five seconds, and shows what the threads    *)
(* send it in the order in which they do.                                  *)
(*                                                                         *)
(* Threads are not counted: a status in flight stands for any number of    *)
(* equal ones.                                                             *)
(***************************************************************************)
EXTENDS Daemon

CONSTANTS Blank, Problem  \* what the window shows before any message, and for an error

ASSUME DesktopAssumption ==
  Blank # Problem /\ {Blank, Problem} \cap SUBSET Edits = {}

VARIABLES
  asked,        \* the daemons that have a status request of the window's
  inFlight,     \* the answers that threads have yet to send to the window
  shown         \* what the window shows

windowVars == <<asked, inFlight, shown>>
desktopVars == <<daemonVars, windowVars>>

Shows == (SUBSET Edits) \cup {Blank, Problem}

DesktopTypeOK ==
  /\ DaemonTypeOK
  /\ asked \subseteq Daemons
  /\ inFlight \subseteq Shows \ {Blank}
  /\ shown \in Shows

DesktopInit ==
  /\ DaemonInit
  /\ asked = {}
  /\ inFlight = {}
  /\ shown = Blank

\* A daemon moves.  Requests to one that is over get an error.
DaemonMoves ==
  /\ DaemonNext
  /\ LET over == {p \in asked : proc'[p] \notin Up} IN
       /\ asked' = asked \ over
       /\ inFlight' = inFlight \cup (IF over = {} THEN {} ELSE {Problem})
  /\ UNCHANGED shown

\* Defect: the timer's callback does not ask to be called again.
AskMutant ==
  /\ setup.window /\ shown = Blank
  /\ IF path \in Daemons
       THEN asked' = asked \cup {path} /\ UNCHANGED inFlight
       ELSE inFlight' = inFlight \cup {Problem} /\ UNCHANGED asked
  /\ UNCHANGED <<daemonVars, shown>>

\* request_status: the timer, the button and the start ask in a new thread.
Ask ==
  /\ setup.window
  /\ IF path \in Daemons
       THEN asked' = asked \cup {path} /\ UNCHANGED inFlight
       ELSE inFlight' = inFlight \cup {Problem} /\ UNCHANGED asked
  /\ UNCHANGED <<daemonVars, shown>>

\* handleStatus takes its snapshot.
Snapshot(p) ==
  /\ p \in asked
  /\ proc[p] \in Answering /\ saving[p] = "no"
  /\ inFlight' = inFlight \cup {known[p]}
  /\ asked' \in {asked, asked \ {p}}
  /\ UNCHANGED <<daemonVars, shown>>

\* A thread's time is up before it has its answer.
TimeOut ==
  /\ \E p \in asked : asked' \in {asked, asked \ {p}}
  /\ inFlight' = inFlight \cup {Problem}
  /\ UNCHANGED <<daemonVars, shown>>

\* The window takes a message and shows it; it was the last of its kind or not.
Show(status, rest) ==
  /\ status \in inFlight
  /\ shown' = status
  /\ inFlight' = rest
  /\ UNCHANGED <<daemonVars, asked>>

WindowStep ==
  \/ Ask \/ TimeOut
  \/ \E p \in Daemons : Snapshot(p)
  \/ \E status \in inFlight :
       Show(status, inFlight) \/ Show(status, inFlight \ {status})

DesktopNext == DaemonMoves \/ WindowStep

DesktopSpec == DesktopInit /\ [][DesktopNext]_desktopVars

\* The timer goes on, a status is answered, and of equal messages there are only
\* so many.
WindowFairness ==
  /\ WF_desktopVars(Ask)
  /\ \A p \in Daemons : SF_desktopVars(Snapshot(p))
  /\ \A status \in Shows \ {Blank} : WF_desktopVars(Show(status, inFlight \ {status}))

FairDesktopSpec == DesktopSpec /\ DaemonFairness /\ WindowFairness

-----------------------------------------------------------------------------
(* Properties *)

\* A window that is open shows the daemon's state in the end, and goes on showing
\* it, once there is a daemon that stays reachable and answers in time: whatever
\* daemon it showed before, and although statuses arrive in any order, an
\* outdated one after a newer one included.
WindowCatchesUp ==
  (/\ setup.window
   /\ <>[](path \in Daemons /\ proc[path] = "serving")
   /\ <>[][~TimeOut]_desktopVars)
    => <>[](path \in Daemons /\ shown = known[path])

=============================================================================
