------------------------------- MODULE MCDesktop -------------------------------
(***************************************************************************)
(* The instance of Daemon and Desktop for TLC.  Two units and one command, *)
(* one unit and two commands, or one unit, one command and a window: the   *)
(* product of all of them has twenty million states and more.              *)
(***************************************************************************)
EXTENDS Desktop, TLC

CONSTANTS user, system, a, b

CrashAndDisk == {"crash", "disk"}

TwoUnits == [units |-> {user, system}, commands |-> {a}, window |-> FALSE]
TwoCommands == [units |-> {user}, commands |-> {a, b}, window |-> FALSE]
Window == [units |-> {user}, commands |-> {a}, window |-> TRUE]

ThreeSetups == {TwoUnits, TwoCommands, Window}
=============================================================================
