------------------------------- MODULE Playback -------------------------------
(***************************************************************************)
(* What the manager promises its callers, without modules, records and     *)
(* pactl: one operation at a time, and the sinks that are heard.  A sink   *)
(* begins to be heard only through a Route or a Resume of a device that    *)
(* matches it; an Unroute that returns without an error has silenced the   *)
(* sink it found for its device.  A sink may fall silent at any time: the  *)
(* server drops streams.                                                   *)
(***************************************************************************)
CONSTANTS
  Threads, NoThread,
  Sinks, NoSink,
  Devices, NoDevice,
  Match,        \* Match[d]: the sinks device d may be played on
  OpKinds       \* the operations

VARIABLES
  current,      \* the operation under way
  heard,        \* the sinks that are heard
  returned      \* the threads whose operation has returned to them

playback == <<current, heard, returned>>

Operation(t, o, d) ==
  [by |-> t, op |-> o, dev |-> d, aim |-> NoSink, res |-> "ok"]

\* No operation is under way.
Nothing == Operation(NoThread, "none", NoDevice)

PlaybackInit ==
  /\ current = Nothing
  /\ heard \subseteq Sinks
  /\ returned = {}

\* An operation begins when no other is under way.
Begin ==
  /\ current = Nothing
  /\ \E t \in Threads \ returned, o \in OpKinds, d \in Devices \cup {NoDevice} :
       current' = Operation(t, o, d)
  /\ UNCHANGED <<heard, returned>>

\* It finds the sink it is aimed at: one, and once.
Aim ==
  /\ current.dev \in Devices
  /\ current.aim = NoSink
  /\ \E s \in Match[current.dev] : current' = [current EXCEPT !.aim = s]
  /\ UNCHANGED <<heard, returned>>

\* What an operation may make heard.
Playable == IF current.op \in {"route", "resume"} THEN {current.aim} ELSE {}

\* It makes its sink heard, silences sinks, fails, or does several of these.
Work ==
  /\ current # Nothing
  /\ \/ UNCHANGED current
     \/ current' = [current EXCEPT !.res = "err"]
  /\ heard' \subseteq heard \cup Playable
  /\ UNCHANGED returned

\* It returns.  An Unroute that has not failed has silenced its sink.
Return ==
  /\ current # Nothing
  /\ current.op = "unroute" /\ current.res = "ok" => current.aim \notin heard
  /\ current' = Nothing
  /\ returned' = returned \cup {current.by}
  /\ UNCHANGED heard

\* The caller goes on.
Leave ==
  /\ \E t \in returned : returned' = returned \ {t}
  /\ UNCHANGED <<current, heard>>

\* The server, or a daemon that stops, silences sinks.
FallSilent ==
  /\ heard' \subseteq heard
  /\ UNCHANGED <<current, returned>>

\* The daemon ends: nothing returns, and what is heard goes on.
Abandon ==
  /\ current' = Nothing
  /\ returned' = {}
  /\ UNCHANGED heard

PlaybackNext ==
  Begin \/ Aim \/ Work \/ Return \/ Leave \/ FallSilent \/ Abandon

PlaybackSpec == PlaybackInit /\ [][PlaybackNext]_playback

=============================================================================
