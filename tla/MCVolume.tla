------------------------------- MODULE MCVolume -------------------------------
(***************************************************************************)
(* The instance of Volume for TLC: the client and the devices of           *)
(* MCController, and two volumes, of which 0 is the one that the code      *)
(* takes for "not known".                                                  *)
(***************************************************************************)
EXTENDS Volume, MCController

SilentOrHalf == {0, 50}

\* The volume of s2 does not change.
EitherOrHalf == {s1 :> [volume |-> v, muted |-> FALSE] @@
                 s2 :> [volume |-> 50, muted |-> FALSE] : v \in SilentOrHalf}

\* Volumes that nobody changes.
Half == {[s \in Sinks |-> [volume |-> 50, muted |-> FALSE]]}
=============================================================================
