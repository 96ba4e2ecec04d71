----------------------------- MODULE Durability -----------------------------
(***************************************************************************)
(* What commands that add members to groups may rely on, as long as one    *)
(* daemon at a time has run: an edit is made because a command asked for   *)
(* it, is stored whole with all others or not at all, and is answered when *)
(* it is stored or a failure to store it is on record.  A daemon may end   *)
(* at any time, and forgets what is not stored.  Nothing is promised once  *)
(* two daemons have shared the store.                                      *)
(***************************************************************************)
CONSTANT Edits

VARIABLES
  stored,       \* what outlives the daemon
  known,        \* what it knows; what the next one will know, if there is none
  open,         \* edits whose command waits for its answer
  answered,
  excused,      \* edits that the daemon last failed to store
  shared        \* whether two daemons have ever run at once

commands == <<open, answered>>
vars == <<stored, known, commands, excused, shared>>

Init ==
  /\ stored = {} /\ known = {}
  /\ open = {} /\ answered = {}
  /\ excused = {}
  /\ shared = FALSE

Ask(e) ==
  /\ open' = open \cup {e}
  /\ UNCHANGED <<stored, known, answered, excused, shared>>

Learn(e) ==
  /\ e \in open
  /\ known' = known \cup {e}
  /\ UNCHANGED <<stored, commands, excused, shared>>

Store ==
  /\ stored' = known
  /\ excused' = excused \ known
  /\ UNCHANGED <<known, commands, shared>>

FailToStore ==
  /\ excused' = excused \cup (known \ stored)
  /\ UNCHANGED <<stored, known, commands, shared>>

Answer(e) ==
  /\ e \in open /\ e \in stored \cup excused
  /\ open' = open \ {e}
  /\ answered' = answered \cup {e}
  /\ UNCHANGED <<stored, known, excused, shared>>

\* The daemon ends, and with it the commands that wait.
Forget ==
  /\ known' = stored
  /\ open' \subseteq open
  /\ UNCHANGED <<stored, answered, excused, shared>>

Share == shared' = TRUE

Next ==
  \/ \E e \in Edits : Ask(e) \/ Learn(e) \/ Answer(e)
  \/ Store \/ FailToStore \/ Forget \/ Share

Spec == Init /\ [][Next]_vars

-----------------------------------------------------------------------------
(* What follows *)

\* An edit that was answered is stored, unless the daemon last failed to store it.
AnsweredIsStored == ~shared => answered \ excused \subseteq stored

\* What is stored stays stored, whenever the daemon ends and whatever fails.
NothingIsLost == [][~shared' => stored \subseteq stored']_stored

=============================================================================
