----------------------------- MODULE GroupList -----------------------------
(***************************************************************************)
(* What a client may rely on when it changes groups: a group is a list of  *)
(* devices, and each request takes effect in one step between its arrival  *)
(* and its answer.                                                         *)
(***************************************************************************)
EXTENDS SequencesExt, Removal

CONSTANTS Threads, Names, Devices, Requests, NoGroup, NoRequest

VARIABLES
  members,      \* members[n]: the list of group n, or NoGroup
  pending       \* pending[t]: the request of t that has yet to take effect

Init ==
  /\ members \in [Names -> Seq(Devices) \cup {NoGroup}]
  /\ pending = [t \in Threads |-> NoRequest]

Ask(t) ==
  /\ pending[t] = NoRequest
  /\ \E r \in Requests : pending' = [pending EXCEPT ![t] = r]
  /\ UNCHANGED members

\* The list that a request leaves behind; only "create" makes a group.
Outcome(r, list) ==
  CASE r.kind = "create" -> r.list
    [] r.kind = "add" /\ list # NoGroup /\ ~Contains(list, r.device) ->
         Append(list, r.device)
    [] r.kind = "remove" /\ list # NoGroup -> Without(list, r.device)
    [] OTHER -> list

Perform(t) ==
  /\ pending[t] # NoRequest
  /\ LET r == pending[t] IN members' = [members EXCEPT ![r.name] = Outcome(r, @)]
  /\ pending' = [pending EXCEPT ![t] = NoRequest]

Next == \E t \in Threads : Ask(t) \/ Perform(t)

Spec == Init /\ [][Next]_<<members, pending>>
=============================================================================
