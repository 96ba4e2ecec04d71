------------------------------ MODULE MCGroups ------------------------------
(* Instances of Groups for TLC: two clients and one group. *)
EXTENDS Groups

CONSTANTS t1, t2, everywhere, d1, d2, d3

Clients == {t1, t2}
AllDevices == {d1, d2, d3}

Changing(kind, devices) ==
  {[kind |-> kind, name |-> everywhere, device |-> d] : d \in devices}

Creating(lists) ==
  {[kind |-> "create", name |-> everywhere, list |-> l] : l \in lists}

Playing == {[kind |-> "play", name |-> everywhere]}

\* Every kind of request; one of the lists names a device twice.
AllRequests ==
  Playing \cup Creating({<<d1, d2>>, <<d2, d2, d1>>})
    \cup Changing("add", {d2, d3}) \cup Changing("remove", {d1, d2})

\* A list read from the state file, with and without cells to spare.
AllSaved == {[array |-> <<d1, d2, d3>>, len |-> 3],
             [array |-> <<d3, d1, Blank, Blank>>, len |-> 2]}

\* A client that plays the group, and one that removes devices from it.
RemoveAndPlay == Playing \cup Changing("remove", {d1})

Symmetric == Permutations(Threads)
=============================================================================
