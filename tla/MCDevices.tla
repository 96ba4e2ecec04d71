----------------------------- MODULE MCDevices -----------------------------
(* Instances of Devices for TLC: two receivers that change their addresses. *)
EXTENDS Devices

CONSTANTS p, q, a1, a2, b1, b2, pc, pp, qc, qp

TwoIds == p :> ("airplay" :> pc @@ "raop" :> pp) @@
          q :> ("airplay" :> qc @@ "raop" :> qp)

\* IDs with colons come first.
ColonsFirst == pc :> 2 @@ qc :> 2 @@ pp :> 1 @@ qp :> 1

\* No receiver gets an address that another one has had.
OwnAddresses == p :> {a1, a2} @@ q :> {b1, b2}

Listed(i, a, r, protocols) ==
  [id |-> i, address |-> a, name |-> r, protocols |-> protocols]

\* Nothing; p under the ID of its raop service and q; p twice at one address.
SomeSaved ==
  LET none == [i \in Ids |-> NoDevice] IN
  {none,
   [none EXCEPT ![pp] = Listed(pp, a2, p, Services), ![qc] = Listed(qc, b1, q, Services)],
   [none EXCEPT ![pp] = Listed(pp, a1, p, {"raop"}), ![pc] = Listed(pc, a1, p, {"airplay"})]}
=============================================================================
