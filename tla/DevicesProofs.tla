---------------------------- MODULE DevicesProofs ----------------------------
(***************************************************************************)
(* Proofs about the list of devices, for any receivers, addresses and IDs, *)
(* and announcements in any order: after every store operation each        *)
(* address has one device, and when receivers keep to addresses and IDs of *)
(* their own, each is listed once and keeps its preferred ID.  At the end, *)
(* that the loop over the map, in every order, does what the steps take it *)
(* to do at once.                                                          *)
(***************************************************************************)
EXTENDS Devices, FiniteSetTheorems, SequenceTheorems, WellFoundedInduction, TLAPS

-----------------------------------------------------------------------------
(* Lists of devices *)

\* Every device is under its own ID.
Keyed(devs) ==
  /\ devs \in [Ids -> Device \cup {NoDevice}]
  /\ \A i \in Present(devs) : devs[i].id = i

\* No two devices have the same address.
Apart(devs) ==
  \A i, j \in Present(devs) : devs[i].address = devs[j].address => i = j

\* What the joined devices of an address have of each of them.
LEMMA JoinedOne ==
  ASSUME NEW devs, Keyed(devs), NEW a, NEW one \in Joined(devs, a)
  PROVE  /\ one = [key |-> one.key, device |-> one.device]
         /\ one.key \in Preferred(At(devs, a))
         /\ one.device \in Device /\ one.device.id = one.key
         /\ one.device.address = a
         /\ \E last \in At(devs, a) : one.device.name = devs[last].name
         /\ one.device.protocols = UNION {devs[i].protocols : i \in At(devs, a)}
<1> DEFINE S == At(devs, a)
<1>1. PICK k \in Preferred(S), last \in S : one = Joint(devs, S, k, last)
  BY DEF Joined
<1>2. /\ S \subseteq Ids /\ Preferred(S) \subseteq S
      /\ \A i \in S : devs[i] \in Device /\ devs[i].address = a
  BY DEF At, Present, Preferred, Keyed
<1>3. UNION {devs[i].protocols : i \in S} \subseteq Services
  BY <1>2 DEF Device
<1>4. devs[last] \in Device /\ k \in Ids
  BY <1>1, <1>2
<1>5. one.key = k /\ one.device = [devs[last] EXCEPT !.id = k,
                                     !.protocols = UNION {devs[i].protocols : i \in S}]
  BY <1>1 DEF Joint
<1> QED
  BY <1>1, <1>2, <1>3, <1>4, <1>5 DEF Joint, Device

\* A normalized list has a joined device for each address, and nothing else.
LEMMA NormalizedLists ==
  ASSUME NEW devs, Keyed(devs), NEW new \in Normalized(devs)
  PROVE  /\ Keyed(new) /\ Apart(new)
         /\ \A i \in Present(new) :
              [key |-> i, device |-> new[i]] \in Joined(devs, new[i].address)
         /\ \A j \in Present(devs) :
              \E i \in Present(new) : new[i].address = devs[j].address
<1> DEFINE used == {devs[i].address : i \in Present(devs)}
           any == UNION {Joined(devs, a) : a \in used}
<1>1. PICK pick \in [used -> any] :
        /\ \A a \in used : pick[a].device.address = a
        /\ new = Stored({pick[a] : a \in used})
  BY DEF Normalized
<1> HIDE DEF any
<1> DEFINE S == {pick[a] : a \in used}
<1>2. ASSUME NEW a \in used
      PROVE  pick[a] \in Joined(devs, a)
  <2>1. PICK b \in used : pick[a] \in Joined(devs, b)
    BY <1>1 DEF any
  <2>2. b = a
    BY <1>1, <2>1, JoinedOne
  <2> QED
    BY <2>1, <2>2
<1>3. ASSUME NEW a \in used
      PROVE  /\ pick[a] = [key |-> pick[a].key, device |-> pick[a].device]
             /\ pick[a].key \in At(devs, a)
             /\ pick[a].device \in Device /\ pick[a].device.id = pick[a].key
  BY <1>2, JoinedOne DEF Preferred
<1>4. ASSUME NEW a \in used
      PROVE  new[pick[a].key] = pick[a].device /\ pick[a].key \in Present(new)
  <2> DEFINE d == CHOOSE e \in S : e.key = pick[a].key
  <2>6. pick[a] \in S
    BY <1>4
  <2>7. \E e \in S : e.key = pick[a].key
    BY <2>6
  <2>1. d \in S /\ d.key = pick[a].key
    BY <2>7
  <2>2. PICK b \in used : d = pick[b]
    BY <2>1
  <2>3. b = a
    <3>1. pick[b].key \in At(devs, b) /\ pick[a].key \in At(devs, a)
      BY <1>3, <2>2
    <3>2. pick[b].key = pick[a].key
      BY <2>1, <2>2
    <3> QED
      BY <3>1, <3>2 DEF At
  <2>4. pick[a].key \in Ids
    BY <1>3 DEF At, Present
  <2>5. new[pick[a].key] = d.device
    BY <1>1, <2>1, <2>4 DEF Stored
  <2> QED
    BY <1>3, <2>2, <2>3, <2>4, <2>5, DevicesAssumption DEF Present
<1>5. ASSUME NEW i \in Present(new)
      PROVE  \E a \in used : i = pick[a].key
  <2>1. i \in Ids /\ new[i] # NoDevice
    BY DEF Present
  <2>2. \E d \in S : d.key = i
    BY <1>1, <2>1 DEF Stored
  <2> QED
    BY <2>2
<1>6. new \in [Ids -> Device \cup {NoDevice}]
  <2>1. new = [i \in Ids |-> new[i]]
    BY <1>1 DEF Stored
  <2>2. ASSUME NEW i \in Ids, i \in Present(new) PROVE new[i] \in Device
    <3>1. PICK a \in used : i = pick[a].key
      BY <2>2, <1>5
    <3> QED
      BY <1>3, <1>4, <3>1
  <2>3. ASSUME NEW i \in Ids PROVE new[i] \in Device \cup {NoDevice}
    BY <2>2 DEF Present
  <2> QED
    BY <2>1, <2>3
<1>7. Keyed(new)
  <2>1. ASSUME NEW i \in Present(new) PROVE new[i].id = i
    <3>1. PICK a \in used : i = pick[a].key
      BY <1>5
    <3> QED
      BY <1>3, <1>4, <3>1
  <2> QED
    BY <1>6, <2>1 DEF Keyed
<1>8. Apart(new)
  BY <1>1, <1>4, <1>5 DEF Apart
<1>9. ASSUME NEW i \in Present(new)
      PROVE  [key |-> i, device |-> new[i]] \in Joined(devs, new[i].address)
  <2>1. PICK a \in used : i = pick[a].key
    BY <1>5
  <2>2. new[i] = pick[a].device /\ new[i].address = a
    BY <1>1, <1>4, <2>1
  <2> QED
    BY <1>2, <1>3, <2>1, <2>2
<1>10. ASSUME NEW j \in Present(devs)
       PROVE  \E i \in Present(new) : new[i].address = devs[j].address
  <2>1. devs[j].address \in used
    OBVIOUS
  <2>2. new[pick[devs[j].address].key].address = devs[j].address
    BY <1>1, <1>4, <2>1
  <2> QED
    BY <1>4, <2>1, <2>2
<1> QED
  BY <1>7, <1>8, <1>9, <1>10


-----------------------------------------------------------------------------
(* Receivers that keep to themselves *)

IdsOf(p) == {IdOf[p][s] : s \in Services}

\* Every device has an ID and an address of the receiver it is named for.
Named(devs) ==
  \A i \in Present(devs) :
    i \in IdsOf(devs[i].name) /\ devs[i].address \in Own[devs[i].name]

\* The daemon saves each device under its ID, and never two receivers as one.
SavedKeyed == \A list \in Saved : Keyed(list)
SavedNamed == \A list \in Saved : Keyed(list) /\ Named(list)

\* No receiver gets an address that another one may get, or announces its ID.
SeparateReceivers ==
  \A p, q \in Receivers :
    p # q => Own[p] \cap Own[q] = {} /\ IdsOf(p) \cap IdsOf(q) = {}

\* Of the IDs of a receiver preferredDeviceID prefers one, whichever it meets first.
WeightsDiffer ==
  \A p \in Receivers : \A i, j \in IdsOf(p) : Weight[i] = Weight[j] => i = j

\* A device that is stored, and the services it is announced by.
LEMMA PresentDevice ==
  ASSUME NEW devs, Keyed(devs), NEW i \in Present(devs)
  PROVE  /\ i \in Ids /\ devs[i] \in Device /\ devs[i].id = i
         /\ devs[i].name \in Receivers /\ devs[i].protocols \subseteq Services
  BY DEF Keyed, Present, Device

\* An entry goes to one device, which may be new, and leaves the others alone.
LEMMA UpsertedOne ==
  ASSUME NEW d \in Device, Keyed(devices), NEW list \in Upserted(d)
  PROVE  /\ Keyed(list)
         /\ \E i \in Ids :
              /\ Present(list) = Present(devices) \cup {i}
              /\ \A j \in Present(list) \ {i} : list[j] = devices[j]
              /\ i = d.id \/ (d.id \notin Present(devices) /\ i \in At(devices, d.address))
              /\ list[i].address = d.address /\ list[i].name = d.name
              /\ d.protocols \subseteq list[i].protocols
              /\ i \in Present(devices) => devices[i].protocols \subseteq list[i].protocols
<1> DEFINE known == IF d.id \in Present(devices) THEN {d.id} ELSE At(devices, d.address)
<1>1. d # NoDevice /\ d.id \in Ids
  BY DevicesAssumption DEF Device
<1>2. devices \in [Ids -> Device \cup {NoDevice}]
  BY DEF Keyed
<1>3. CASE known = {}
  <2>1. list = [devices EXCEPT ![d.id] = d]
    BY <1>3 DEF Upserted
  <2>2. list[d.id] = d /\ \A j \in Ids \ {d.id} : list[j] = devices[j]
    BY <1>1, <1>2, <2>1
  <2>3. Present(list) = Present(devices) \cup {d.id}
    BY <1>1, <2>2 DEF Present
  <2>4. Keyed(list)
    BY <1>1, <1>2, <2>1, <2>2, <2>3 DEF Keyed, Present
  <2>5. d.id \notin Present(devices)
    BY <1>3
  <2> QED
    BY <1>1, <2>2, <2>3, <2>4, <2>5 DEF Present
<1>4. CASE known # {}
  <2>1. PICK i \in known : list = [devices EXCEPT ![i] = Merge(devices[i], d)]
    BY <1>4 DEF Upserted
  <2>2. i \in Present(devices)
    BY <2>1 DEF At
  <2>3. /\ i \in Ids /\ devices[i] \in Device /\ devices[i].id = i
    BY <2>2, PresentDevice
  <2>4. /\ Merge(devices[i], d) \in Device /\ Merge(devices[i], d).id = i
        /\ Merge(devices[i], d).address = d.address /\ Merge(devices[i], d).name = d.name
        /\ Merge(devices[i], d).protocols = devices[i].protocols \cup d.protocols
    BY <2>3 DEF Merge, Device
  <2>5. list[i] = Merge(devices[i], d) /\ \A j \in Ids \ {i} : list[j] = devices[j]
    BY <1>2, <2>1, <2>3
  <2>6. Present(list) = Present(devices) \cup {i}
    BY <2>2, <2>3, <2>4, <2>5, DevicesAssumption DEF Present
  <2>7. Keyed(list)
    <3>1. list \in [Ids -> Device \cup {NoDevice}]
      BY <1>2, <2>1, <2>4
    <3>2. ASSUME NEW j \in Present(list) PROVE list[j].id = j
      BY <2>4, <2>5, <2>6, PresentDevice DEF Present
    <3> QED
      BY <3>1, <3>2 DEF Keyed
  <2>8. i = d.id \/ (d.id \notin Present(devices) /\ i \in At(devices, d.address))
    BY <2>1
  <2> QED
    BY <2>3, <2>4, <2>5, <2>6, <2>7, <2>8 DEF Present
<1> QED
  BY <1>3, <1>4

\* What an announcement of a receiver that keeps to itself does is about a device
\* of that receiver.
LEMMA UpsertedNamed ==
  ASSUME SeparateReceivers, Keyed(devices), Named(devices),
         NEW p \in Receivers, NEW s \in Services, NEW a \in Own[p],
         NEW list \in Upserted(Entry(p, s, a))
  PROVE  /\ Keyed(list) /\ Named(list)
         /\ \E i \in IdsOf(p) :
              /\ Present(list) = Present(devices) \cup {i}
              /\ \A j \in Present(list) \ {i} : list[j] = devices[j]
              /\ i = IdOf[p][s] \/ (IdOf[p][s] \notin Present(devices) /\ i \in At(devices, a))
              /\ list[i].address = a /\ list[i].name = p /\ s \in list[i].protocols
              /\ i \in Present(devices) => devices[i].protocols \subseteq list[i].protocols
<1> DEFINE d == Entry(p, s, a)
<1>1. /\ d \in Device /\ d.id = IdOf[p][s] /\ d.address = a /\ d.name = p /\ s \in d.protocols
  BY DevicesAssumption DEF Entry, Device
<1>2. PICK i \in Ids :
        /\ Present(list) = Present(devices) \cup {i}
        /\ \A j \in Present(list) \ {i} : list[j] = devices[j]
        /\ i = d.id \/ (d.id \notin Present(devices) /\ i \in At(devices, d.address))
        /\ list[i].address = d.address /\ list[i].name = d.name
        /\ d.protocols \subseteq list[i].protocols
        /\ i \in Present(devices) => devices[i].protocols \subseteq list[i].protocols
  BY <1>1, UpsertedOne
<1>3. i \in IdsOf(p)
  <2>1. CASE i = d.id
    BY <1>1, <2>1 DEF IdsOf
  <2>2. CASE i \in At(devices, a)
    <3>1. i \in Present(devices) /\ devices[i].address = a
      BY <2>2 DEF At
    <3>2. a \in Own[devices[i].name] /\ devices[i].name \in Receivers
      BY <3>1, PresentDevice DEF Named
    <3>3. devices[i].name = p
      BY <3>2 DEF SeparateReceivers
    <3> QED
      BY <3>1, <3>3 DEF Named
  <2> QED
    BY <1>1, <1>2, <2>1, <2>2
<1>4. Keyed(list)
  BY <1>1, UpsertedOne
<1>5. Named(list)
  BY <1>1, <1>2, <1>3 DEF Named
<1> QED
  BY <1>1, <1>2, <1>3, <1>4, <1>5

\* Merging the devices of an address joins those of one receiver, and keeps what is
\* known of it: under an ID that one of them had, with the protocols of all.
LEMMA NormalizedNamed ==
  ASSUME SeparateReceivers, NEW devs, Keyed(devs), Named(devs), NEW new \in Normalized(devs)
  PROVE  /\ Keyed(new) /\ Apart(new) /\ Named(new)
         /\ \A i \in Present(new) :
              i \in Present(devs) /\ new[i].address = devs[i].address
         /\ \A j \in Present(devs) : \E i \in Present(new) :
              /\ i \in Preferred(At(devs, devs[j].address))
              /\ devs[i].name = devs[j].name /\ new[i].name = devs[j].name
              /\ devs[j].protocols \subseteq new[i].protocols
<1>1. ASSUME NEW i \in Present(devs), NEW j \in Present(devs),
             devs[i].address = devs[j].address
      PROVE  devs[i].name = devs[j].name
  <2>1. devs[i].name \in Receivers /\ devs[j].name \in Receivers
    BY PresentDevice
  <2>2. devs[i].address \in Own[devs[i].name] \cap Own[devs[j].name]
    BY <1>1 DEF Named
  <2> QED
    BY <2>1, <2>2 DEF SeparateReceivers
<1>2. ASSUME NEW i \in Present(new)
      PROVE  /\ i \in Preferred(At(devs, new[i].address))
             /\ i \in Present(devs) /\ new[i].address = devs[i].address
             /\ new[i].name = devs[i].name
             /\ \A j \in At(devs, new[i].address) : devs[j].protocols \subseteq new[i].protocols
  <2> DEFINE one == [key |-> i, device |-> new[i]]
  <2>1. one \in Joined(devs, new[i].address)
    BY NormalizedLists
  <2>2. /\ one.key \in Preferred(At(devs, new[i].address))
        /\ \E last \in At(devs, new[i].address) : one.device.name = devs[last].name
        /\ one.device.protocols = UNION {devs[j].protocols : j \in At(devs, new[i].address)}
    BY <2>1, JoinedOne
  <2>3. i \in Present(devs) /\ devs[i].address = new[i].address
    BY <2>2 DEF Preferred, At
  <2>4. PICK last \in At(devs, new[i].address) : new[i].name = devs[last].name
    BY <2>2
  <2>5. new[i].name = devs[i].name
    BY <1>1, <2>3, <2>4 DEF At
  <2>6. \A j \in At(devs, new[i].address) : devs[j].protocols \subseteq new[i].protocols
    BY <2>2
  <2> QED
    BY <2>2, <2>3, <2>5, <2>6
<1>3. Keyed(new) /\ Apart(new)
  BY NormalizedLists
<1>4. Named(new)
  BY <1>2 DEF Named
<1>5. ASSUME NEW j \in Present(devs)
      PROVE  \E i \in Present(new) :
              /\ i \in Preferred(At(devs, devs[j].address))
              /\ devs[i].name = devs[j].name /\ new[i].name = devs[j].name
              /\ devs[j].protocols \subseteq new[i].protocols
  <2>1. PICK i \in Present(new) : new[i].address = devs[j].address
    BY NormalizedLists
  <2>2. j \in At(devs, new[i].address)
    BY <2>1 DEF At
  <2>3. devs[i].name = devs[j].name
    BY <1>1, <1>2, <2>1
  <2> QED
    BY <1>2, <2>1, <2>2, <2>3
<1> QED
  BY <1>2, <1>3, <1>4, <1>5

\* A receiver's preferred ID stays when the devices of its address are joined.
LEMMA PreferredKept ==
  ASSUME SeparateReceivers, WeightsDiffer, NEW devs, Keyed(devs), Named(devs),
         NEW new \in Normalized(devs), NEW j \in Present(devs),
         \A i \in Ids : Weight[i] <= Weight[j]
  PROVE  j \in Present(new)
<1>1. PICK i \in Present(new) :
        i \in Preferred(At(devs, devs[j].address)) /\ devs[i].name = devs[j].name
  BY NormalizedNamed
<1>2. j \in At(devs, devs[j].address)
  BY DEF At
<1>3. PreferredID(i, j) = i /\ i \in Present(devs)
  BY <1>1, <1>2 DEF Preferred, At
<1>4. i \in IdsOf(devs[i].name) /\ j \in IdsOf(devs[i].name) /\ devs[i].name \in Receivers
  BY <1>1, <1>3, PresentDevice DEF Named
<1>5. Weight[i] \in Nat /\ Weight[j] \in Nat /\ Weight[i] <= Weight[j]
  BY <1>3, DevicesAssumption DEF Present
<1>6. i = j \/ Weight[i] = Weight[j]
  BY <1>3, <1>5 DEF PreferredID
<1>7. i = j
  BY <1>4, <1>6 DEF WeightsDiffer
<1> QED
  BY <1>1, <1>7

-----------------------------------------------------------------------------
(* Every device under its ID, and one for each address *)

\* What the receivers announce is addresses of their own.
Announced ==
  /\ address \in [Receivers -> Addresses]
  /\ heard \in [Receivers -> [Services -> Seq(Addresses)]]
  /\ \A p \in Receivers : address[p] \in Own[p]
  /\ \A p \in Receivers, s \in Services : heard[p][s] \in Seq(Own[p])

ListInv == DevicesTypeOK /\ Announced /\ Apart(devices)

LEMMA OwnAnnounced ==
  ASSUME NEW h, h = [p \in Receivers |-> h[p]],
         \A p \in Receivers : h[p] \in [Services -> Seq(Own[p])]
  PROVE  /\ h \in [Receivers -> [Services -> Seq(Addresses)]]
         /\ \A p \in Receivers, s \in Services : h[p][s] \in Seq(Own[p])
<1>1. ASSUME NEW p \in Receivers PROVE h[p] \in [Services -> Seq(Addresses)]
  <2>1. Own[p] \subseteq Addresses
    BY DevicesAssumption
  <2>2. \A s \in Services : h[p][s] \in Seq(Addresses)
    BY <2>1
  <2> QED
    BY <2>2
<1> QED
  BY <1>1

LEMMA KeyedTyped ==
  ASSUME Keyed(devices)
  PROVE  /\ devices \in [Ids -> Device \cup {NoDevice}]
         /\ \A i \in Ids : devices[i] # NoDevice => devices[i].id = i
  BY DEF Keyed, Present

LEMMA ListInvInit ==
  ASSUME SavedKeyed, Init
  PROVE  ListInv
<1>1. PICK list \in Saved : devices \in Normalized(list)
  BY DEF Init
<1>2. Keyed(devices) /\ Apart(devices)
  BY <1>1, NormalizedLists DEF SavedKeyed
<1>3. address \in [Receivers -> Addresses] /\ \A p \in Receivers : address[p] \in Own[p]
  BY DevicesAssumption DEF Init
<1>4. \A p \in Receivers, s \in Services : heard[p][s] = <<>>
  BY DEF Init
<1>5. /\ heard \in [Receivers -> [Services -> Seq(Addresses)]]
      /\ \A p \in Receivers, s \in Services : heard[p][s] \in Seq(Own[p])
  <2>1. heard = [p \in Receivers |-> [s \in Services |-> <<>>]]
    BY DEF Init
  <2>2. \A p \in Receivers : <<>> \in Seq(Addresses) /\ <<>> \in Seq(Own[p])
    OBVIOUS
  <2> QED
    BY <1>4, <2>1, <2>2
<1>6. browser \in [Services -> {"new", "starting", "open", "failed"}] /\ live \in BOOLEAN
  BY DEF Init
<1> QED
  BY <1>2, <1>3, <1>5, <1>6, KeyedTyped DEF ListInv, DevicesTypeOK, Announced

LEMMA ListInvNext ==
  ASSUME ListInv, [Next]_vars
  PROVE  ListInv'
<1>1. Keyed(devices) /\ Apart(devices)
  BY DEF ListInv, DevicesTypeOK, Keyed, Present
<1>2. /\ address \in [Receivers -> Addresses]
      /\ heard \in [Receivers -> [Services -> Seq(Addresses)]]
      /\ \A p \in Receivers : address[p] \in Own[p]
      /\ \A p \in Receivers, s \in Services : heard[p][s] \in Seq(Own[p])
      /\ browser \in [Services -> {"new", "starting", "open", "failed"}]
      /\ live \in BOOLEAN
  BY DEF ListInv, DevicesTypeOK, Announced
<1>3. \A p \in Receivers : heard[p] \in [Services -> Seq(Own[p])]
  <2>1. ASSUME NEW p \in Receivers PROVE heard[p] = [s \in Services |-> heard[p][s]]
    BY <1>2
  <2> QED
    BY <1>2, <2>1
<1>4. /\ browser' \in [Services -> {"new", "starting", "open", "failed"}]
      /\ live' \in BOOLEAN
  BY <1>2 DEF Next, vars, browsers, Run, GiveUp, Open, OpenFails, Announce, Browse, Services
<1>5. Announced'
  <2>1. CASE UNCHANGED <<address, heard>>
    BY <1>2, <2>1 DEF Announced
  <2>2. ASSUME NEW s \in Services, Open(s) PROVE Announced'
    <3>1. address' = address
      BY <2>2 DEF Open
    <3>2. heard' = [p \in Receivers |-> [heard[p] EXCEPT ![s] = Append(heard[p][s], address[p])]]
      BY <2>2 DEF Open
    <3>3. ASSUME NEW p \in Receivers PROVE heard'[p] \in [Services -> Seq(Own[p])]
      <4>1. heard[p] \in [Services -> Seq(Own[p])] /\ address[p] \in Own[p]
        BY <1>2, <1>3
      <4>2. Append(heard[p][s], address[p]) \in Seq(Own[p])
        BY <1>2, <4>1, AppendProperties
      <4>3. heard'[p] = [heard[p] EXCEPT ![s] = Append(heard[p][s], address[p])]
        BY <3>2
      <4> QED
        BY <4>1, <4>2, <4>3
    <3>4. heard' = [p \in Receivers |-> heard'[p]]
      BY <3>2
    <3> QED
      BY <1>2, <3>1, <3>3, <3>4, OwnAnnounced DEF Announced
  <2>3. ASSUME NEW p \in Receivers, NEW a \in Addresses, Announce(p, a) PROVE Announced'
    <3>1. a \in Own[p] /\ address' = [address EXCEPT ![p] = a]
      BY <2>3 DEF Announce
    <3>2. heard' = [heard EXCEPT ![p] =
            [s \in Services |-> IF browser[s] = "open" THEN Append(heard[p][s], a)
                                                       ELSE heard[p][s]]]
      BY <2>3 DEF Announce
    <3>3. ASSUME NEW q \in Receivers PROVE heard'[q] \in [Services -> Seq(Own[q])]
      <4>1. ASSUME NEW s \in Services
            PROVE  Append(heard[p][s], a) \in Seq(Own[p]) /\ heard[p][s] \in Seq(Own[p])
        BY <1>2, <3>1, AppendProperties
      <4>2. CASE q = p
        BY <1>2, <3>2, <4>1, <4>2
      <4>3. CASE q # p
        BY <1>2, <1>3, <3>2, <4>3
      <4> QED
        BY <4>2, <4>3
    <3>4. heard' = [q \in Receivers |-> heard'[q]]
      BY <1>2, <3>2
    <3>5. address' \in [Receivers -> Addresses] /\ \A q \in Receivers : address'[q] \in Own[q]
      BY <1>2, <3>1
    <3> QED
      BY <3>3, <3>4, <3>5, OwnAnnounced DEF Announced
  <2>4. ASSUME NEW p \in Receivers, NEW s \in Services, Browse(p, s) PROVE Announced'
    <3>1. address' = address /\ heard[p][s] # <<>>
      BY <2>4 DEF Browse
    <3>2. heard' = [heard EXCEPT ![p][s] = Tail(heard[p][s])]
      BY <2>4 DEF Browse
    <3>3. ASSUME NEW q \in Receivers PROVE heard'[q] \in [Services -> Seq(Own[q])]
      <4>1. Tail(heard[p][s]) \in Seq(Own[p])
        BY <1>2, <3>1, HeadTailProperties
      <4>2. CASE q = p
        <5>1. heard'[p] = [heard[p] EXCEPT ![s] = Tail(heard[p][s])]
          BY <1>2, <3>2
        <5>2. heard[p] \in [Services -> Seq(Own[p])]
          BY <1>3
        <5> QED
          BY <4>1, <4>2, <5>1, <5>2
      <4>3. CASE q # p
        BY <1>2, <1>3, <3>2, <4>3
      <4> QED
        BY <4>2, <4>3
    <3>4. heard' = [q \in Receivers |-> heard'[q]]
      BY <1>2, <3>2
    <3> QED
      BY <1>2, <3>1, <3>3, <3>4, OwnAnnounced DEF Announced
  <2> QED
    BY <2>1, <2>2, <2>3, <2>4 DEF Next, vars, browsers, Run, GiveUp, OpenFails
<1>6. Keyed(devices') /\ Apart(devices')
  <2>1. CASE UNCHANGED devices
    BY <1>1, <2>1 DEF Keyed, Apart, Present
  <2>2. ASSUME NEW p \in Receivers, NEW s \in Services, Browse(p, s)
        PROVE  Keyed(devices') /\ Apart(devices')
    <3>1. PICK list \in Upserted(Entry(p, s, Head(heard[p][s]))) : devices' \in Normalized(list)
      BY <2>2 DEF Browse
    <3>2. Head(heard[p][s]) \in Addresses
      BY <1>2, <2>2 DEF Browse
    <3>3. Entry(p, s, Head(heard[p][s])) \in Device
      BY <3>2, DevicesAssumption DEF Entry, Device
    <3>4. Keyed(list)
      BY <1>1, <3>1, <3>3, UpsertedOne
    <3> QED
      BY <3>1, <3>4, NormalizedLists
  <2> QED
    BY <2>1, <2>2 DEF Next, vars, browsers, Run, GiveUp, Open, OpenFails, Announce
<1> QED
  <2>1. Apart(devices)'
    BY <1>6 DEF Apart, Present
  <2>2. DevicesTypeOK'
    BY <1>4, <1>5, <1>6 DEF DevicesTypeOK, Announced, Keyed, Present
  <2> QED
    BY <1>5, <2>1, <2>2 DEF ListInv
LEMMA ListInvariant ==
  ASSUME SavedKeyed
  PROVE  Spec => []ListInv
<1>1. Init => ListInv
  BY ListInvInit
<1>2. ListInv /\ [Next]_vars => ListInv'
  BY ListInvNext
<1> QED
  BY <1>1, <1>2, PTL DEF Spec

\* DevicesTypeOK: every device is stored under its own ID.
THEOREM ListTyped ==
  ASSUME SavedKeyed
  PROVE  Spec => []DevicesTypeOK
<1>1. ListInv => DevicesTypeOK
  BY DEF ListInv
<1> QED
  BY <1>1, ListInvariant, PTL

\* OnePerAddress: after every store operation no two devices have the same address,
\* whatever the receivers announce, and although a merge may move a device to the
\* address of another.
THEOREM OneForEachAddress ==
  ASSUME SavedKeyed
  PROVE  Spec => []OnePerAddress
<1>1. ListInv => OnePerAddress
  BY DEF ListInv, OnePerAddress, Apart
<1> QED
  BY <1>1, ListInvariant, PTL


-----------------------------------------------------------------------------
(* Every receiver listed once *)

\* All that receiver p announced as service s is handled.
Settled(p, s) == browser[s] = "open" /\ heard[p][s] = <<>>

\* A browser that listens hears of a receiver's present address last.
LastHeard ==
  \A p \in Receivers, s \in Services :
    browser[s] = "open" /\ heard[p][s] # <<>> => heard[p][s][Len(heard[p][s])] = address[p]

\* A device whose services are settled has its receiver's address.  Until then an
\* announcement with an older one may move it, also when it has the ID of both.
AtAddress ==
  \A p \in Receivers : \A i \in Present(devices) \cap IdsOf(p) :
    (\A s \in Services : IdOf[p][s] = i => Settled(p, s)) => devices[i].address = address[p]

\* A service that is settled is one of a device of its receiver.
Shown ==
  \A p \in Receivers, s \in Services :
    Settled(p, s) => \E i \in Present(devices) \cap IdsOf(p) : s \in devices[i].protocols

ReceiverInv ==
  /\ ListInv
  /\ Named(devices)
  /\ LastHeard
  /\ AtAddress
  /\ Shown

LEMMA ReceiverInvInit ==
  ASSUME SeparateReceivers, SavedNamed, Init
  PROVE  ReceiverInv
<1>1. SavedKeyed
  BY DEF SavedNamed, SavedKeyed
<1>2. ListInv
  BY <1>1, ListInvInit
<1>3. PICK list \in Saved : devices \in Normalized(list)
  BY DEF Init
<1>4. Named(devices)
  BY <1>3, NormalizedNamed DEF SavedNamed
<1>5. \A s \in Services : browser[s] # "open"
  BY DEF Init
<1>6. LastHeard /\ Shown
  BY <1>5 DEF LastHeard, Shown, Settled
<1>7. AtAddress
  BY <1>5 DEF AtAddress, IdsOf, Settled
<1> QED
  BY <1>2, <1>4, <1>6, <1>7 DEF ReceiverInv

LEMMA FirstIsHead ==
  ASSUME NEW S, NEW queue \in Seq(S), queue # <<>>
  PROVE  Head(queue) = queue[1]
  OBVIOUS

LEMMA LastAndTail ==
  ASSUME NEW S, NEW queue \in Seq(S), queue # <<>>
  PROVE  /\ Tail(queue) = <<>> => Len(queue) = 1
         /\ Tail(queue) # <<>> => Tail(queue)[Len(Tail(queue))] = queue[Len(queue)]
<1>1. /\ Tail(queue) \in Seq(S) /\ Len(Tail(queue)) = Len(queue) - 1
      /\ \A i \in 1 .. Len(Tail(queue)) : Tail(queue)[i] = queue[i + 1]
  BY HeadTailProperties
<1>2. Len(queue) \in Nat
  BY LenProperties
<1>3. ASSUME Tail(queue) = <<>> PROVE Len(queue) = 1
  BY <1>1, <1>2, <1>3, EmptySeq
<1>4. ASSUME Tail(queue) # <<>> PROVE Tail(queue)[Len(Tail(queue))] = queue[Len(queue)]
  <2> DEFINE n == Len(Tail(queue))
  <2>1. n \in Nat \ {0}
    BY <1>1, <1>4, EmptySeq, LenProperties
  <2>2. n \in 1 .. n /\ n + 1 = Len(queue)
    BY <1>1, <1>2, <2>1
  <2>3. Tail(queue)[n] = queue[n + 1]
    BY <1>1, <2>2
  <2> QED
    BY <2>2, <2>3
<1> QED
  BY <1>3, <1>4

\* Handling an announcement.
LEMMA BrowseReceivers ==
  ASSUME SeparateReceivers, ReceiverInv,
         NEW p \in Receivers, NEW s \in Services, Browse(p, s)
  PROVE  Named(devices') /\ LastHeard' /\ AtAddress' /\ Shown'
<1> DEFINE a == Head(heard[p][s])
<1>1. /\ Keyed(devices) /\ Apart(devices) /\ Named(devices)
      /\ heard \in [Receivers -> [Services -> Seq(Addresses)]]
      /\ \A q \in Receivers, t \in Services : heard[q][t] \in Seq(Own[q])
      /\ \A q \in Receivers : address[q] \in Own[q]
  BY DEF ReceiverInv, ListInv, DevicesTypeOK, Announced, Keyed, Present
<1>2. /\ heard[p][s] # <<>>
      /\ heard' = [heard EXCEPT ![p][s] = Tail(heard[p][s])]
      /\ address' = address /\ browser' = browser
  BY DEF Browse, browsers
<1>3. /\ a \in Own[p] /\ a = heard[p][s][1]
  <2>1. heard[p][s] \in Seq(Own[p]) /\ heard[p][s] # <<>>
    BY <1>1, <1>2
  <2>2. a \in Own[p]
    BY <2>1, HeadTailProperties
  <2>3. a = heard[p][s][1]
    BY <2>1, FirstIsHead
  <2> QED
    BY <2>2, <2>3
<1>4. /\ heard'[p][s] = Tail(heard[p][s])
      /\ \A q \in Receivers, t \in Services : <<q, t>> # <<p, s>> => heard'[q][t] = heard[q][t]
  BY <1>1, <1>2
<1>5. PICK list \in Upserted(Entry(p, s, a)) : devices' \in Normalized(list)
  BY DEF Browse
<1> HIDE DEF a
<1>6. Keyed(list) /\ Named(list)
  BY <1>1, <1>3, <1>5, UpsertedNamed
<1>7. PICK u \in IdsOf(p) :
        /\ Present(list) = Present(devices) \cup {u}
        /\ \A j \in Present(list) \ {u} : list[j] = devices[j]
        /\ u = IdOf[p][s] \/ (IdOf[p][s] \notin Present(devices) /\ u \in At(devices, a))
        /\ list[u].address = a /\ list[u].name = p /\ s \in list[u].protocols
        /\ u \in Present(devices) => devices[u].protocols \subseteq list[u].protocols
  <2>1. Keyed(devices) /\ Named(devices) /\ a \in Own[p]
    BY <1>1, <1>3
  <2> QED
    BY <1>5, <2>1, UpsertedNamed
<1>8. /\ Named(devices')
      /\ \A i \in Present(devices') : i \in Present(list) /\ devices'[i].address = list[i].address
      /\ \A j \in Present(list) : \E i \in Present(devices') :
           devices'[i].name = list[j].name /\ list[j].protocols \subseteq devices'[i].protocols
  BY <1>5, <1>6, NormalizedNamed
<1>9. LastHeard'
  <2> SUFFICES ASSUME NEW q \in Receivers, NEW t \in Services,
                      browser'[t] = "open", heard'[q][t] # <<>>
               PROVE  heard'[q][t][Len(heard'[q][t])] = address'[q]
    BY DEF LastHeard
  <2>1. \A r \in Receivers, v \in Services :
          browser[v] = "open" /\ heard[r][v] # <<>> =>
            heard[r][v][Len(heard[r][v])] = address[r]
    BY DEF ReceiverInv, LastHeard
  <2>2. CASE <<q, t>> # <<p, s>>
    BY <1>2, <1>4, <2>1, <2>2
  <2>3. CASE q = p /\ t = s
    <3>1. heard[p][s][Len(heard[p][s])] = address[p]
      BY <1>2, <2>1, <2>3
    <3>2. Tail(heard[p][s])[Len(Tail(heard[p][s]))] = heard[p][s][Len(heard[p][s])]
      BY <1>1, <1>2, <1>4, <2>3, LastAndTail
    <3> QED
      BY <1>2, <1>4, <2>3, <3>1, <3>2
  <2> QED
    BY <2>2, <2>3
<1>10. AtAddress'
  <2> SUFFICES ASSUME NEW q \in Receivers, NEW i \in Present(devices') \cap IdsOf(q),
                      \A t \in Services : IdOf[q][t] = i => Settled(q, t)'
               PROVE  devices'[i].address = address'[q]
    BY DEF AtAddress, Present, IdsOf
  <2>1. \A r \in Receivers : \A j \in Present(devices) \cap IdsOf(r) :
          (\A t \in Services : IdOf[r][t] = j => Settled(r, t))
            => devices[j].address = address[r]
    BY DEF ReceiverInv, AtAddress
  <2>2. \A t \in Services : IdOf[q][t] = i /\ <<q, t>> # <<p, s>> => Settled(q, t)
    BY <1>2, <1>4 DEF Settled
  <2>3. i \in Present(list) /\ devices'[i].address = list[i].address
    BY <1>8
  <2>4. CASE i # u
    <3>1. i \in Present(devices) /\ list[i] = devices[i]
      BY <1>7, <2>3, <2>4
    <3>2. ASSUME NEW t \in Services, IdOf[q][t] = i
          PROVE  <<q, t>> # <<p, s>>
      BY <1>7, <2>4, <3>1, <3>2
    <3>3. devices[i].address = address[q]
      BY <2>1, <2>2, <3>1, <3>2
    <3> QED
      BY <1>2, <2>3, <3>1, <3>3
  <2>5. CASE i = u
    <3>1. q = p
      BY <1>7, <2>5 DEF SeparateReceivers
    <3>2. CASE u = IdOf[p][s]
      <4>1. browser[s] = "open" /\ Tail(heard[p][s]) = <<>>
        BY <1>2, <1>4, <2>5, <3>1, <3>2 DEF Settled
      <4>2. Len(heard[p][s]) = 1
        BY <1>1, <1>2, <4>1, LastAndTail
      <4>3. a = address[p]
        BY <1>2, <1>3, <4>1, <4>2 DEF ReceiverInv, LastHeard
      <4> QED
        BY <1>2, <1>7, <2>3, <2>5, <3>1, <4>3
    <3>3. CASE u # IdOf[p][s]
      <4>1. u \in Present(devices) /\ devices[u].address = a
        BY <1>7, <3>3 DEF At
      <4>2. devices[u].address = address[p]
        BY <2>1, <2>2, <2>5, <3>1, <3>3, <4>1
      <4> QED
        BY <1>2, <1>7, <2>3, <2>5, <3>1, <4>1, <4>2
    <3> QED
      BY <3>2, <3>3
  <2> QED
    BY <2>4, <2>5
<1>11. Shown'
  <2> SUFFICES ASSUME NEW q \in Receivers, NEW t \in Services, Settled(q, t)'
               PROVE  \E i \in Present(devices') \cap IdsOf(q) : t \in devices'[i].protocols
    BY DEF Shown, Present, IdsOf
  <2>1. \E j \in Present(list) \cap IdsOf(q) : t \in list[j].protocols
    <3>1. CASE <<q, t>> = <<p, s>>
      BY <1>7, <3>1
    <3>2. CASE <<q, t>> # <<p, s>>
      <4>1. Settled(q, t)
        BY <1>2, <1>4, <3>2 DEF Settled
      <4>2. PICK j \in Present(devices) \cap IdsOf(q) : t \in devices[j].protocols
        BY <4>1 DEF ReceiverInv, Shown
      <4> QED
        BY <1>7, <4>2
    <3> QED
      BY <3>1, <3>2
  <2>2. PICK j \in Present(list) \cap IdsOf(q) : t \in list[j].protocols
    BY <2>1
  <2>3. PICK i \in Present(devices') :
          devices'[i].name = list[j].name /\ list[j].protocols \subseteq devices'[i].protocols
    BY <1>8, <2>2
  <2>4. list[j].name = q
    <3>1. j \in IdsOf(list[j].name) /\ list[j].name \in Receivers
      BY <1>6, <2>2, PresentDevice DEF Named
    <3> QED
      BY <2>2, <3>1 DEF SeparateReceivers
  <2>5. i \in IdsOf(q)
    BY <1>8, <2>3, <2>4 DEF Named
  <2> QED
    BY <2>2, <2>3, <2>5
<1> QED
  BY <1>8, <1>9, <1>10, <1>11

\* Only handling an announcement settles anything, and an address changes with an
\* announcement on its way to each browser that listens.
LEMMA OtherSteps ==
  ASSUME ReceiverInv, Next, \A p \in Receivers, s \in Services : ~Browse(p, s)
  PROVE  /\ devices' = devices
         /\ LastHeard'
         /\ \A p \in Receivers, s \in Services :
              Settled(p, s)' => Settled(p, s) /\ address'[p] = address[p]
<1>1. /\ heard \in [Receivers -> [Services -> Seq(Addresses)]]
      /\ address \in [Receivers -> Addresses]
      /\ browser \in [Services -> {"new", "starting", "open", "failed"}]
  BY DEF ReceiverInv, ListInv, DevicesTypeOK
<1>2. \A p \in Receivers, s \in Services :
        browser[s] = "open" /\ heard[p][s] # <<>> => heard[p][s][Len(heard[p][s])] = address[p]
  BY DEF ReceiverInv, LastHeard
<1>3. ASSUME NEW queue \in Seq(Addresses), NEW a \in Addresses
      PROVE  /\ Append(queue, a) # <<>>
             /\ Append(queue, a)[Len(Append(queue, a))] = a
  BY AppendProperties, LenProperties
<1>4. CASE Run \/ GiveUp \/ \E s \in Services : OpenFails(s)
  <2>1. UNCHANGED <<address, heard, devices>>
    BY <1>4 DEF Run, GiveUp, OpenFails
  <2>2. \A s \in Services : browser'[s] = "open" => browser[s] = "open"
    BY <1>1, <1>4 DEF Run, GiveUp, OpenFails
  <2> QED
    BY <1>2, <2>1, <2>2 DEF LastHeard, Settled
<1>5. ASSUME NEW s \in Services, Open(s)
      PROVE  /\ devices' = devices
             /\ LastHeard'
             /\ \A p \in Receivers, t \in Services :
                  Settled(p, t)' => Settled(p, t) /\ address'[p] = address[p]
  <2>1. /\ UNCHANGED <<address, devices>>
        /\ browser' = [browser EXCEPT ![s] = "open"]
        /\ heard' = [p \in Receivers |->
                       [heard[p] EXCEPT ![s] = Append(heard[p][s], address[p])]]
    BY <1>5 DEF Open
  <2>2. \A t \in Services : t # s => browser'[t] = browser[t]
    BY <1>1, <2>1
  <2>3. ASSUME NEW p \in Receivers, NEW t \in Services
        PROVE  heard'[p][t] = IF t = s THEN Append(heard[p][s], address[p]) ELSE heard[p][t]
    BY <1>1, <2>1
  <2>4. ASSUME NEW p \in Receivers
        PROVE  heard'[p][s] # <<>> /\ heard'[p][s][Len(heard'[p][s])] = address[p]
    <3>1. heard[p][s] \in Seq(Addresses) /\ address[p] \in Addresses
      BY <1>1
    <3>2. heard'[p][s] = Append(heard[p][s], address[p])
      BY <2>3
    <3> QED
      BY <1>3, <3>1, <3>2
  <2>5. LastHeard'
    BY <1>2, <2>1, <2>2, <2>3, <2>4 DEF LastHeard
  <2> QED
    BY <2>1, <2>2, <2>3, <2>4, <2>5 DEF Settled
<1>6. ASSUME NEW p \in Receivers, NEW a \in Addresses, Announce(p, a)
      PROVE  /\ devices' = devices
             /\ LastHeard'
             /\ \A q \in Receivers, t \in Services :
                  Settled(q, t)' => Settled(q, t) /\ address'[q] = address[q]
  <2>1. /\ UNCHANGED <<devices, browser>>
        /\ address' = [address EXCEPT ![p] = a]
        /\ heard' = [heard EXCEPT ![p] =
             [s \in Services |-> IF browser[s] = "open" THEN Append(heard[p][s], a)
                                                        ELSE heard[p][s]]]
    BY <1>6 DEF Announce, browsers
  <2>2. ASSUME NEW q \in Receivers, NEW t \in Services, q # p
        PROVE  heard'[q][t] = heard[q][t] /\ address'[q] = address[q]
    BY <1>1, <2>1, <2>2
  <2>3. ASSUME NEW t \in Services, browser[t] = "open"
        PROVE  /\ heard'[p][t] # <<>>
               /\ heard'[p][t][Len(heard'[p][t])] = address'[p]
    <3>1. heard'[p][t] = Append(heard[p][t], a) /\ address'[p] = a
      BY <1>1, <2>1, <2>3
    <3> QED
      BY <1>1, <1>3, <3>1
  <2>4. LastHeard'
    BY <1>2, <2>1, <2>2, <2>3 DEF LastHeard
  <2> QED
    BY <2>1, <2>2, <2>3, <2>4 DEF Settled
<1> QED
  BY <1>4, <1>5, <1>6 DEF Next

LEMMA ReceiverInvNext ==
  ASSUME SeparateReceivers, ReceiverInv, [Next]_vars
  PROVE  ReceiverInv'
<1>1. ListInv'
  BY ListInvNext DEF ReceiverInv
<1>2. CASE UNCHANGED vars
  BY <1>1, <1>2 DEF vars, browsers, ReceiverInv, Named, LastHeard, AtAddress, Shown,
                    Settled, Present, IdsOf
<1>3. CASE \E p \in Receivers, s \in Services : Browse(p, s)
  <2>1. Named(devices') /\ LastHeard' /\ AtAddress' /\ Shown'
    BY <1>3, BrowseReceivers
  <2>2. Named(devices)'
    BY <2>1 DEF Named, Present, IdsOf
  <2> QED
    BY <1>1, <2>1, <2>2 DEF ReceiverInv
<1>4. CASE Next /\ \A p \in Receivers, s \in Services : ~Browse(p, s)
  <2>1. /\ devices' = devices /\ LastHeard'
        /\ \A p \in Receivers, s \in Services :
             Settled(p, s)' => Settled(p, s) /\ address'[p] = address[p]
    BY <1>4, OtherSteps
  <2>2. Named(devices)'
    BY <2>1 DEF ReceiverInv, Named, Present, IdsOf
  <2>3. AtAddress'
    <3> SUFFICES ASSUME NEW p \in Receivers, NEW i \in Present(devices') \cap IdsOf(p),
                        \A s \in Services : IdOf[p][s] = i => Settled(p, s)'
                 PROVE  devices'[i].address = address'[p]
      BY DEF AtAddress, Present, IdsOf
    <3>1. PICK s \in Services : IdOf[p][s] = i
      BY DEF IdsOf
    <3>2. address'[p] = address[p]
      BY <2>1, <3>1
    <3>3. \A t \in Services : IdOf[p][t] = i => Settled(p, t)
      BY <2>1
    <3>4. devices[i].address = address[p]
      BY <2>1, <3>3 DEF ReceiverInv, AtAddress
    <3> QED
      BY <2>1, <3>2, <3>4
  <2>4. Shown'
    <3> SUFFICES ASSUME NEW p \in Receivers, NEW s \in Services, Settled(p, s)'
                 PROVE  \E i \in Present(devices') \cap IdsOf(p) : s \in devices'[i].protocols
      BY DEF Shown, Present, IdsOf
    <3> QED
      BY <2>1 DEF ReceiverInv, Shown
  <2> QED
    BY <1>1, <2>1, <2>2, <2>3, <2>4 DEF ReceiverInv
<1> QED
  BY <1>2, <1>3, <1>4

LEMMA ReceiverInvariant ==
  ASSUME SeparateReceivers, SavedNamed
  PROVE  Spec => []ReceiverInv
<1>1. Init => ReceiverInv
  BY ReceiverInvInit
<1>2. ReceiverInv /\ [Next]_vars => ReceiverInv'
  BY ReceiverInvNext
<1> QED
  BY <1>1, <1>2, PTL DEF Spec

\* ListedOnce: when both browsers listen and all that a receiver announced has been
\* handled, in any order of the two services, one device has its name, with its
\* address and both services.
THEOREM ReceiversListedOnce ==
  ASSUME SeparateReceivers, SavedNamed
  PROVE  Spec => []ListedOnce
<1>1. ASSUME ReceiverInv PROVE ListedOnce
  <2> SUFFICES ASSUME \A s \in Services : browser[s] = "open", NEW p \in Receivers,
                      \A s \in Services : heard[p][s] = <<>>
               PROVE  \E i \in Present(devices) :
                        /\ devices[i].address = address[p]
                        /\ devices[i].protocols = Services
                        /\ {j \in Present(devices) : devices[j].name = p} = {i}
    BY DEF ListedOnce
  <2>1. \A s \in Services : Settled(p, s)
    BY DEF Settled
  <2>2. /\ Keyed(devices) /\ Apart(devices) /\ Named(devices)
        /\ AtAddress /\ Shown
    BY <1>1 DEF ReceiverInv, ListInv, DevicesTypeOK, Keyed, Present
  <2>3. ASSUME NEW i \in Present(devices), NEW j \in Present(devices),
               i \in IdsOf(p), j \in IdsOf(p)
        PROVE  i = j /\ devices[i].address = address[p]
    BY <2>1, <2>2, <2>3 DEF AtAddress, Apart
  <2>4. PICK i \in Present(devices) \cap IdsOf(p) : "airplay" \in devices[i].protocols
    BY <2>1, <2>2 DEF Shown, Services
  <2>5. "raop" \in devices[i].protocols
    <3>1. PICK j \in Present(devices) \cap IdsOf(p) : "raop" \in devices[j].protocols
      BY <2>1, <2>2 DEF Shown, Services
    <3> QED
      BY <2>3, <2>4, <3>1
  <2>6. devices[i].protocols = Services
    BY <2>2, <2>4, <2>5, PresentDevice DEF Services
  <2>7. devices[i].name = p
    BY <2>2, <2>4, PresentDevice DEF Named, SeparateReceivers
  <2>8. ASSUME NEW j \in Present(devices), devices[j].name = p
        PROVE  j = i
    BY <2>2, <2>3, <2>4, <2>8 DEF Named
  <2> QED
    BY <2>3, <2>4, <2>6, <2>7, <2>8
<1> QED
  BY <1>1, ReceiverInvariant, PTL

\* PreferredIDStays: once a receiver is listed under its preferred ID, no merge drops
\* that ID, in whatever order the loop meets the devices.
THEOREM PreferredStays ==
  ASSUME SeparateReceivers, SavedNamed, WeightsDiffer
  PROVE  Spec => PreferredIDStays
<1>1. ASSUME ReceiverInv, [Next]_vars
      PROVE  [\A i \in Present(devices) :
                (\A j \in Ids : Weight[j] <= Weight[i]) => i \in Present(devices')]_vars
  <2> SUFFICES ASSUME Next, NEW i \in Present(devices),
                      \A j \in Ids : Weight[j] <= Weight[i]
               PROVE  i \in Present(devices')
    BY <1>1
  <2>1. CASE devices' = devices
    BY <2>1 DEF Present
  <2>2. ASSUME NEW p \in Receivers, NEW s \in Services, Browse(p, s)
        PROVE  i \in Present(devices')
    <3> DEFINE a == Head(heard[p][s])
    <3>1. /\ Keyed(devices) /\ Named(devices)
          /\ heard[p][s] \in Seq(Own[p]) /\ heard[p][s] # <<>>
      BY <1>1, <2>2 DEF ReceiverInv, ListInv, DevicesTypeOK, Announced, Keyed, Present, Browse
    <3>2. PICK list \in Upserted(Entry(p, s, a)) : devices' \in Normalized(list)
      BY <2>2 DEF Browse
    <3>3. a \in Own[p]
      BY <3>1, HeadTailProperties
    <3> HIDE DEF a
    <3>4. Keyed(list) /\ Named(list) /\ i \in Present(list)
      BY <3>1, <3>2, <3>3, UpsertedNamed
    <3> QED
      BY <3>2, <3>4, PreferredKept
  <2> QED
    BY <2>1, <2>2 DEF Next, Run, GiveUp, Open, OpenFails, Announce
<1> QED
  BY <1>1, ReceiverInvariant, PTL DEF Spec, PreferredIDStays
-----------------------------------------------------------------------------
(* The loop over the devices of an address *)

\* Induction over n places.  The first that were not in G would follow one that is.
LEMMA Upwards ==
  ASSUME NEW n \in Nat, NEW G, 1 \in G,
         \A i \in 1..n : i \in G /\ i + 1 \in 1..n => i + 1 \in G
  PROVE  1..n \subseteq G
<1> DEFINE R == {p \in Nat \X Nat : p[1] < p[2]}
           T == {k \in 1..n : k \notin G}
<1> SUFFICES ASSUME T # {} PROVE FALSE
  OBVIOUS
<1>1. IsWellFoundedOn(R, Nat)
  BY NatLessThanWellFounded DEF OpToRel
<1>2. T \subseteq Nat
  OBVIOUS
<1>3. PICK k \in T : \A y \in T : ~(<<y, k>> \in R)
  <2> HIDE DEF R, T
  <2> QED
    BY <1>1, <1>2, WFMin
<1>4. k \in 1..n /\ k \notin G /\ k # 1
  OBVIOUS
<1>5. k - 1 \in 1..n /\ k - 1 + 1 = k
  BY <1>4
<1>6. k - 1 \in T
  BY <1>4, <1>5
<1>7. <<k - 1, k>> \in R
  BY <1>4, <1>5
<1> QED
  BY <1>3, <1>6, <1>7

\* Turn n of the loop, if f is what the turns before it have made.
Turn(devs, order, f, n) ==
  IF n = 1 THEN [key |-> order[1], device |-> devs[order[1]]]
  ELSE Join(devs, f[n - 1], order[n])

\* There is a function as Turns defines it.
LEMMA TurnsDefined ==
  ASSUME NEW devs, NEW order, Len(order) \in Nat \ {0}
  PROVE  Turns(devs, order)
           = [n \in 1..Len(order) |-> Turn(devs, order, Turns(devs, order), n)]
<1> DEFINE len == Len(order)
           Solves(f, m) == f = [n \in 1..m |-> Turn(devs, order, f, n)]
           G == {m \in 1..len : \E f : Solves(f, m)}
<1>1. len \in Nat /\ 1 \in 1..len /\ len \in 1..len
  OBVIOUS
<1> HIDE DEF len
<1>2. 1 \in G
  <2> DEFINE f == [n \in 1..1 |-> [key |-> order[1], device |-> devs[order[1]]]]
  <2>1. \A n \in 1..1 : Turn(devs, order, f, n) = [key |-> order[1], device |-> devs[order[1]]]
    BY DEF Turn
  <2>2. Solves(f, 1)
    BY <2>1
  <2> HIDE DEF Solves
  <2> QED
    BY <1>1, <2>2
<1>3. ASSUME NEW m \in 1..len, m \in G, m + 1 \in 1..len
      PROVE  m + 1 \in G
  <2>1. PICK g : Solves(g, m)
    BY <1>3
  <2> DEFINE f == [n \in 1..m + 1 |-> IF n = m + 1 THEN Turn(devs, order, g, n) ELSE g[n]]
  <2>2. /\ m + 1 \in 1..m + 1 /\ m + 1 # 1
        /\ \A n \in 1..m : n # m + 1 /\ n \in 1..m + 1
        /\ \A n \in 1..m + 1 : (n = m + 1 \/ n \in 1..m) /\ (n = 1 \/ n - 1 \in 1..m)
    BY <1>1
  <2>3. \A n \in 1..m : f[n] = g[n]
    BY <2>2
  <2>4. f[m + 1] = Turn(devs, order, g, m + 1)
    BY <2>2
  <2>5. f = [n \in 1..m + 1 |-> f[n]]
    OBVIOUS
  <2> HIDE DEF f
  <2>6. \A n \in 1..m + 1 : Turn(devs, order, f, n) = Turn(devs, order, g, n)
    BY <2>2, <2>3 DEF Turn
  <2>7. \A n \in 1..m : g[n] = Turn(devs, order, g, n)
    BY <2>1
  <2>8. \A n \in 1..m + 1 : f[n] = Turn(devs, order, f, n)
    BY <2>2, <2>3, <2>4, <2>6, <2>7
  <2>9. Solves(f, m + 1)
    BY <2>5, <2>8
  <2> HIDE DEF Solves
  <2> QED
    BY <1>3, <2>9
<1>4. 1..len \subseteq G
  <2> HIDE DEF G
  <2> QED
    BY <1>1, <1>2, <1>3, Upwards
<1>5. \E f : Solves(f, len)
  <2> HIDE DEF Solves
  <2> QED
    BY <1>1, <1>4
<1> QED
  BY <1>5, Zenon DEF Turns, Turn, len

\* What Turns is at each turn.
LEMMA TurnsAre ==
  ASSUME NEW devs, NEW order, Len(order) \in Nat \ {0}
  PROVE  /\ Turns(devs, order)[1] = [key |-> order[1], device |-> devs[order[1]]]
         /\ \A n \in 1..Len(order) : n + 1 \in 1..Len(order) =>
              Turns(devs, order)[n + 1]
                = Join(devs, Turns(devs, order)[n], order[n + 1])
<1> DEFINE f == Turns(devs, order)
           len == Len(order)
<1>1. f = [n \in 1..len |-> Turn(devs, order, f, n)]
  BY TurnsDefined
<1>2. len \in Nat /\ 1 \in 1..len
  OBVIOUS
<1> HIDE DEF f, len
<1>3. \A n \in 1..len : f[n] = Turn(devs, order, f, n)
  BY <1>1
<1>4. \A n \in 1..len : n + 1 # 1 /\ n + 1 - 1 = n
  BY <1>2
<1>5. f[1] = [key |-> order[1], device |-> devs[order[1]]]
  BY <1>2, <1>3 DEF Turn
<1>6. \A n \in 1..len : n + 1 \in 1..len => f[n + 1] = Join(devs, f[n], order[n + 1])
  BY <1>3, <1>4 DEF Turn
<1> QED
  BY <1>5, <1>6 DEF f, len

\* Of the first n devices of order, the one at m is preferred to those before it, and
\* none is preferred to it.
Best(order, n, m) ==
  /\ m \in 1..n
  /\ \A i \in 1..n : Weight[order[i]] <= Weight[order[m]]
  /\ \A i \in 1..n : i < m => Weight[order[i]] < Weight[order[m]]

\* The device that has the ID at place m, and of the first n devices the data of the
\* last and the protocols of all.
Sum(devs, a, order, n, m) ==
  [key |-> order[m],
   device |-> [id |-> order[m], address |-> a, name |-> devs[order[n]].name,
               protocols |-> UNION {devs[order[i]].protocols : i \in 1..n}]]

\* Another device of the address is added to such a sum.
LEMMA JoinAdds ==
  ASSUME NEW devs, Keyed(devs), NEW a, NEW len \in Nat, NEW order \in [1..len -> At(devs, a)],
         NEW n \in 1..len, n + 1 \in 1..len, NEW m, Best(order, n, m)
  PROVE  \E k \in 1..n + 1 :
           /\ Best(order, n + 1, k)
           /\ Join(devs, Sum(devs, a, order, n, m), order[n + 1]) = Sum(devs, a, order, n + 1, k)
<1> DEFINE one == Sum(devs, a, order, n, m)
           i == order[n + 1]
           k == IF Weight[i] > Weight[order[m]] THEN n + 1 ELSE m
<1>1. /\ m \in 1..n /\ m \in 1..len /\ n + 1 \in 1..len
      /\ \A j \in 1..len : order[j] \in Ids /\ devs[order[j]] \in Device
                           /\ devs[order[j]].address = a /\ devs[order[j]].id = order[j]
  BY DEF Best, At, Present, Keyed
<1>2. \A j \in 1..len : Weight[order[j]] \in Nat
  BY <1>1, DevicesAssumption
<1>3. \A j \in 1..n + 1 : j \in 1..len /\ (j \in 1..n \/ j = n + 1)
  BY <1>1
<1>4. k \in 1..n + 1 /\ Best(order, n + 1, k)
  <2>1. CASE Weight[i] > Weight[order[m]]
    <3>1. \A j \in 1..n : Weight[order[j]] < Weight[i]
      BY <1>1, <1>2, <1>3, <2>1 DEF Best
    <3> QED
      BY <1>1, <1>2, <1>3, <2>1, <3>1 DEF Best
  <2>2. CASE ~(Weight[i] > Weight[order[m]])
    <3>1. Weight[i] <= Weight[order[m]] /\ ~(n + 1 < m)
      BY <1>1, <1>2, <2>2
    <3> QED
      BY <1>1, <1>2, <1>3, <2>2, <3>1 DEF Best
  <2> QED
    BY <2>1, <2>2
<1>5. PreferredID(order[m], i) = order[k]
  BY DEF PreferredID
<1> HIDE DEF k
<1>6. /\ one.key = order[m]
      /\ one.device = [id |-> order[m], address |-> a, name |-> devs[order[n]].name,
                       protocols |-> UNION {devs[order[j]].protocols : j \in 1..n}]
  BY DEF Sum
<1> HIDE DEF one
<1>7. [Merge(one.device, devs[i]) EXCEPT !.id = order[k]]
        = [id |-> order[k], address |-> a, name |-> devs[i].name,
           protocols |-> one.device.protocols \cup devs[i].protocols]
  <2>1. ASSUME NEW e \in Device, NEW d \in Device, NEW new \in Ids
        PROVE  [Merge(e, d) EXCEPT !.id = new]
                 = [id |-> new, address |-> d.address, name |-> d.name,
                    protocols |-> e.protocols \cup d.protocols]
    <3>1. /\ Merge(e, d) \in Device
          /\ Merge(e, d).address = d.address /\ Merge(e, d).name = d.name
          /\ Merge(e, d).protocols = e.protocols \cup d.protocols
      BY <2>1 DEF Merge, Device
    <3>2. PICK x \in Device : x = Merge(e, d)
      BY <3>1
    <3>3. PICK y : y = [x EXCEPT !.id = new]
      OBVIOUS
    <3>4. /\ y \in Device /\ y.id = new
          /\ y.address = x.address /\ y.name = x.name /\ y.protocols = x.protocols
      BY <2>1, <3>3 DEF Device
    <3>5. y = [id |-> y.id, address |-> y.address, name |-> y.name, protocols |-> y.protocols]
      BY <3>4 DEF Device
    <3> QED
      BY <3>1, <3>2, <3>3, <3>4, <3>5
  <2>2. one.device \in Device
    <3>1. UNION {devs[order[j]].protocols : j \in 1..n} \subseteq Services
      BY <1>1, <1>3 DEF Device
    <3> QED
      BY <1>1, <1>6, <3>1 DEF Device
  <2>3. devs[i] \in Device /\ devs[i].address = a /\ order[k] \in Ids
    BY <1>1, <1>4
  <2> QED
    BY <2>1, <2>2, <2>3
<1>8. one.device.protocols \cup devs[i].protocols
        = UNION {devs[order[j]].protocols : j \in 1..n + 1}
  <2>1. one.device.protocols = UNION {devs[order[j]].protocols : j \in 1..n}
    BY <1>6
  <2>2. 1..n + 1 = 1..n \cup {n + 1}
    OBVIOUS
  <2> QED
    BY <2>1, <2>2
<1>9. Join(devs, one, i) = Sum(devs, a, order, n + 1, k)
  BY <1>5, <1>6, <1>7, <1>8 DEF Join, Sum
<1> QED
  BY <1>4, <1>9 DEF one

\* So each turn of the loop leaves the sum of the devices it has met.
LEMMA TurnsSum ==
  ASSUME NEW devs, Keyed(devs), NEW a, NEW len \in Nat \ {0},
         NEW order \in [1..len -> At(devs, a)]
  PROVE  \E m \in 1..len :
           Best(order, len, m) /\ Turns(devs, order)[len] = Sum(devs, a, order, len, m)
<1> DEFINE f == Turns(devs, order)
           G == {n \in 1..len : \E m \in 1..n :
                   Best(order, n, m) /\ f[n] = Sum(devs, a, order, n, m)}
<1>1. /\ 1 \in 1..len /\ len \in 1..len /\ Len(order) = len
      /\ \A j \in 1..len : order[j] \in Ids /\ devs[order[j]] \in Device
                           /\ devs[order[j]].address = a /\ devs[order[j]].id = order[j]
  BY LenProperties DEF At, Present, Keyed
<1>2. /\ f[1] = [key |-> order[1], device |-> devs[order[1]]]
      /\ \A n \in 1..len : n + 1 \in 1..len => f[n + 1] = Join(devs, f[n], order[n + 1])
  <2>1. Len(order) \in Nat \ {0} /\ Len(order) = len
    BY <1>1
  <2>2. /\ f[1] = [key |-> order[1], device |-> devs[order[1]]]
        /\ \A n \in 1..Len(order) : n + 1 \in 1..Len(order) =>
             f[n + 1] = Join(devs, f[n], order[n + 1])
    BY <2>1, TurnsAre
  <2> HIDE DEF f
  <2> QED
    BY <2>1, <2>2
<1> HIDE DEF f
<1>3. 1 \in G
  <2>1. Best(order, 1, 1)
    <3>1. Weight[order[1]] \in Nat
      BY <1>1, DevicesAssumption
    <3> QED
      BY <3>1 DEF Best
  <2>2. UNION {devs[order[i]].protocols : i \in 1..1} = devs[order[1]].protocols
    OBVIOUS
  <2>3. devs[order[1]] = [id |-> order[1], address |-> a, name |-> devs[order[1]].name,
                          protocols |-> devs[order[1]].protocols]
    BY <1>1 DEF Device
  <2>4. f[1] = Sum(devs, a, order, 1, 1)
    BY <1>2, <2>2, <2>3 DEF Sum
  <2> QED
    BY <1>1, <2>1, <2>4
<1>4. ASSUME NEW n \in 1..len, n \in G, n + 1 \in 1..len PROVE n + 1 \in G
  <2>1. PICK m \in 1..n : Best(order, n, m) /\ f[n] = Sum(devs, a, order, n, m)
    BY <1>4
  <2>2. f[n + 1] = Join(devs, Sum(devs, a, order, n, m), order[n + 1])
    BY <1>2, <1>4, <2>1
  <2>3. PICK k \in 1..n + 1 :
          /\ Best(order, n + 1, k)
          /\ Join(devs, Sum(devs, a, order, n, m), order[n + 1]) = Sum(devs, a, order, n + 1, k)
    BY <1>4, <2>1, JoinAdds
  <2> QED
    BY <1>4, <2>2, <2>3
<1>5. 1..len \subseteq G
  <2> HIDE DEF G
  <2> QED
    BY <1>3, <1>4, Upwards
<1> QED
  BY <1>1, <1>5 DEF f

\* A finite set can be gone through from any of its members to any other.
LEMMA OrderBetween ==
  ASSUME NEW S, IsFiniteSet(S), NEW first \in S, NEW last \in S
  PROVE  \E order \in SetToSeqs(S) :
           /\ order[Cardinality(S)] = last
           /\ first # last => order[1] = first
<1> DEFINE T == S \ {first, last}
           n == Cardinality(T)
<1>1. IsFiniteSet(T) /\ n \in Nat
  BY FS_Subset, FS_CardinalityType
<1>2. PICK f : f \in Bijection(1..n, T)
  BY <1>1, FS_CardinalityType DEF ExistsBijection
<1>3. /\ \A i \in 1..n : f[i] \in S /\ f[i] # first /\ f[i] # last
      /\ \A i, j \in 1..n : f[i] = f[j] => i = j
  BY <1>2 DEF Bijection, Injection, IsInjective
<1>4. CASE first = last
  <2>1. S = T \cup {last} /\ last \notin T
    BY <1>4
  <2>2. Cardinality(S) = n + 1
    BY <1>1, <2>1, FS_AddElement
  <2> HIDE DEF n, T
  <2> DEFINE order == [i \in 1..n + 1 |-> IF i = n + 1 THEN last ELSE f[i]]
  <2>3. \A i \in 1..n + 1 : i = n + 1 \/ i \in 1..n
    BY <1>1
  <2>4. order \in [1..n + 1 -> S] /\ order[n + 1] = last
    BY <1>1, <1>3, <2>3
  <2>5. ASSUME NEW i \in 1..n + 1, NEW j \in 1..n + 1, i # j PROVE order[i] # order[j]
    BY <1>3, <2>3, <2>5
  <2> HIDE DEF order
  <2>6. order \in SetToSeqs(S)
    BY <2>2, <2>4, <2>5 DEF SetToSeqs
  <2> QED
    BY <1>4, <2>2, <2>4, <2>6
<1>5. CASE first # last
  <2>1. /\ S = (T \cup {first}) \cup {last}
        /\ first \notin T /\ last \notin T \cup {first}
    BY <1>5
  <2>2. Cardinality(S) = n + 2
    <3>1. IsFiniteSet(T \cup {first}) /\ Cardinality(T \cup {first}) = n + 1
      BY <1>1, <2>1, FS_AddElement
    <3>2. Cardinality((T \cup {first}) \cup {last}) = n + 1 + 1
      BY <2>1, <3>1, FS_AddElement
    <3> HIDE DEF T, n
    <3> QED
      BY <1>1, <2>1, <3>2
  <2> HIDE DEF n, T
  <2> DEFINE order == [i \in 1..n + 2 |->
                         IF i = 1 THEN first ELSE IF i = n + 2 THEN last ELSE f[i - 1]]
  <2>3. /\ n + 2 # 1 /\ 1 \in 1..n + 2 /\ n + 2 \in 1..n + 2
        /\ \A i \in 1..n + 2 : i = 1 \/ i = n + 2 \/ i - 1 \in 1..n
    BY <1>1
  <2>4. order \in [1..n + 2 -> S] /\ order[n + 2] = last /\ order[1] = first
    BY <1>3, <2>3
  <2>5. ASSUME NEW i \in 1..n + 2, NEW j \in 1..n + 2, i # j PROVE order[i] # order[j]
    <3>1. i - 1 # j - 1
      BY <1>1, <2>5
    <3> QED
      BY <1>3, <1>5, <2>3, <2>5, <3>1
  <2> HIDE DEF order
  <2>6. order \in SetToSeqs(S)
    BY <2>2, <2>4, <2>5 DEF SetToSeqs
  <2> QED
    BY <2>2, <2>4, <2>6
<1> QED
  BY <1>4, <1>5

\* Whoever goes through a set meets each member.
LEMMA OrderMeetsAll ==
  ASSUME NEW S, IsFiniteSet(S), NEW order \in SetToSeqs(S)
  PROVE  /\ Cardinality(S) \in Nat
         /\ order \in [1..Cardinality(S) -> S]
         /\ \A i, j \in 1..Cardinality(S) : order[i] = order[j] => i = j
         /\ \A x \in S : \E i \in 1..Cardinality(S) : order[i] = x
<1> DEFINE n == Cardinality(S)
<1>1. n \in Nat
  BY FS_CardinalityType
<1>2. /\ order \in [1..n -> S]
      /\ \A i, j \in 1..n : order[i] = order[j] => i = j
  BY DEF SetToSeqs
<1>3. order \in Injection(1..n, S)
  BY <1>2 DEF Injection, IsInjective
<1>4. Cardinality(1..n) = n
  BY <1>1, FS_Interval
<1>5. order \in Surjection(1..n, S)
  BY <1>3, <1>4, FS_Injection
<1>6. \A x \in S : \E i \in 1..n : order[i] = x
  BY <1>5 DEF Surjection
<1> QED
  BY <1>1, <1>2, <1>6

\* What the loop makes of the devices of an address, in the words of Joint.
LEMMA SumIsJoint ==
  ASSUME NEW devs, Keyed(devs), NEW a, IsFiniteSet(At(devs, a)),
         NEW order \in SetToSeqs(At(devs, a)), NEW m \in 1..Cardinality(At(devs, a))
  PROVE  Sum(devs, a, order, Cardinality(At(devs, a)), m)
           = Joint(devs, At(devs, a), order[m], order[Cardinality(At(devs, a))])
<1> DEFINE S == At(devs, a)
           n == Cardinality(S)
           last == order[n]
           all == UNION {devs[i].protocols : i \in S}
<1>1. /\ n \in Nat /\ order \in [1..n -> S]
      /\ \A x \in S : \E i \in 1..n : order[i] = x
  BY OrderMeetsAll
<1>2. n \in 1..n
  BY <1>1
<1>3. order[m] \in S /\ last \in S
  BY <1>1, <1>2
<1>4. order[m] \in Ids /\ devs[last] \in Device /\ devs[last].address = a
  BY <1>3 DEF At, Present, Keyed
<1>5. UNION {devs[order[i]].protocols : i \in 1..n} = all
  <2>1. {devs[order[i]].protocols : i \in 1..n} = {devs[x].protocols : x \in S}
    BY <1>1
  <2> QED
    BY <2>1
<1>6. all \subseteq Services
  BY DEF At, Present, Keyed, Device
<1> HIDE DEF all, S, n
<1>7. PICK d \in Device : d = devs[last]
  BY <1>4
<1>8. PICK e : e = [d EXCEPT !.id = order[m], !.protocols = all]
  OBVIOUS
<1>9. /\ e \in Device /\ e.id = order[m] /\ e.protocols = all
      /\ e.address = d.address /\ e.name = d.name
  BY <1>4, <1>6, <1>8 DEF Device
<1>10. e = [id |-> e.id, address |-> e.address, name |-> e.name, protocols |-> e.protocols]
  BY <1>9 DEF Device
<1>11. e = [id |-> order[m], address |-> a, name |-> devs[last].name, protocols |-> all]
  BY <1>4, <1>7, <1>9, <1>10
<1> QED
  BY <1>5, <1>7, <1>8, <1>11 DEF Sum, Joint, all, S, n

\* The closed form and the loop agree on every list and every address it has.
LEMMA JoinedIsInTurn ==
  ASSUME NEW devs, Keyed(devs), NEW a, IsFiniteSet(At(devs, a)), At(devs, a) # {}
  PROVE  Joined(devs, a) = InTurn(devs, a)
<1> DEFINE S == At(devs, a)
           n == Cardinality(S)
<1>1. n \in Nat \ {0} /\ n \in 1..n
  BY FS_CardinalityType, FS_EmptySet
<1>2. \A i \in S : i \in Ids /\ Weight[i] \in Nat
  BY DevicesAssumption DEF At, Present
<1>3. Preferred(S) = {i \in S : \A j \in S : ~(Weight[j] > Weight[i])}
  <2>1. \A i, j \in S : PreferredID(i, j) = i <=> ~(Weight[j] > Weight[i])
    BY <1>2 DEF PreferredID
  <2> QED
    BY <2>1 DEF Preferred
<1>4. ASSUME NEW order \in SetToSeqs(S)
      PROVE  /\ order \in [1..n -> S] /\ Len(order) = n
             /\ \A i, j \in 1..n : order[i] = order[j] => i = j
             /\ \A x \in S : \E i \in 1..n : order[i] = x
             /\ \E m \in 1..n :
                  /\ Best(order, n, m)
                  /\ order[m] \in Preferred(S)
                  /\ Turns(devs, order)[Len(order)] = Joint(devs, S, order[m], order[n])
  <2>1. /\ order \in [1..n -> S]
        /\ \A i, j \in 1..n : order[i] = order[j] => i = j
        /\ \A x \in S : \E i \in 1..n : order[i] = x
    BY OrderMeetsAll
  <2>2. Len(order) = n
    BY <1>1, <2>1, LenProperties
  <2>3. PICK m \in 1..n : Best(order, n, m) /\ Turns(devs, order)[n] = Sum(devs, a, order, n, m)
    BY <1>1, <2>1, TurnsSum
  <2>4. Sum(devs, a, order, n, m) = Joint(devs, S, order[m], order[n])
    BY SumIsJoint
  <2>5. order[m] \in Preferred(S)
    <3>1. \A j \in S : ~(Weight[j] > Weight[order[m]])
      BY <1>2, <2>1, <2>3 DEF Best
    <3> QED
      BY <1>3, <2>1, <3>1
  <2> QED
    BY <2>1, <2>2, <2>3, <2>4, <2>5
<1> HIDE DEF n
<1>5. ASSUME NEW one \in InTurn(devs, a) PROVE one \in Joined(devs, a)
  <2>1. PICK order \in SetToSeqs(S) : one = Turns(devs, order)[Len(order)]
    BY <1>5 DEF InTurn
  <2>2. PICK m \in 1..n :
          /\ Best(order, n, m) /\ order[m] \in Preferred(S)
          /\ one = Joint(devs, S, order[m], order[n])
    BY <1>4, <2>1
  <2>3. order[n] \in S
    BY <1>1, <1>4
  <2>4. order[n] # order[m] \/ Preferred(S) = {order[m]}
    <3> SUFFICES ASSUME order[n] = order[m] PROVE Preferred(S) = {order[m]}
      OBVIOUS
    <3>1. m = n
      BY <1>1, <1>4
    <3>2. ASSUME NEW k \in Preferred(S) PROVE k = order[m]
      <4>1. PICK i \in 1..n : order[i] = k
        BY <1>3, <1>4
      <4>2. ~(i < m)
        BY <1>2, <1>3, <1>4, <2>2, <4>1 DEF Best
      <4> QED
        BY <1>1, <3>1, <4>1, <4>2
    <3> QED
      BY <2>2, <3>2
  <2> QED
    BY <2>2, <2>3, <2>4 DEF Joined
<1>6. ASSUME NEW one \in Joined(devs, a) PROVE one \in InTurn(devs, a)
  <2>1. PICK k \in Preferred(S), last \in S :
          (last # k \/ Preferred(S) = {k}) /\ one = Joint(devs, S, k, last)
    BY <1>6 DEF Joined
  <2>2. k \in S
    BY <2>1, <1>3
  <2>3. PICK order \in SetToSeqs(S) : order[n] = last /\ (k # last => order[1] = k)
    BY <2>1, <2>2, OrderBetween DEF n
  <2>4. PICK m \in 1..n :
          /\ Best(order, n, m) /\ order[m] \in Preferred(S)
          /\ Turns(devs, order)[Len(order)] = Joint(devs, S, order[m], order[n])
    BY <1>4
  <2>5. order[m] = k
    <3>1. CASE last = k
      BY <2>1, <2>4, <3>1
    <3>2. CASE last # k
      <4>1. order[1] = k /\ 1 \in 1..n /\ order[m] \in S
        BY <1>1, <1>3, <2>3, <2>4, <3>2
      <4>2. ~(1 < m)
        BY <1>2, <1>3, <2>1, <2>2, <2>4, <4>1 DEF Best
      <4> QED
        BY <1>1, <2>4, <4>1, <4>2
    <3> QED
      BY <3>1, <3>2
  <2> QED
    BY <2>1, <2>3, <2>4, <2>5 DEF InTurn
<1> QED
  BY <1>5, <1>6

\* JoinsInTurn: what the specification takes for one step of normalizeDevicesLocked,
\* the join of all devices of an address, is what its loop over a map does, which
\* meets them in any order and joins each to those before it.  There are only so many
\* IDs.
THEOREM JoinsAsWritten ==
  ASSUME IsFiniteSet(Ids)
  PROVE  Spec => []JoinsInTurn
<1>1. ASSUME NEW a \in Addresses, NEW list \in Crowded(a), Present(list) # {}
      PROVE  Joined(list, a) = InTurn(list, a)
  <2>1. /\ Keyed(list)
        /\ \A i \in Present(list) : list[i].address = a
    <3>1. PICK given \in [Ids -> {NoDevice} \cup
                                [name : Receivers, protocols : SUBSET Services \ {{}}]] :
            list = [i \in Ids |->
              IF given[i] = NoDevice THEN NoDevice
              ELSE [id |-> i, address |-> a,
                    name |-> given[i].name, protocols |-> given[i].protocols]]
      BY <1>1 DEF Crowded
    <3>2. ASSUME NEW i \in Ids
          PROVE  \/ list[i] = NoDevice
                 \/ list[i] \in Device /\ list[i].id = i /\ list[i].address = a
      <4>1. CASE given[i] = NoDevice
        BY <3>1, <4>1
      <4>2. CASE given[i] # NoDevice
        <5>1. given[i] \in [name : Receivers, protocols : SUBSET Services \ {{}}]
          BY <3>1, <4>2
        <5>2. list[i] = [id |-> i, address |-> a,
                         name |-> given[i].name, protocols |-> given[i].protocols]
          BY <3>1, <4>2
        <5> QED
          BY <5>1, <5>2 DEF Device
      <4> QED
        BY <4>1, <4>2
    <3>3. list \in [Ids -> Device \cup {NoDevice}]
      BY <3>1, <3>2
    <3> QED
      BY <3>2, <3>3 DEF Keyed, Present
  <2>2. At(list, a) = Present(list)
    BY <2>1 DEF At
  <2>3. IsFiniteSet(At(list, a))
    BY <2>2, FS_Subset DEF Present
  <2> QED
    BY <1>1, <2>1, <2>2, <2>3, JoinedIsInTurn
<1>2. JoinsInTurn
  BY <1>1 DEF JoinsInTurn
<1> QED
  BY <1>2, PTL

==============================================================================
