---------------------------- MODULE GroupsProofs -----------------------------
(***************************************************************************)
(* Proofs about groups, for any devices, groups and requests: lists and    *)
(* requests only reach cells in use, and a Play from whose group nothing   *)
(* is removed meanwhile routes every member, although it reads an array    *)
(* that other requests go on writing to.                                   *)
(* And every request does to the group what GroupList says, in one step,   *)
(* although Remove works in place, cell by cell.                           *)
(***************************************************************************)
EXTENDS Groups, FiniteSetTheorems, SequenceTheorems, WellFoundedInduction, TLAPS

Value == Devices \cup {Blank}

-----------------------------------------------------------------------------
(* Arrays and slices *)

\* There is always an array that no one reaches.
LEMMA FreshIsFree ==
  ASSUME groups \in [Names -> Slice \cup {NoGroup}], slice \in [Threads -> Slice]
  PROVE  Fresh \in Arrays /\ Fresh \notin Reachable
<1> DEFINE Used == {n \in Names : groups[n] # NoGroup}
           Busy == {t \in Threads : slice[t].len > 0}
           G == {groups[n].arr : n \in Used}
           S == {slice[t].arr : t \in Busy}
<1>1. /\ IsFiniteSet(Names) /\ IsFiniteSet(Threads) /\ IsFiniteSet(Arrays)
      /\ Cardinality(Names) + Cardinality(Threads) < Cardinality(Arrays)
  BY GroupsAssumption
<1>2. /\ IsFiniteSet(Used) /\ IsFiniteSet(Busy)
      /\ Cardinality(Used) <= Cardinality(Names) /\ Cardinality(Busy) <= Cardinality(Threads)
  BY <1>1, FS_Subset
<1>3. IsFiniteSet(G) /\ Cardinality(G) <= Cardinality(Used)
  <2> DEFINE f == [n \in Used |-> groups[n].arr]
  <2>1. f \in Surjection(Used, G)
    BY DEF Surjection
  <2> QED
    BY <1>2, <2>1, FS_Surjection
<1>4. IsFiniteSet(S) /\ Cardinality(S) <= Cardinality(Busy)
  <2> DEFINE f == [t \in Busy |-> slice[t].arr]
  <2>1. f \in Surjection(Busy, S)
    BY DEF Surjection
  <2> QED
    BY <1>2, <2>1, FS_Surjection
<1>5. Reachable = G \cup S
  BY DEF Reachable
<1> HIDE DEF Used, Busy, G, S
<1>6. /\ IsFiniteSet(Reachable)
      /\ Cardinality(Reachable) <= Cardinality(G) + Cardinality(S)
  <2>1. IsFiniteSet(G \cap S)
    BY <1>3, FS_Subset
  <2>2. Cardinality(G \cap S) \in Nat /\ Cardinality(G) \in Nat /\ Cardinality(S) \in Nat
    BY <1>3, <1>4, <2>1, FS_CardinalityType
  <2>3. /\ IsFiniteSet(G \cup S)
        /\ Cardinality(G \cup S) = Cardinality(G) + Cardinality(S) - Cardinality(G \cap S)
    BY <1>3, <1>4, FS_Union
  <2> QED
    BY <1>5, <2>2, <2>3
<1>7. ~(Arrays \subseteq Reachable)
  <2> SUFFICES ASSUME Arrays \subseteq Reachable PROVE FALSE
    OBVIOUS
  <2>1. Cardinality(Arrays) <= Cardinality(Reachable)
    BY <1>6, FS_Subset
  <2>2. /\ Cardinality(Arrays) \in Nat /\ Cardinality(Reachable) \in Nat
        /\ Cardinality(Names) \in Nat /\ Cardinality(Threads) \in Nat
        /\ Cardinality(Used) \in Nat /\ Cardinality(Busy) \in Nat
        /\ Cardinality(G) \in Nat /\ Cardinality(S) \in Nat
    BY <1>1, <1>2, <1>3, <1>4, <1>6, FS_CardinalityType
  <2> QED
    BY <1>1, <1>2, <1>3, <1>4, <1>6, <2>1, <2>2
<1> QED
  BY <1>7 DEF Fresh

\* What a slice that holds devices contains.
LEMMA ContentsOf ==
  ASSUME NEW s \in Slice, Holds(s)
  PROVE  /\ Contents(s) \in Seq(Devices)
         /\ Len(Contents(s)) = s.len
         /\ DOMAIN Contents(s) = 1..s.len
         /\ \A i \in 1..s.len : Contents(s)[i] = cells[s.arr][i]
         /\ ToSet(Contents(s)) = {cells[s.arr][i] : i \in 1..s.len}
<1>1. s.len \in Nat /\ \A i \in 1..s.len : cells[s.arr][i] \in Devices
  BY DEF Slice, Holds
<1>2. /\ Contents(s) \in Seq(Devices)
      /\ Len(Contents(s)) = IF 1 <= s.len THEN s.len - 1 + 1 ELSE 0
      /\ \A i \in 1..s.len - 1 + 1 : Contents(s)[i] = cells[s.arr][1 + i - 1]
  BY <1>1, SubSeqProperties DEF Contents
<1>3. Len(Contents(s)) = s.len
  BY <1>1, <1>2
<1>4. DOMAIN Contents(s) = 1..s.len
  BY <1>2, <1>3, LenProperties
<1>5. \A i \in 1..s.len : Contents(s)[i] = cells[s.arr][i]
  BY <1>1, <1>2
<1>6. ToSet(Contents(s)) = {cells[s.arr][i] : i \in 1..s.len}
  BY <1>4, <1>5 DEF ToSet
<1> QED
  BY <1>2, <1>3, <1>4, <1>5, <1>6

\* Only arrays that no one reaches any more are lost.
LEMMA CollectedKept ==
  ASSUME NEW cs \in [Arrays -> Seq(Value)], Collected(cs)
  PROVE  /\ cells' \in [Arrays -> Seq(Value)]
         /\ \A n \in Names : groups'[n] # NoGroup /\ groups'[n].arr \in Arrays =>
              cells'[groups'[n].arr] = cs[groups'[n].arr]
         /\ \A t \in Threads : slice'[t].len > 0 /\ slice'[t].arr \in Arrays =>
              cells'[slice'[t].arr] = cs[slice'[t].arr]
<1>1. cells' = [a \in Arrays |-> IF a \in Reachable' THEN cs[a] ELSE <<>>]
  BY DEF Collected
<1>2. <<>> \in Seq(Value)
  BY EmptySeq
<1>3. cells' \in [Arrays -> Seq(Value)]
  BY <1>1, <1>2
<1>4. ASSUME NEW n \in Names, groups'[n] # NoGroup PROVE groups'[n].arr \in Reachable'
  BY <1>4 DEF Reachable
<1>5. ASSUME NEW t \in Threads, slice'[t].len > 0 PROVE slice'[t].arr \in Reachable'
  BY <1>5 DEF Reachable
<1> QED
  BY <1>1, <1>3, <1>4, <1>5


-----------------------------------------------------------------------------
(* The inductive invariant *)

\* The steps of Play that read the group's array without the lock.
Plays(t) == pc[t] \in {"read", "route", "played"}

\* No member has been removed since Play read the group.
Undisturbed(t) == Plays(t) /\ stayed[t] = atStart[t]

\* Only Remove holds the lock over several steps.
Locked ==
  /\ \A t \in Threads : mu = t <=> pc[t] = "filter"
  /\ \A t \in Threads : pc[t] # "idle" => request[t] \in Requests
  /\ \A t \in Threads : pc[t] = "filter" => request[t].kind = "remove"

\* No two groups have the same array.
OwnArrays ==
  \A m, n \in Names :
    groups[m] # NoGroup /\ groups[n] # NoGroup /\ groups[m].arr = groups[n].arr => m = n

\* If a group has the array that Play reads, it is the group that is played, and it
\* has at least as many members.
ReadsOwn(t) ==
  Plays(t) /\ slice[t].len > 0 =>
    \A n \in Names : groups[n] # NoGroup /\ groups[n].arr = slice[t].arr =>
      n = request[t].name /\ slice[t].len <= groups[n].len

\* A request that has yet to do anything.
Idles(t) ==
  pc[t] \in {"idle", "apply"} => next[t] = 1 /\ kept[t] = 0 /\ routed[t] = {}

\* Remove works on the list of the group, and writes behind the place it reads.
Filters(t) ==
  pc[t] = "filter" =>
    /\ groups[request[t].name] = slice[t]
    /\ kept[t] < next[t]
    /\ next[t] <= slice[t].len + 1

\* How far Play's loop is.
Turns(t) ==
  Plays(t) =>
    /\ next[t] <= slice[t].len + 1
    /\ pc[t] = "route" => next[t] <= slice[t].len
    /\ pc[t] = "played" => next[t] = slice[t].len + 1
    /\ stayed[t] \subseteq atStart[t]

\* An undisturbed Play still has the members it started with in its slice, and has
\* routed those in front of its place.
Whole(t) ==
  Undisturbed(t) =>
    /\ atStart[t] = {cells[slice[t].arr][i] : i \in 1..slice[t].len}
    /\ routed[t] = {cells[slice[t].arr][i] : i \in 1..next[t] - 1}
    /\ pc[t] = "route" => device[t] = cells[slice[t].arr][next[t]]

\* A Remove that works in the array of an undisturbed Play finds no device to drop
\* among Play's members, so that it writes each of them over itself.
Spared(t) ==
  Undisturbed(t) /\ slice[t].len > 0 =>
    \A u \in Threads : pc[u] = "filter" /\ slice[u].arr = slice[t].arr =>
      /\ request[u].device \notin atStart[t]
      /\ kept[u] = next[u] - 1 \/ slice[t].len <= kept[u]

GroupsInv ==
  /\ TypeOK
  /\ Locked
  /\ OwnArrays
  /\ \A t \in Threads :
       Idles(t) /\ ReadsOwn(t) /\ Filters(t) /\ Turns(t) /\ Whole(t) /\ Spared(t)

-----------------------------------------------------------------------------
(* What a step leaves alone *)

\* A step of another request.
Rests(u) ==
  /\ pc'[u] = pc[u] /\ request'[u] = request[u] /\ slice'[u] = slice[u]
  /\ next'[u] = next[u] /\ kept'[u] = kept[u] /\ device'[u] = device[u]
  /\ routed'[u] = routed[u] /\ atStart'[u] = atStart[u]

\* What a request that holds or takes no lock leaves of the arrays, the groups and
\* the lock to the requests other than t.
StoreKept(t) ==
  /\ cells' \in [Arrays -> Seq(Value)]
  /\ groups' \in [Names -> Slice \cup {NoGroup}]
  /\ \A n \in Names : groups'[n] # NoGroup => Holds(groups[n])'
  /\ OwnArrays'
  /\ \A u \in Threads \ {t} :
       /\ Holds(slice[u])'
       /\ Plays(u) => \A i \in 1..slice[u].len :
                        cells'[slice[u].arr][i] = cells[slice[u].arr][i]
       /\ ReadsOwn(u)'
  /\ \/ mu' = NoThread /\ mu \in {NoThread, t}
     \/ mu' = mu /\ mu # t /\ groups' = groups

LEMMA ThreadTyped ==
  ASSUME TypeOK, NEW t \in Threads
  PROVE  /\ pc[t] \in {"idle", "apply", "filter", "read", "route", "played"}
         /\ slice[t] \in Slice /\ slice[t].arr \in Arrays /\ slice[t].len \in Nat
         /\ next[t] \in Nat \ {0} /\ kept[t] \in Nat
         /\ Holds(slice[t])
  BY DEF TypeOK, Slice

\* A Play that rests while its cells and the members that stay are not added to.
LEMMA PlayRests ==
  ASSUME TypeOK, NEW u \in Threads, Turns(u), Whole(u), Rests(u),
         stayed'[u] \subseteq stayed[u],
         Undisturbed(u) => \A i \in 1..slice[u].len :
                             cells'[slice[u].arr][i] = cells[slice[u].arr][i]
  PROVE  Turns(u)' /\ Whole(u)' /\ (Undisturbed(u)' => Undisturbed(u))
<1>1. slice[u].len \in Nat /\ next[u] \in Nat \ {0}
  BY ThreadTyped
<1>2. Turns(u)'
  BY DEF Turns, Plays, Rests
<1>3. ASSUME Undisturbed(u)' PROVE Undisturbed(u)
  BY <1>3 DEF Undisturbed, Plays, Turns, Rests
<1>4. Whole(u)'
  <2> SUFFICES ASSUME Undisturbed(u)'
               PROVE  /\ atStart'[u] = {cells'[slice'[u].arr][i] : i \in 1..slice'[u].len}
                      /\ routed'[u] = {cells'[slice'[u].arr][i] : i \in 1..next'[u] - 1}
                      /\ pc'[u] = "route" => device'[u] = cells'[slice'[u].arr][next'[u]]
    BY DEF Whole
  <2>1. Undisturbed(u) /\ Plays(u)
    BY <1>3 DEF Undisturbed
  <2>2. /\ atStart[u] = {cells[slice[u].arr][i] : i \in 1..slice[u].len}
        /\ routed[u] = {cells[slice[u].arr][i] : i \in 1..next[u] - 1}
        /\ pc[u] = "route" => device[u] = cells[slice[u].arr][next[u]]
    BY <2>1 DEF Whole
  <2>3. \A i \in 1..slice[u].len : cells'[slice[u].arr][i] = cells[slice[u].arr][i]
    BY <2>1
  <2>4. next[u] <= slice[u].len + 1 /\ (pc[u] = "route" => next[u] <= slice[u].len)
    BY <2>1 DEF Turns
  <2>5. \A i \in 1..next[u] - 1 : i \in 1..slice[u].len
    BY <1>1, <2>4
  <2>6. /\ atStart'[u] = atStart[u] /\ routed'[u] = routed[u] /\ device'[u] = device[u]
        /\ slice'[u] = slice[u] /\ next'[u] = next[u] /\ pc'[u] = pc[u]
    BY DEF Rests
  <2>7. pc'[u] = "route" => device'[u] = cells'[slice'[u].arr][next'[u]]
    <3>1. pc[u] = "route" => next[u] \in 1..slice[u].len
      BY <1>1, <2>4
    <3> QED
      BY <2>2, <2>3, <2>6, <3>1
  <2>8. {cells'[slice'[u].arr][i] : i \in 1..slice'[u].len}
          = {cells[slice[u].arr][i] : i \in 1..slice[u].len}
    BY <2>3, <2>6
  <2>9. {cells'[slice'[u].arr][i] : i \in 1..next'[u] - 1}
          = {cells[slice[u].arr][i] : i \in 1..next[u] - 1}
    BY <2>3, <2>5, <2>6
  <2> QED
    BY <2>2, <2>6, <2>7, <2>8, <2>9
<1> QED
  BY <1>2, <1>3, <1>4

\* An answer leaves the other requests alone, if what it does to the store does.
LEMMA AnswerKeeps ==
  ASSUME GroupsInv, NEW t \in Threads, Answer(t), StoreKept(t),
         stayed' \in [Threads -> SUBSET Devices],
         \A u \in Threads \ {t} : stayed'[u] \subseteq stayed[u]
  PROVE  GroupsInv'
<1>1. TypeOK /\ Locked
  BY DEF GroupsInv
<1>2. \A u \in Threads \ {t} : Rests(u)
  BY <1>1 DEF Answer, Goto, Rests, TypeOK
<1>3. /\ pc'[t] = "idle" /\ slice'[t] = NoSlice /\ ~Plays(t)'
      /\ \A u \in Threads : pc'[u] = "filter" => u # t
  BY <1>1 DEF Answer, Goto, TypeOK, Plays
<1>4. NoSlice \in Slice /\ NoSlice.len = 0
  <2>1. Arrays # {}
    <3>1. groups \in [Names -> Slice \cup {NoGroup}] /\ slice \in [Threads -> Slice]
      BY <1>1 DEF TypeOK
    <3> QED
      BY <3>1, FreshIsFree
  <2> QED
    BY <2>1 DEF NoSlice, Slice
<1>5. TypeOK'
  <2>1. Holds(slice[t])'
    BY <1>3, <1>4 DEF Holds
  <2>2. /\ cells' \in [Arrays -> Seq(Devices \cup {Blank})]
        /\ groups' \in [Names -> Slice \cup {NoGroup}]
        /\ \A n \in Names : groups'[n] # NoGroup => Holds(groups[n])'
        /\ mu' \in Threads \cup {NoThread}
        /\ \A u \in Threads : Holds(slice[u])'
    BY <1>1, <2>1 DEF StoreKept, Value, TypeOK
  <2>3. /\ pc' \in [Threads -> {"idle", "apply", "filter", "read", "route", "played"}]
        /\ request' \in [Threads -> Requests \cup {NoRequest}]
        /\ slice' \in [Threads -> Slice]
        /\ next' \in [Threads -> Nat \ {0}]
        /\ kept' \in [Threads -> Nat]
    BY <1>1, <1>4 DEF Answer, Goto, TypeOK
  <2>4. /\ device' \in [Threads -> Devices \cup {Garbled, Blank}]
        /\ routed' \in [Threads -> SUBSET Devices]
        /\ atStart' \in [Threads -> SUBSET Devices]
    BY <1>1 DEF Answer, TypeOK
  <2> QED
    BY <2>2, <2>3, <2>4 DEF TypeOK
<1>6. Locked'
  <2>1. \A u \in Threads : mu' = u <=> pc'[u] = "filter"
    BY <1>1, <1>2, <1>3, GroupsAssumption DEF Locked, Rests, StoreKept
  <2> QED
    BY <1>1, <1>2, <1>3, <2>1 DEF Locked, Rests
<1>7. OwnArrays'
  BY DEF StoreKept
<1>8. ASSUME NEW u \in Threads
      PROVE  Idles(u)' /\ ReadsOwn(u)' /\ Filters(u)' /\ Turns(u)' /\ Whole(u)' /\ Spared(u)'
  <2>1. CASE u = t
    <3>1. Idles(t)'
      BY <1>1 DEF Answer, TypeOK, Idles
    <3> QED
      BY <1>3, <2>1, <3>1 DEF ReadsOwn, Filters, Turns, Whole, Spared, Undisturbed
  <2>2. CASE u # t
    <3>1. /\ ReadsOwn(u)'
          /\ Plays(u) => \A i \in 1..slice[u].len :
                           cells'[slice[u].arr][i] = cells[slice[u].arr][i]
      BY <2>2 DEF StoreKept
    <3>2. Rests(u) /\ stayed'[u] \subseteq stayed[u]
      BY <1>2, <2>2
    <3>3. Turns(u)' /\ Whole(u)' /\ (Undisturbed(u)' => Undisturbed(u))
      BY <1>1, <3>1, <3>2, PlayRests DEF GroupsInv, Undisturbed
    <3>4. ASSUME NEW v \in Threads, pc'[v] = "filter"
          PROVE  Rests(v) /\ pc[v] = "filter" /\ groups' = groups
      <4>1. v # t /\ Rests(v) /\ pc[v] = "filter"
        BY <1>2, <1>3, <3>4 DEF Rests
      <4>2. mu = v
        BY <1>1, <4>1 DEF Locked
      <4> QED
        BY <4>1, <4>2, GroupsAssumption DEF StoreKept
    <3>5. Filters(u)'
      BY <3>4 DEF GroupsInv, Filters, Rests
    <3>6. Spared(u)'
      <4> SUFFICES ASSUME Undisturbed(u)', slice'[u].len > 0, NEW v \in Threads,
                          pc'[v] = "filter", slice'[v].arr = slice'[u].arr
                   PROVE  /\ request'[v].device \notin atStart'[u]
                          /\ kept'[v] = next'[v] - 1 \/ slice'[u].len <= kept'[v]
        BY DEF Spared
      <4>1. Undisturbed(u) /\ slice[u].len > 0 /\ slice[v].arr = slice[u].arr
        BY <3>2, <3>3, <3>4 DEF Rests
      <4>2. /\ request[v].device \notin atStart[u]
            /\ kept[v] = next[v] - 1 \/ slice[u].len <= kept[v]
        BY <3>4, <4>1 DEF GroupsInv, Spared
      <4> QED
        BY <3>2, <3>4, <4>2 DEF Rests
    <3>7. Idles(u)'
      BY <3>2 DEF GroupsInv, Idles, Rests
    <3> QED
      BY <3>1, <3>3, <3>5, <3>6, <3>7
  <2> QED
    BY <2>1, <2>2
<1> QED
  BY <1>5, <1>6, <1>7, <1>8 DEF GroupsInv

LEMMA AnswerRests ==
  ASSUME TypeOK, NEW t \in Threads, Answer(t)
  PROVE  /\ \A u \in Threads \ {t} : Rests(u)
         /\ slice'[t] = NoSlice
  BY DEF Answer, Goto, Rests, TypeOK

\* An answer that changes no group.
LEMMA NothingSaved ==
  ASSUME GroupsInv, NEW t \in Threads, Answer(t), groups' = groups, mu' = mu, mu # t,
         Collected(cells) \/ cells' = cells
  PROVE  StoreKept(t)
<1>1. /\ cells \in [Arrays -> Seq(Value)] /\ groups \in [Names -> Slice \cup {NoGroup}]
      /\ \A n \in Names : groups[n] # NoGroup => Holds(groups[n])
      /\ \A n \in Names : groups[n] # NoGroup => groups[n] \in Slice
  BY DEF GroupsInv, TypeOK, Value
<1>2. \A u \in Threads \ {t} : Rests(u)
  BY AnswerRests DEF GroupsInv
<1>3. /\ cells' \in [Arrays -> Seq(Value)]
      /\ \A n \in Names : groups[n] # NoGroup => cells'[groups[n].arr] = cells[groups[n].arr]
      /\ \A u \in Threads \ {t} :
           slice[u].len > 0 => cells'[slice[u].arr] = cells[slice[u].arr]
  <2>1. CASE cells' = cells
    BY <1>1, <2>1
  <2>2. CASE Collected(cells)
    <3>1. \A n \in Names : groups[n] # NoGroup => groups[n].arr \in Arrays
      BY <1>1 DEF Slice
    <3>2. \A u \in Threads \ {t} : slice'[u] = slice[u] /\ slice[u].arr \in Arrays
      BY <1>2, ThreadTyped DEF GroupsInv, Rests
    <3>3. /\ cells' \in [Arrays -> Seq(Value)]
          /\ \A n \in Names : groups'[n] # NoGroup /\ groups'[n].arr \in Arrays =>
               cells'[groups'[n].arr] = cells[groups'[n].arr]
          /\ \A u \in Threads : slice'[u].len > 0 /\ slice'[u].arr \in Arrays =>
               cells'[slice'[u].arr] = cells[slice'[u].arr]
      BY <1>1, <2>2, CollectedKept
    <3> QED
      BY <3>1, <3>2, <3>3
  <2> QED
    BY <2>1, <2>2
<1>4. ASSUME NEW n \in Names, groups'[n] # NoGroup PROVE Holds(groups[n])'
  BY <1>1, <1>3, <1>4 DEF Holds
<1>5. OwnArrays'
  BY DEF GroupsInv, OwnArrays
<1>6. ASSUME NEW u \in Threads \ {t}
      PROVE  /\ Holds(slice[u])'
             /\ Plays(u) => \A i \in 1..slice[u].len :
                              cells'[slice[u].arr][i] = cells[slice[u].arr][i]
             /\ ReadsOwn(u)'
  <2>1. slice'[u] = slice[u] /\ slice[u].len \in Nat /\ Holds(slice[u])
    BY <1>2, ThreadTyped DEF GroupsInv, Rests
  <2>2. \A i \in 1..slice[u].len : cells'[slice[u].arr][i] = cells[slice[u].arr][i]
    BY <1>3, <2>1
  <2>3. Holds(slice[u])'
    <3>1. CASE slice[u].len = 0
      BY <2>1, <3>1 DEF Holds
    <3>2. CASE slice[u].len > 0
      BY <1>3, <2>1, <3>2 DEF Holds
    <3> QED
      BY <2>1, <3>1, <3>2
  <2>4. ReadsOwn(u)'
    BY <1>2 DEF GroupsInv, ReadsOwn, Plays, Rests
  <2> QED
    BY <2>2, <2>3, <2>4
<1> QED
  BY <1>1, <1>3, <1>4, <1>5, <1>6 DEF StoreKept

\* An answer that saves a list, in an array of no one or behind the group's own list.
LEMMA ListSaved ==
  ASSUME GroupsInv, NEW t \in Threads, Answer(t), mu' = NoThread, mu \in {NoThread, t},
         NEW n \in Names, NEW a \in Arrays, NEW len \in Nat, NEW list \in Seq(Value),
         Save(n, a, len, list),
         \A i \in 1..len : i \in DOMAIN list /\ list[i] \in Devices,
         \/ a \notin Reachable
         \/ /\ groups[n] # NoGroup /\ groups[n].arr = a /\ groups[n].len < len
            /\ \A i \in 1..groups[n].len : list[i] = cells[a][i]
            /\ \A i \in DOMAIN cells[a] :
                 i \in DOMAIN list /\ (list[i] = cells[a][i] \/ list[i] \in Devices)
  PROVE  StoreKept(t)
<1>1. /\ cells \in [Arrays -> Seq(Value)] /\ groups \in [Names -> Slice \cup {NoGroup}]
      /\ \A m \in Names : groups[m] # NoGroup => Holds(groups[m]) /\ groups[m] \in Slice
      /\ OwnArrays
  BY DEF GroupsInv, TypeOK, Value
<1>2. /\ groups' = [groups EXCEPT ![n] = [arr |-> a, len |-> len]]
      /\ Collected([cells EXCEPT ![a] = list])
  BY DEF Save
<1>3. [arr |-> a, len |-> len] \in Slice /\ [arr |-> a, len |-> len] # NoGroup
  BY GroupsAssumption DEF Slice
<1>4. /\ groups' \in [Names -> Slice \cup {NoGroup}]
      /\ groups'[n] = [arr |-> a, len |-> len]
      /\ \A m \in Names \ {n} : groups'[m] = groups[m]
  BY <1>1, <1>2, <1>3
<1>5. /\ \A u \in Threads \ {t} : Rests(u) /\ slice'[u] = slice[u]
      /\ \A u \in Threads : slice[u].arr \in Arrays /\ slice[u].len \in Nat /\ Holds(slice[u])
  BY AnswerRests, ThreadTyped DEF GroupsInv, Rests
<1>6. /\ cells' \in [Arrays -> Seq(Value)]
      /\ cells'[a] = list
      /\ \A m \in Names : groups'[m] # NoGroup /\ groups'[m].arr # a =>
           cells'[groups'[m].arr] = cells[groups'[m].arr]
      /\ \A u \in Threads \ {t} : slice[u].len > 0 /\ slice[u].arr # a =>
           cells'[slice[u].arr] = cells[slice[u].arr]
  <2> DEFINE cs == [cells EXCEPT ![a] = list]
  <2>1. cs \in [Arrays -> Seq(Value)] /\ cs[a] = list /\ \A b \in Arrays \ {a} : cs[b] = cells[b]
    BY <1>1
  <2>2. \A m \in Names : groups'[m] # NoGroup => groups'[m].arr \in Arrays
    BY <1>4 DEF Slice
  <2> HIDE DEF cs
  <2>3. /\ cells' \in [Arrays -> Seq(Value)]
        /\ \A m \in Names : groups'[m] # NoGroup => cells'[groups'[m].arr] = cs[groups'[m].arr]
        /\ \A u \in Threads \ {t} :
             slice[u].len > 0 => cells'[slice[u].arr] = cs[slice[u].arr]
    <3>1. Collected(cs)
      BY <1>2 DEF cs
    <3>2. /\ cells' \in [Arrays -> Seq(Value)]
          /\ \A m \in Names : groups'[m] # NoGroup /\ groups'[m].arr \in Arrays =>
               cells'[groups'[m].arr] = cs[groups'[m].arr]
          /\ \A u \in Threads : slice'[u].len > 0 /\ slice'[u].arr \in Arrays =>
               cells'[slice'[u].arr] = cs[slice'[u].arr]
      BY <2>1, <3>1, CollectedKept
    <3>3. \A u \in Threads \ {t} : slice'[u] = slice[u] /\ slice[u].arr \in Arrays
      BY <1>5
    <3> QED
      BY <2>2, <3>2, <3>3
  <2> QED
    BY <1>3, <1>4, <1>5, <2>1, <2>2, <2>3
<1>7. ASSUME NEW m \in Names \ {n}, groups[m] # NoGroup PROVE groups[m].arr # a
  BY <1>1, <1>7 DEF OwnArrays, Reachable
<1>8. OwnArrays'
  BY <1>1, <1>4, <1>7 DEF OwnArrays
<1>9. ASSUME NEW m \in Names, groups'[m] # NoGroup PROVE Holds(groups[m])'
  <2>1. CASE m = n
    BY <1>4, <1>6, <2>1 DEF Holds
  <2>2. CASE m # n
    BY <1>1, <1>4, <1>6, <1>7, <1>9, <2>2 DEF Holds
  <2> QED
    BY <2>1, <2>2
<1>10. ASSUME NEW u \in Threads \ {t}
       PROVE  /\ Holds(slice[u])'
              /\ Plays(u) => \A i \in 1..slice[u].len :
                               cells'[slice[u].arr][i] = cells[slice[u].arr][i]
              /\ ReadsOwn(u)'
  <2>1. slice'[u] = slice[u] /\ slice[u].len \in Nat /\ Holds(slice[u]) /\ Rests(u)
    BY <1>5
  <2>2. CASE slice[u].len = 0
    BY <2>1, <2>2 DEF Holds, ReadsOwn
  <2>3. CASE slice[u].len > 0 /\ slice[u].arr # a
    <3>1. ReadsOwn(u)'
      BY <1>4, <2>1, <2>3 DEF GroupsInv, ReadsOwn, Plays, Rests
    <3> QED
      BY <1>6, <2>1, <2>3, <3>1 DEF Holds
  <2>4. CASE slice[u].len > 0 /\ slice[u].arr = a
    <3>1. /\ groups[n] # NoGroup /\ groups[n].arr = a /\ groups[n].len < len
          /\ \A i \in 1..groups[n].len : list[i] = cells[a][i]
          /\ \A i \in DOMAIN cells[a] :
               i \in DOMAIN list /\ (list[i] = cells[a][i] \/ list[i] \in Devices)
      BY <2>4 DEF Reachable
    <3>2. Holds(slice[u])'
      BY <1>6, <2>1, <2>4, <3>1 DEF Holds
    <3>3. ASSUME Plays(u)
          PROVE  n = request[u].name /\ slice[u].len <= groups[n].len
      BY <2>4, <3>1, <3>3 DEF GroupsInv, ReadsOwn
    <3>4. groups[n].len \in Nat
      BY <1>1, <3>1 DEF Slice
    <3>5. Plays(u) => \A i \in 1..slice[u].len :
                        cells'[slice[u].arr][i] = cells[slice[u].arr][i]
      BY <1>6, <2>1, <2>4, <3>1, <3>3, <3>4
    <3>6. ReadsOwn(u)'
      <4> SUFFICES ASSUME Plays(u)', NEW m \in Names,
                          groups'[m] # NoGroup, groups'[m].arr = slice'[u].arr
                   PROVE  m = request'[u].name /\ slice'[u].len <= groups'[m].len
        BY DEF ReadsOwn
      <4>1. Plays(u) /\ request'[u] = request[u]
        BY <2>1 DEF Plays, Rests
      <4>2. m = n
        BY <1>4, <1>7, <2>1, <2>4
      <4> QED
        BY <1>4, <2>1, <3>1, <3>3, <3>4, <4>1, <4>2
    <3> QED
      BY <3>2, <3>5, <3>6
  <2> QED
    BY <2>1, <2>2, <2>3, <2>4
<1> QED
  BY <1>4, <1>6, <1>8, <1>9, <1>10 DEF StoreKept

-----------------------------------------------------------------------------
(* Requests that answer at once *)

LEMMA CreateKeeps ==
  ASSUME GroupsInv, NEW t \in Threads, NEW n \in Names, Create(t, n)
  PROVE  GroupsInv'
<1> DEFINE list == request[t].list
<1>1. request[t] \in Requests /\ request[t].kind = "create"
  BY DEF Create, Starts, GroupsInv, Locked
<1>2. list \in Seq(Devices)
  BY <1>1, GroupsAssumption
<1>3. /\ list \in Seq(Value) /\ Len(list) \in Nat
      /\ \A i \in 1..Len(list) : i \in DOMAIN list /\ list[i] \in Devices
  BY <1>2, LenProperties, ElementOfSeq, SeqMonotonic DEF Value
<1>4. Fresh \in Arrays /\ Fresh \notin Reachable
  BY FreshIsFree DEF GroupsInv, TypeOK
<1>5. /\ Answer(t) /\ mu' = NoThread /\ mu \in {NoThread, t}
      /\ Save(n, Fresh, Len(list), list) /\ OnlyStay(n, ToSet(list))
  BY DEF Create, Starts
<1>6. StoreKept(t)
  BY <1>3, <1>4, <1>5, ListSaved
<1>7. /\ stayed' \in [Threads -> SUBSET Devices]
      /\ \A u \in Threads : stayed'[u] \subseteq stayed[u]
  BY <1>5 DEF OnlyStay, GroupsInv, TypeOK
<1> QED
  BY <1>5, <1>6, <1>7, AnswerKeeps

LEMMA NotFoundKeeps ==
  ASSUME GroupsInv, NEW t \in Threads, NEW n \in Names, NotFound(t, n)
  PROVE  GroupsInv'
<1>1. /\ Answer(t) /\ UNCHANGED <<cells, groups, mu, stayed>> /\ mu = NoThread
  BY DEF NotFound, Starts, store
<1>2. StoreKept(t)
  BY <1>1, NothingSaved, GroupsAssumption
<1> QED
  BY <1>1, <1>2, AnswerKeeps DEF GroupsInv, TypeOK

LEMMA AddKeeps ==
  ASSUME GroupsInv, NEW t \in Threads, NEW n \in Names, Add(t, n)
  PROVE  GroupsInv'
<1> DEFINE d == request[t].device
           s == groups[n]
<1>1. /\ Answer(t) /\ UNCHANGED <<mu, stayed>> /\ mu = NoThread
      /\ groups[n] # NoGroup /\ request[t].kind = "add"
  BY DEF Add, Starts
<1>2. d \in Devices
  <2>1. request[t] \in Requests
    BY DEF GroupsInv, Locked, Add, Starts
  <2> QED
    BY <1>1, <2>1, GroupsAssumption
<1>3. /\ s \in Slice /\ s.arr \in Arrays /\ s.len \in Nat /\ Holds(s)
      /\ cells[s.arr] \in Seq(Value)
  BY <1>1 DEF GroupsInv, TypeOK, Slice, Value
<1>4. StoreKept(t)
  <2>1. CASE UNCHANGED <<cells, groups>>
    BY <1>1, <2>1, NothingSaved, GroupsAssumption
  <2>2. CASE AppendTo(n, s, d)
    <3> DEFINE cs == cells[s.arr]
    <3>1. CASE s.len < Len(cs)
      <4> DEFINE list == [cs EXCEPT ![s.len + 1] = d]
      <4>1. Len(cs) \in Nat /\ DOMAIN cs = 1..Len(cs) /\ s.len + 1 \in 1..Len(cs)
        BY <1>3, <3>1, LenProperties
      <4>2. cs # <<>>
        BY <4>1
      <4>3. Save(n, s.arr, s.len + 1, list)
        BY <2>2, <3>1, <4>2 DEF AppendTo
      <4>4. /\ list \in Seq(Value) /\ Len(list) = Len(cs)
            /\ \A i \in 1..Len(cs) : list[i] = IF i = s.len + 1 THEN d ELSE cs[i]
        BY <1>2, <1>3, <4>1, ExceptSeq DEF Value
      <4>5. DOMAIN list = 1..Len(cs)
        BY <4>1
      <4>6. \A i \in 1..s.len + 1 : i \in DOMAIN list /\ list[i] \in Devices
        BY <1>2, <1>3, <4>1, <4>4, <4>5 DEF Holds
      <4>7. \A i \in 1..s.len : list[i] = cs[i]
        BY <1>3, <4>1, <4>4
      <4>8. \A i \in DOMAIN cs : i \in DOMAIN list /\ (list[i] = cs[i] \/ list[i] \in Devices)
        BY <1>2, <4>1, <4>4, <4>5
      <4> HIDE DEF list
      <4>9. s.len + 1 \in Nat /\ s.len < s.len + 1
        BY <1>3
      <4> QED
        BY <1>1, <1>3, <4>3, <4>4, <4>6, <4>7, <4>8, <4>9, ListSaved
    <3>2. CASE ~(s.len < Len(cs))
      <4> DEFINE more == [i \in DOMAIN Contents(s) |-> Blank]
                 array == Contents(s) \o more
                 list == IF array = <<>> THEN <<d>> ELSE [array EXCEPT ![s.len + 1] = d]
      <4>1. Fresh \in Arrays /\ Fresh \notin Reachable /\ Fresh # s.arr
        BY <1>1, FreshIsFree DEF GroupsInv, TypeOK, Reachable
      <4>2. Save(n, Fresh, s.len + 1, list)
        BY <2>2, <3>2, <4>1 DEF AppendTo
      <4>3. /\ Contents(s) \in Seq(Devices) /\ Len(Contents(s)) = s.len
            /\ DOMAIN Contents(s) = 1..s.len
        BY <1>3, ContentsOf
      <4>4. Contents(s) \in Seq(Value)
        BY <4>3, SeqMonotonic DEF Value
      <4>5. more \in Seq(Value) /\ Len(more) = s.len
        BY <1>3, <4>3 DEF Value
      <4> HIDE DEF more
      <4>6. /\ array \in Seq(Value) /\ Len(array) = s.len + s.len
            /\ \A i \in 1..s.len : array[i] = Contents(s)[i]
        <5>1. /\ array \in Seq(Value) /\ Len(array) = Len(Contents(s)) + Len(more)
              /\ \A i \in 1..Len(Contents(s)) + Len(more) :
                   array[i] = IF i <= Len(Contents(s)) THEN Contents(s)[i]
                              ELSE more[i - Len(Contents(s))]
          BY <4>4, <4>5, ConcatProperties
        <5>2. \A i \in 1..s.len : i \in 1..s.len + s.len /\ i <= s.len
          BY <1>3
        <5> QED
          BY <4>3, <4>5, <5>1, <5>2
      <4> HIDE DEF array
      <4>7. /\ list \in Seq(Value)
            /\ \A i \in 1..s.len + 1 : i \in DOMAIN list /\ list[i] \in Devices
        <5>1. CASE array = <<>>
          <6>1. s.len = 0 /\ list = <<d>>
            BY <1>3, <4>6, <5>1
          <6>2. <<d>> \in Seq(Value)
            BY <1>2 DEF Value
          <6>3. \A i \in 1..0 + 1 : i \in DOMAIN <<d>> /\ <<d>>[i] \in Devices
            BY <1>2
          <6> QED
            BY <6>1, <6>2, <6>3
        <5>2. CASE array # <<>>
          <6>1. s.len + 1 \in 1..Len(array)
            BY <1>3, <4>6, <5>2, EmptySeq
          <6>2. /\ list \in Seq(Value) /\ Len(list) = Len(array)
                /\ \A i \in 1..Len(array) : list[i] = IF i = s.len + 1 THEN d ELSE array[i]
            BY <1>2, <4>6, <5>2, <6>1, ExceptSeq DEF Value
          <6>3. DOMAIN list = 1..Len(array)
            BY <6>2, LenProperties
          <6>4. \A i \in 1..s.len : Contents(s)[i] \in Devices
            BY <4>3, ElementOfSeq
          <6>5. ASSUME NEW i \in 1..s.len + 1
                PROVE  i \in DOMAIN list /\ list[i] \in Devices
            <7>1. i \in 1..Len(array)
              BY <1>3, <6>1
            <7>2. CASE i = s.len + 1
              BY <1>2, <6>2, <6>3, <7>1, <7>2
            <7>3. CASE i # s.len + 1
              <8>1. i \in 1..s.len
                BY <1>3, <7>3
              <8> QED
                BY <4>6, <6>2, <6>3, <6>4, <7>1, <7>3, <8>1
            <7> QED
              BY <7>2, <7>3
          <6> QED
            BY <6>2, <6>5
        <5> QED
          BY <5>1, <5>2
      <4>8. s.len + 1 \in Nat
        BY <1>3
      <4> HIDE DEF list
      <4> QED
        BY <1>1, <4>1, <4>2, <4>7, <4>8, ListSaved
    <3> QED
      BY <3>1, <3>2
  <2> QED
    BY <2>1, <2>2 DEF Add
<1> QED
  BY <1>1, <1>4, AnswerKeeps DEF GroupsInv, TypeOK

LEMMA EndRemoveKeeps ==
  ASSUME GroupsInv, NEW t \in Threads, EndRemove(t)
  PROVE  GroupsInv'
<1>1. /\ Answer(t) /\ mu' = NoThread /\ stayed' = stayed
      /\ pc[t] = "filter" /\ next[t] > slice[t].len
      /\ Save(request[t].name, Fresh, Len(Filtered(t)), Filtered(t))
  BY DEF EndRemove
<1>2. mu = t /\ request[t].name \in Names
  BY <1>1, GroupsAssumption DEF GroupsInv, Locked
<1>3. Fresh \in Arrays /\ Fresh \notin Reachable
  BY FreshIsFree DEF GroupsInv, TypeOK
<1>4. kept[t] \in Nat /\ kept[t] <= slice[t].len /\ slice[t] \in Slice /\ Holds(slice[t])
      /\ slice[t].len \in Nat
  <2>1. kept[t] < next[t] /\ next[t] <= slice[t].len + 1
    BY <1>1 DEF GroupsInv, Filters
  <2>2. next[t] \in Nat /\ kept[t] \in Nat /\ slice[t] \in Slice /\ slice[t].len \in Nat
        /\ Holds(slice[t])
    BY ThreadTyped DEF GroupsInv
  <2> QED
    BY <2>1, <2>2
<1>5. Filtered(t) \in Seq(Devices)
  <2>1. \A i \in 1..kept[t] : Contents(slice[t])[i] \in Devices
    BY <1>4, ContentsOf, ElementOfSeq
  <2> QED
    BY <1>4, <2>1, SubSeqProperties DEF Filtered
<1>6. /\ Filtered(t) \in Seq(Value) /\ Len(Filtered(t)) \in Nat
      /\ \A i \in 1..Len(Filtered(t)) : i \in DOMAIN Filtered(t) /\ Filtered(t)[i] \in Devices
  BY <1>5, LenProperties, ElementOfSeq, SeqMonotonic DEF Value
<1>7. StoreKept(t)
  BY <1>1, <1>2, <1>3, <1>6, ListSaved
<1> QED
  BY <1>1, <1>7, AnswerKeeps DEF GroupsInv, TypeOK

\* Play answers, with an error or without.
LEMMA PlayAnswerKeeps ==
  ASSUME GroupsInv, NEW t \in Threads, RouteFails(t) \/ Played(t)
  PROVE  GroupsInv'
<1>1. /\ Answer(t) /\ UNCHANGED <<groups, mu>> /\ Collected(cells)
      /\ stayed' = [stayed EXCEPT ![t] = {}] /\ pc[t] # "filter"
  BY DEF RouteFails, Played
<1>2. mu # t
  BY <1>1 DEF GroupsInv, Locked
<1>3. StoreKept(t)
  BY <1>1, <1>2, NothingSaved
<1>4. stayed' \in [Threads -> SUBSET Devices] /\ \A u \in Threads \ {t} : stayed'[u] = stayed[u]
  BY <1>1 DEF GroupsInv, TypeOK
<1> QED
  BY <1>1, <1>3, <1>4, AnswerKeeps

-----------------------------------------------------------------------------
(* Remove *)

\* A Remove that takes the lock, and each turn of its loop.
LEMMA StartRemoveKeeps ==
  ASSUME GroupsInv, NEW t \in Threads, NEW n \in Names, StartRemove(t, n)
  PROVE  GroupsInv'
<1>1. /\ pc[t] = "apply" /\ request[t].kind = "remove" /\ request[t].name = n
      /\ mu = NoThread /\ mu' = t /\ groups[n] # NoGroup
      /\ slice' = [slice EXCEPT ![t] = groups[n]]
      /\ pc' = [pc EXCEPT ![t] = "filter"]
      /\ UNCHANGED <<cells, groups, request, next, kept, device, routed, atStart>>
      /\ OnlyStay(n, ToSet(Contents(groups[n])) \ {request[t].device})
  BY DEF StartRemove, Starts, Goto
<1>2. TypeOK /\ Locked
  BY DEF GroupsInv
<1>3. /\ groups[n] \in Slice /\ Holds(groups[n]) /\ groups[n].len \in Nat
      /\ next[t] = 1 /\ kept[t] = 0
  BY <1>1, <1>2 DEF TypeOK, Slice, GroupsInv, Idles
<1>4. /\ pc'[t] = "filter" /\ slice'[t] = groups[n]
      /\ \A u \in Threads \ {t} : Rests(u) /\ pc[u] # "filter" /\ pc'[u] # "filter"
  BY <1>1, <1>2, GroupsAssumption DEF TypeOK, Rests, Locked
<1>5. /\ stayed' \in [Threads -> SUBSET Devices]
      /\ \A u \in Threads : stayed'[u] \subseteq stayed[u]
      /\ \A u \in Threads : Plays(u) /\ request[u].name = n => request[t].device \notin stayed'[u]
  BY <1>1, <1>2 DEF OnlyStay, TypeOK, Plays
<1>6. TypeOK'
  <2>1. \A u \in Threads : Holds(slice[u])'
    BY <1>1, <1>2, <1>3 DEF TypeOK, Holds
  <2>2. \A m \in Names : groups'[m] # NoGroup => Holds(groups[m])'
    BY <1>1, <1>2 DEF TypeOK, Holds
  <2> QED
    BY <1>1, <1>2, <1>3, <1>5, <2>1, <2>2 DEF TypeOK
<1>7. Locked'
  BY <1>1, <1>2, <1>4, GroupsAssumption DEF Locked, Rests
<1>8. OwnArrays'
  BY <1>1 DEF GroupsInv, OwnArrays
<1>9. ASSUME NEW u \in Threads
      PROVE  /\ Idles(u)' /\ ReadsOwn(u)' /\ Filters(u)' /\ Turns(u)'
             /\ Whole(u)' /\ Spared(u)'
  <2>1. CASE u = t
    <3>1. Filters(t)'
      BY <1>1, <1>3, <1>4 DEF Filters
    <3> QED
      BY <1>4, <2>1, <3>1 DEF Idles, ReadsOwn, Turns, Whole, Spared, Undisturbed, Plays
  <2>2. CASE u # t
    <3>1. Rests(u) /\ stayed'[u] \subseteq stayed[u] /\ cells' = cells /\ groups' = groups
      BY <1>1, <1>4, <1>5, <2>2
    <3>2. Turns(u)' /\ Whole(u)' /\ (Undisturbed(u)' => Undisturbed(u))
      BY <1>2, <3>1, PlayRests DEF GroupsInv
    <3>3. Idles(u)' /\ ReadsOwn(u)' /\ Filters(u)'
      BY <1>4, <2>2, <3>1 DEF GroupsInv, Idles, ReadsOwn, Filters, Plays, Rests
    <3>4. Spared(u)'
      <4> SUFFICES ASSUME Undisturbed(u)', slice'[u].len > 0, NEW v \in Threads,
                          pc'[v] = "filter", slice'[v].arr = slice'[u].arr
                   PROVE  /\ request'[v].device \notin atStart'[u]
                          /\ kept'[v] = next'[v] - 1 \/ slice'[u].len <= kept'[v]
        BY DEF Spared
      <4>1. v = t
        BY <1>4
      <4>2. Plays(u) /\ slice[u].len > 0 /\ slice[u].arr = groups[n].arr /\ atStart'[u] = stayed'[u]
        BY <1>4, <3>1, <4>1 DEF Undisturbed, Plays, Rests
      <4>3. request[u].name = n
        BY <1>1, <4>2 DEF GroupsInv, ReadsOwn
      <4> QED
        BY <1>1, <1>3, <1>5, <4>1, <4>2, <4>3
    <3> QED
      BY <3>2, <3>3, <3>4
  <2> QED
    BY <2>1, <2>2
<1> QED
  BY <1>6, <1>7, <1>8, <1>9 DEF GroupsInv

\* A turn of Remove changes no cell of an undisturbed Play.
LEMMA TurnSpares ==
  ASSUME GroupsInv, NEW t \in Threads, Filter(t), NEW u \in Threads, Undisturbed(u),
         slice[u].len > 0, slice[u].arr = slice[t].arr
  PROVE  /\ \A i \in 1..slice[u].len : cells'[slice[u].arr][i] = cells[slice[u].arr][i]
         /\ kept'[t] = next'[t] - 1 \/ slice[u].len <= kept'[t]
<1> DEFINE a == slice[t].arr
           d == cells[a][next[t]]
<1>1. /\ pc[t] = "filter" /\ next[t] <= slice[t].len
      /\ next' = [next EXCEPT ![t] = next[t] + 1]
      /\ \/ d # request[t].device /\ cells' = [cells EXCEPT ![a][kept[t] + 1] = d]
              /\ kept' = [kept EXCEPT ![t] = kept[t] + 1]
         \/ d = request[t].device /\ UNCHANGED <<cells, kept>>
  BY DEF Filter
<1>2. /\ next[t] \in Nat \ {0} /\ kept[t] \in Nat /\ slice[u].len \in Nat
      /\ a \in Arrays /\ cells[a] \in Seq(Value)
  BY ThreadTyped DEF GroupsInv, TypeOK, Value
<1>3. next'[t] = next[t] + 1
  BY <1>1 DEF GroupsInv, TypeOK
<1>4. /\ request[t].device \notin atStart[u]
      /\ kept[t] = next[t] - 1 \/ slice[u].len <= kept[t]
      /\ atStart[u] = {cells[a][i] : i \in 1..slice[u].len}
  BY <1>1 DEF GroupsInv, Spared, Whole
<1>5. kept[t] < next[t]
  BY <1>1 DEF GroupsInv, Filters
<1>6. CASE d # request[t].device
  <2>1. kept'[t] = kept[t] + 1
    BY <1>1, <1>6 DEF GroupsInv, TypeOK
  <2>2. cells'[a] = [cells[a] EXCEPT ![kept[t] + 1] = d]
    BY <1>1, <1>2, <1>6 DEF GroupsInv, TypeOK
  <2>3. ASSUME NEW i \in 1..slice[u].len PROVE cells'[a][i] = cells[a][i]
    <3>1. i \in DOMAIN cells[a]
      BY ThreadTyped DEF GroupsInv, Holds
    <3>2. CASE i = kept[t] + 1
      <4>1. d = cells[a][i]
        BY <1>2, <1>4, <3>2
      <4> QED
        BY <2>2, <3>1, <3>2, <4>1
    <3>3. CASE i # kept[t] + 1
      BY <2>2, <3>1, <3>3
    <3> QED
      BY <3>2, <3>3
  <2> QED
    BY <1>2, <1>3, <1>4, <2>1, <2>3
<1>7. CASE d = request[t].device
  <2>1. cells' = cells /\ kept' = kept
    BY <1>1, <1>7
  <2>2. slice[u].len <= kept[t]
    <3>1. CASE next[t] <= slice[u].len
      <4>1. d \in atStart[u]
        BY <1>2, <1>4, <3>1
      <4> QED
        BY <1>4, <1>7, <4>1
    <3>2. CASE ~(next[t] <= slice[u].len)
      BY <1>2, <1>4, <3>2
    <3> QED
      BY <3>1, <3>2
  <2> QED
    BY <2>1, <2>2
<1> QED
  BY <1>6, <1>7

LEMMA FilterKeeps ==
  ASSUME GroupsInv, NEW t \in Threads, Filter(t)
  PROVE  GroupsInv'
<1> DEFINE a == slice[t].arr
           d == cells[a][next[t]]
<1>1. /\ pc[t] = "filter" /\ next[t] <= slice[t].len
      /\ next' = [next EXCEPT ![t] = next[t] + 1]
      /\ \/ cells' = [cells EXCEPT ![a][kept[t] + 1] = d] /\ kept' = [kept EXCEPT ![t] = kept[t] + 1]
         \/ UNCHANGED <<cells, kept>>
      /\ UNCHANGED <<groups, mu, pc, request, slice, device, routed, atStart, stayed>>
  BY DEF Filter, history
<1>2. TypeOK /\ Locked
  BY DEF GroupsInv
<1>3. /\ next[t] \in Nat \ {0} /\ kept[t] \in Nat /\ a \in Arrays /\ cells[a] \in Seq(Value)
      /\ slice[t].len \in Nat /\ Holds(slice[t])
  BY <1>2, ThreadTyped DEF TypeOK, Value
<1>4. kept[t] < next[t]
  BY <1>1 DEF GroupsInv, Filters
<1>5. d \in Devices /\ kept[t] + 1 \in DOMAIN cells[a]
  BY <1>1, <1>3, <1>4 DEF Holds
<1>6. /\ cells' \in [Arrays -> Seq(Value)]
      /\ \A b \in Arrays \ {a} : cells'[b] = cells[b]
      /\ DOMAIN cells'[a] = DOMAIN cells[a]
      /\ \A i \in DOMAIN cells[a] : cells'[a][i] = cells[a][i] \/ cells'[a][i] \in Devices
  <2>1. CASE cells' = cells
    BY <1>2, <2>1 DEF TypeOK, Value
  <2>2. CASE cells' = [cells EXCEPT ![a][kept[t] + 1] = d]
    <3>1. cells \in [Arrays -> Seq(Value)]
      BY <1>2 DEF TypeOK, Value
    <3>2. [cells[a] EXCEPT ![kept[t] + 1] = d] \in Seq(Value)
      <4>1. kept[t] + 1 \in 1..Len(cells[a]) /\ d \in Value
        BY <1>3, <1>5, LenProperties DEF Value
      <4> QED
        BY <1>3, <4>1, ExceptSeq
    <3>3. cells'[a] = [cells[a] EXCEPT ![kept[t] + 1] = d] /\ \A b \in Arrays \ {a} : cells'[b] = cells[b]
      BY <1>3, <2>2, <3>1
    <3>4. cells' \in [Arrays -> Seq(Value)]
      BY <2>2, <3>1, <3>2
    <3> QED
      BY <1>5, <3>3, <3>4
  <2> QED
    BY <1>1, <2>1, <2>2
<1>7. ASSUME NEW s \in Slice, Holds(s)
      PROVE  \A i \in 1..s.len : i \in DOMAIN cells'[s.arr] /\ cells'[s.arr][i] \in Devices
  <2>1. s.arr \in Arrays /\ \A i \in 1..s.len : i \in DOMAIN cells[s.arr] /\ cells[s.arr][i] \in Devices
    BY <1>7 DEF Slice, Holds
  <2> QED
    BY <1>6, <2>1
<1>8. TypeOK'
  <2>1. \A u \in Threads : Holds(slice[u])'
    BY <1>1, <1>2, <1>7 DEF TypeOK, Holds
  <2>2. \A m \in Names : groups'[m] # NoGroup => Holds(groups[m])'
    BY <1>1, <1>2, <1>7 DEF TypeOK, Holds
  <2>3. next' \in [Threads -> Nat \ {0}] /\ kept' \in [Threads -> Nat]
    <3>1. next[t] + 1 \in Nat \ {0} /\ kept[t] + 1 \in Nat
      BY <1>3
    <3>2. next \in [Threads -> Nat \ {0}] /\ kept \in [Threads -> Nat]
      BY <1>2 DEF TypeOK
    <3>3. next' = [next EXCEPT ![t] = next[t] + 1]
          /\ (kept' = kept \/ kept' = [kept EXCEPT ![t] = kept[t] + 1])
      BY <1>1
    <3> QED
      BY <3>1, <3>2, <3>3
  <2>4. cells' \in [Arrays -> Seq(Devices \cup {Blank})]
    BY <1>6 DEF Value
  <2> QED
    BY <1>1, <1>2, <2>1, <2>2, <2>3, <2>4 DEF TypeOK
<1>9. Locked' /\ OwnArrays'
  BY <1>1 DEF GroupsInv, Locked, OwnArrays
<1>10. \A u \in Threads \ {t} : Rests(u) /\ pc[u] # "filter"
  BY <1>1, <1>2 DEF TypeOK, Rests, Locked
<1>11. next'[t] = next[t] + 1 /\ kept'[t] \in {kept[t], kept[t] + 1}
  BY <1>1, <1>2 DEF TypeOK
<1>12. ASSUME NEW u \in Threads
       PROVE  /\ Idles(u)' /\ ReadsOwn(u)' /\ Filters(u)' /\ Turns(u)'
              /\ Whole(u)' /\ Spared(u)'
  <2>1. CASE u = t
    <3>1. Filters(t)'
      BY <1>1, <1>3, <1>4, <1>11 DEF GroupsInv, Filters
    <3> QED
      BY <1>1, <2>1, <3>1 DEF Idles, ReadsOwn, Turns, Whole, Spared, Undisturbed, Plays
  <2>2. CASE u # t
    <3>1. Rests(u) /\ stayed' = stayed /\ groups' = groups
      BY <1>1, <1>10, <2>2
    <3>2. slice[u].arr \in Arrays /\ slice[u].len \in Nat
      BY <1>2, ThreadTyped
    <3>3. Undisturbed(u) => \A i \in 1..slice[u].len :
                              cells'[slice[u].arr][i] = cells[slice[u].arr][i]
      BY <1>6, <3>2, TurnSpares
    <3>4. Turns(u)' /\ Whole(u)' /\ (Undisturbed(u)' => Undisturbed(u))
      BY <1>2, <3>1, <3>3, PlayRests DEF GroupsInv
    <3>5. Idles(u)' /\ ReadsOwn(u)' /\ Filters(u)'
      BY <1>10, <2>2, <3>1 DEF GroupsInv, Idles, ReadsOwn, Filters, Plays, Rests
    <3>6. Spared(u)'
      <4> SUFFICES ASSUME Undisturbed(u)', slice'[u].len > 0, NEW v \in Threads,
                          pc'[v] = "filter", slice'[v].arr = slice'[u].arr
                   PROVE  /\ request'[v].device \notin atStart'[u]
                          /\ kept'[v] = next'[v] - 1 \/ slice'[u].len <= kept'[v]
        BY DEF Spared
      <4>1. v = t /\ Undisturbed(u) /\ slice[u].len > 0 /\ slice[u].arr = slice[t].arr
        BY <1>1, <1>10, <3>4 DEF Rests
      <4>2. request[t].device \notin atStart[u]
        BY <1>1, <4>1 DEF GroupsInv, Spared
      <4>3. kept'[t] = next'[t] - 1 \/ slice[u].len <= kept'[t]
        BY <4>1, TurnSpares
      <4> QED
        BY <1>1, <4>1, <4>2, <4>3
    <3> QED
      BY <3>4, <3>5, <3>6
  <2> QED
    BY <2>1, <2>2
<1> QED
  BY <1>8, <1>9, <1>12 DEF GroupsInv

-----------------------------------------------------------------------------
(* Requests on their own *)

\* A step that leaves the store and the other requests alone, and is none of Remove.
LEMMA OthersKept ==
  ASSUME GroupsInv, NEW t \in Threads, UNCHANGED <<cells, groups, mu>>,
         pc[t] # "filter", pc'[t] # "filter",
         pc'[t] # "idle" => request'[t] \in Requests,
         \A u \in Threads \ {t} : Rests(u) /\ stayed'[u] \subseteq stayed[u]
  PROVE  /\ Locked' /\ OwnArrays'
         /\ \A u \in Threads \ {t} : /\ Idles(u)' /\ ReadsOwn(u)' /\ Filters(u)'
                                     /\ Turns(u)' /\ Whole(u)' /\ Spared(u)'
<1>1. TypeOK /\ Locked
  BY DEF GroupsInv
<1>2. Locked'
  BY <1>1 DEF Locked, Rests
<1>3. OwnArrays'
  BY DEF GroupsInv, OwnArrays
<1>4. ASSUME NEW u \in Threads \ {t}
      PROVE  /\ Idles(u)' /\ ReadsOwn(u)' /\ Filters(u)'
             /\ Turns(u)' /\ Whole(u)' /\ Spared(u)'
  <2>1. Rests(u) /\ stayed'[u] \subseteq stayed[u]
    OBVIOUS
  <2>2. Turns(u)' /\ Whole(u)' /\ (Undisturbed(u)' => Undisturbed(u))
    BY <1>1, <2>1, PlayRests DEF GroupsInv
  <2>3. Idles(u)' /\ ReadsOwn(u)' /\ Filters(u)'
    BY <2>1 DEF GroupsInv, Idles, ReadsOwn, Filters, Plays, Rests
  <2>4. Spared(u)'
    <3> SUFFICES ASSUME Undisturbed(u)', slice'[u].len > 0, NEW v \in Threads,
                        pc'[v] = "filter", slice'[v].arr = slice'[u].arr
                 PROVE  /\ request'[v].device \notin atStart'[u]
                        /\ kept'[v] = next'[v] - 1 \/ slice'[u].len <= kept'[v]
      BY DEF Spared
    <3>1. v # t
      OBVIOUS
    <3>2. Rests(v) /\ pc[v] = "filter"
      BY <3>1 DEF Rests
    <3>3. Undisturbed(u) /\ slice[u].len > 0 /\ slice[v].arr = slice[u].arr
      BY <2>1, <2>2, <3>2 DEF Rests
    <3>4. /\ request[v].device \notin atStart[u]
          /\ kept[v] = next[v] - 1 \/ slice[u].len <= kept[v]
      BY <3>2, <3>3 DEF GroupsInv, Spared
    <3> QED
      BY <2>1, <3>2, <3>4 DEF Rests
  <2> QED
    BY <2>2, <2>3, <2>4
<1> QED
  BY <1>2, <1>3, <1>4

LEMMA AskKeeps ==
  ASSUME GroupsInv, NEW t \in Threads, NEW r \in Requests, Ask(t, r)
  PROVE  GroupsInv'
<1>1. /\ pc[t] = "idle" /\ pc' = [pc EXCEPT ![t] = "apply"]
      /\ request' = [request EXCEPT ![t] = r]
      /\ UNCHANGED <<store, locals, history>>
  BY DEF Ask, Goto
<1>2. UNCHANGED <<cells, groups, mu, slice, next, kept, device, routed, atStart, stayed>>
  BY <1>1 DEF store, locals, history
<1>3. TypeOK
  BY DEF GroupsInv
<1>4. pc'[t] = "apply" /\ request'[t] = r /\ \A u \in Threads \ {t} : Rests(u)
  BY <1>1, <1>2, <1>3 DEF TypeOK, Rests
<1>5. TypeOK'
  BY <1>1, <1>2, <1>3 DEF TypeOK, Holds
<1>6. /\ Locked' /\ OwnArrays'
      /\ \A u \in Threads \ {t} : /\ Idles(u)' /\ ReadsOwn(u)' /\ Filters(u)'
                                  /\ Turns(u)' /\ Whole(u)' /\ Spared(u)'
  BY <1>1, <1>2, <1>4, OthersKept
<1>7. /\ Idles(t)' /\ ReadsOwn(t)' /\ Filters(t)' /\ Turns(t)' /\ Whole(t)' /\ Spared(t)'
  BY <1>1, <1>2, <1>4 DEF GroupsInv, Idles, ReadsOwn, Filters, Turns, Whole, Spared,
                          Undisturbed, Plays
<1> QED
  BY <1>5, <1>6, <1>7 DEF GroupsInv

LEMMA StartPlayKeeps ==
  ASSUME GroupsInv, NEW t \in Threads, NEW n \in Names, StartPlay(t, n)
  PROVE  GroupsInv'
<1> DEFINE members == ToSet(Contents(groups[n]))
<1>1. /\ pc[t] = "apply" /\ pc' = [pc EXCEPT ![t] = "read"]
      /\ request[t].name = n /\ mu = NoThread /\ groups[n] # NoGroup
      /\ slice' = [slice EXCEPT ![t] = groups[n]]
      /\ atStart' = [atStart EXCEPT ![t] = members]
      /\ stayed' = [stayed EXCEPT ![t] = members]
      /\ UNCHANGED <<cells, groups, mu, request, next, kept, device, routed>>
  BY DEF StartPlay, Starts, Goto, store
<1>2. TypeOK
  BY DEF GroupsInv
<1>3. groups[n] \in Slice /\ groups[n].len \in Nat /\ Holds(groups[n])
  BY <1>1, <1>2 DEF TypeOK, Slice
<1>4. /\ members = {cells[groups[n].arr][i] : i \in 1..groups[n].len}
      /\ members \subseteq Devices
  BY <1>3, ContentsOf DEF Holds
<1>5. next[t] = 1 /\ routed[t] = {}
  BY <1>1 DEF GroupsInv, Idles
<1>6. /\ pc'[t] = "read" /\ slice'[t] = groups[n] /\ atStart'[t] = members /\ stayed'[t] = members
      /\ \A u \in Threads \ {t} : Rests(u) /\ stayed'[u] = stayed[u]
  BY <1>1, <1>2 DEF TypeOK, Rests
<1> HIDE DEF members
<1>7. TypeOK'
  <2>1. \A u \in Threads : Holds(slice[u])'
    BY <1>1, <1>2, <1>3 DEF TypeOK, Holds
  <2>2. \A m \in Names : groups'[m] # NoGroup => Holds(groups[m])'
    BY <1>1, <1>2 DEF TypeOK, Holds
  <2> QED
    BY <1>1, <1>2, <1>3, <1>4, <2>1, <2>2 DEF TypeOK
<1>8. /\ Locked' /\ OwnArrays'
      /\ \A u \in Threads \ {t} : /\ Idles(u)' /\ ReadsOwn(u)' /\ Filters(u)'
                                  /\ Turns(u)' /\ Whole(u)' /\ Spared(u)'
  <2>1. request'[t] \in Requests
    BY <1>1 DEF GroupsInv, Locked
  <2> QED
    BY <1>1, <1>6, <2>1, OthersKept
<1>9. ReadsOwn(t)'
  BY <1>1, <1>3, <1>6 DEF GroupsInv, OwnArrays, ReadsOwn
<1>10. Turns(t)'
  BY <1>1, <1>3, <1>5, <1>6 DEF Turns
<1>11. Whole(t)'
  <2>1. atStart'[t] = {cells'[slice'[t].arr][i] : i \in 1..slice'[t].len}
    BY <1>1, <1>4, <1>6
  <2>2. routed'[t] = {cells'[slice'[t].arr][i] : i \in 1..next'[t] - 1}
    <3>1. 1..next'[t] - 1 = {}
      BY <1>1, <1>5
    <3> QED
      BY <1>1, <1>5, <3>1
  <2> QED
    BY <1>6, <2>1, <2>2 DEF Whole
<1>12. Spared(t)'
  <2>1. \A u \in Threads : pc'[u] # "filter"
    BY <1>1, <1>8, GroupsAssumption DEF Locked
  <2> QED
    BY <2>1 DEF Spared
<1>13. Idles(t)' /\ Filters(t)'
  BY <1>6 DEF Idles, Filters
<1> QED
  BY <1>7, <1>8, <1>9, <1>10, <1>11, <1>12, <1>13 DEF GroupsInv

\* What an undisturbed Play reads is the member in the cell, in one piece.
LEMMA ReadsMember ==
  ASSUME GroupsInv, NEW t \in Threads, Undisturbed(t), next[t] <= slice[t].len
  PROVE  ~Torn(slice[t].arr, next[t])
<1> SUFFICES ASSUME NEW u \in Threads, pc[u] = "filter", slice[u].arr = slice[t].arr,
                    kept[u] + 1 = next[t],
                    cells[slice[t].arr][next[u]] \notin
                      {request[u].device, cells[slice[t].arr][next[t]]}
             PROVE  FALSE
  BY DEF Torn
<1>1. /\ next[t] \in Nat \ {0} /\ slice[t].len \in Nat /\ kept[u] \in Nat /\ next[u] \in Nat
  BY ThreadTyped DEF GroupsInv
<1>2. kept[u] = next[u] - 1 \/ slice[t].len <= kept[u]
  BY <1>1 DEF GroupsInv, Spared
<1>3. next[u] = next[t]
  BY <1>1, <1>2
<1> QED
  BY <1>3

\* A turn of Play's loop, and its end.
LEMMA PlayKeeps ==
  ASSUME GroupsInv, NEW t \in Threads, Read(t) \/ RouteMember(t) \/ EndPlay(t)
  PROVE  GroupsInv'
<1>1. /\ UNCHANGED <<cells, groups, mu, request, slice, kept, atStart, stayed>>
      /\ pc[t] \in {"read", "route"}
      /\ pc' = [pc EXCEPT ![t] = "read"] \/ pc' = [pc EXCEPT ![t] = "route"]
         \/ pc' = [pc EXCEPT ![t] = "played"]
  BY DEF Read, RouteMember, EndPlay, Goto, store, locals, history
<1>2. TypeOK
  BY DEF GroupsInv
<1>3. /\ next[t] \in Nat \ {0} /\ slice[t].len \in Nat /\ slice[t].arr \in Arrays /\ Holds(slice[t])
      /\ pc'[t] \in {"read", "route", "played"} /\ Plays(t) /\ Plays(t)'
  BY <1>1, <1>2, ThreadTyped DEF TypeOK, Plays
<1>4. /\ next[t] <= slice[t].len + 1
      /\ pc[t] = "route" => next[t] <= slice[t].len
      /\ stayed[t] \subseteq atStart[t]
  BY <1>3 DEF GroupsInv, Turns
<1>5. /\ device' \in [Threads -> Devices \cup {Garbled, Blank}]
      /\ routed' \in [Threads -> SUBSET Devices]
      /\ next' \in [Threads -> Nat \ {0}]
      /\ \A u \in Threads \ {t} :
           device'[u] = device[u] /\ routed'[u] = routed[u] /\ next'[u] = next[u]
      /\ Turns(t)'
      /\ Undisturbed(t) =>
           /\ routed'[t] = {cells[slice[t].arr][i] : i \in 1..next'[t] - 1}
           /\ pc'[t] = "route" => device'[t] = cells[slice[t].arr][next'[t]]
  <2>1. Undisturbed(t) =>
          /\ routed[t] = {cells[slice[t].arr][i] : i \in 1..next[t] - 1}
          /\ pc[t] = "route" => device[t] = cells[slice[t].arr][next[t]]
    BY DEF GroupsInv, Whole
  <2>2. CASE Read(t)
    <3>1. /\ pc[t] = "read" /\ next[t] <= slice[t].len
          /\ pc' = [pc EXCEPT ![t] = "route"] /\ UNCHANGED <<next, routed>>
          /\ \E e \in {cells[slice[t].arr][next[t]]}
                     \cup (IF Torn(slice[t].arr, next[t]) THEN {Garbled} ELSE {}) :
               device' = [device EXCEPT ![t] = e]
      BY <2>2 DEF Read, Left, Goto
    <3>2. PICK e \in {cells[slice[t].arr][next[t]]}
                    \cup (IF Torn(slice[t].arr, next[t]) THEN {Garbled} ELSE {}) :
            device' = [device EXCEPT ![t] = e]
      BY <3>1
    <3>3. next[t] \in 1..slice[t].len
      BY <1>3, <3>1
    <3>4. e \in Devices \cup {Garbled, Blank}
      BY <1>3, <3>2, <3>3 DEF Holds
    <3>5. Undisturbed(t) => e = cells[slice[t].arr][next[t]]
      BY <3>1, <3>2, ReadsMember
    <3>6. Turns(t)'
      BY <1>1, <1>2, <1>4, <3>1 DEF Turns, TypeOK
    <3>7. device'[t] = e /\ \A u \in Threads \ {t} : device'[u] = device[u]
      BY <1>2, <3>2 DEF TypeOK
    <3>8. device' \in [Threads -> Devices \cup {Garbled, Blank}]
      BY <1>2, <3>2, <3>4 DEF TypeOK
    <3> QED
      BY <1>2, <2>1, <3>1, <3>5, <3>6, <3>7, <3>8 DEF TypeOK
  <2>3. CASE RouteMember(t)
    <3>1. /\ pc[t] = "route" /\ pc' = [pc EXCEPT ![t] = "read"] /\ device[t] \in Devices
          /\ routed' = [routed EXCEPT ![t] = routed[t] \cup {device[t]}]
          /\ next' = [next EXCEPT ![t] = next[t] + 1] /\ device' = device
      BY <2>3 DEF RouteMember, Goto
    <3>2. /\ pc'[t] = "read" /\ next'[t] = next[t] + 1
          /\ routed'[t] = routed[t] \cup {device[t]}
          /\ \A u \in Threads \ {t} : routed'[u] = routed[u] /\ next'[u] = next[u]
      BY <1>2, <3>1 DEF TypeOK
    <3>3. next' \in [Threads -> Nat \ {0}]
      <4>1. next[t] + 1 \in Nat \ {0}
        BY <1>3
      <4>2. next \in [Threads -> Nat \ {0}]
        BY <1>2 DEF TypeOK
      <4> QED
        BY <3>1, <4>1, <4>2
    <3>4. routed' \in [Threads -> SUBSET Devices]
      BY <1>2, <3>1 DEF TypeOK
    <3>5. Turns(t)'
      BY <1>1, <1>3, <1>4, <3>1, <3>2 DEF Turns
    <3>6. ASSUME Undisturbed(t)
          PROVE  routed'[t] = {cells[slice[t].arr][i] : i \in 1..next'[t] - 1}
      <4>1. routed'[t] = {cells[slice[t].arr][i] : i \in 1..next[t] - 1}
                           \cup {cells[slice[t].arr][next[t]]}
        BY <2>1, <3>1, <3>2, <3>6
      <4>2. 1..next'[t] - 1 = (1..next[t] - 1) \cup {next[t]}
        BY <1>3, <3>2
      <4> QED
        BY <4>1, <4>2
    <3> QED
      BY <1>2, <3>1, <3>2, <3>3, <3>4, <3>5, <3>6 DEF TypeOK
  <2>4. CASE EndPlay(t)
    <3>1. /\ pc[t] = "read" /\ pc' = [pc EXCEPT ![t] = "played"] /\ ~(next[t] <= slice[t].len)
          /\ UNCHANGED <<next, routed, device>>
      BY <2>4 DEF EndPlay, Left, Goto, locals
    <3>2. pc'[t] = "played"
      BY <1>2, <3>1 DEF TypeOK
    <3>3. Turns(t)'
      BY <1>1, <1>3, <1>4, <3>1, <3>2 DEF Turns
    <3> QED
      BY <1>2, <2>1, <3>1, <3>2, <3>3 DEF TypeOK
  <2> QED
    BY <2>2, <2>3, <2>4
<1>6. TypeOK'
  BY <1>1, <1>2, <1>5 DEF TypeOK, Holds
<1>7. \A u \in Threads \ {t} : Rests(u) /\ stayed'[u] = stayed[u]
  BY <1>1, <1>2, <1>5 DEF TypeOK, Rests
<1>8. /\ Locked' /\ OwnArrays'
      /\ \A u \in Threads \ {t} : /\ Idles(u)' /\ ReadsOwn(u)' /\ Filters(u)'
                                  /\ Turns(u)' /\ Whole(u)' /\ Spared(u)'
  <2>1. request'[t] \in Requests
    BY <1>1 DEF GroupsInv, Locked
  <2> QED
    BY <1>1, <1>3, <1>7, <2>1, OthersKept
<1>9. Idles(t)' /\ Filters(t)' /\ ReadsOwn(t)'
  BY <1>1, <1>3 DEF GroupsInv, Idles, Filters, ReadsOwn
<1>10. Whole(t)'
  <2> SUFFICES ASSUME Undisturbed(t)' PROVE Whole(t)'
    BY DEF Whole
  <2>1. Undisturbed(t)
    BY <1>1, <1>3 DEF Undisturbed
  <2>2. atStart[t] = {cells[slice[t].arr][i] : i \in 1..slice[t].len}
    BY <2>1 DEF GroupsInv, Whole
  <2> QED
    BY <1>1, <1>5, <2>1, <2>2 DEF Whole
<1>11. Spared(t)'
  <2> SUFFICES ASSUME Undisturbed(t)', slice'[t].len > 0, NEW v \in Threads,
                      pc'[v] = "filter", slice'[v].arr = slice'[t].arr
               PROVE  /\ request'[v].device \notin atStart'[t]
                      /\ kept'[v] = next'[v] - 1 \/ slice'[t].len <= kept'[v]
    BY DEF Spared
  <2>1. v # t /\ Rests(v) /\ pc[v] = "filter" /\ Undisturbed(t)
    BY <1>1, <1>3, <1>7 DEF Undisturbed, Rests
  <2>2. slice[v].arr = slice[t].arr /\ slice[t].len > 0
    BY <1>1
  <2>3. /\ request[v].device \notin atStart[t]
        /\ kept[v] = next[v] - 1 \/ slice[t].len <= kept[v]
    BY <2>1, <2>2 DEF GroupsInv, Spared
  <2> QED
    BY <1>1, <2>1, <2>3 DEF Rests
<1> QED
  BY <1>5, <1>6, <1>8, <1>9, <1>10, <1>11 DEF GroupsInv

-----------------------------------------------------------------------------
(* The theorems *)

LEMMA GroupsInvInit == Init => GroupsInv
<1> SUFFICES ASSUME Init PROVE GroupsInv
  OBVIOUS
<1>1. PICK own \in {f \in [Names -> Arrays] : IsInjective(f)},
           loaded \in [Names -> Saved \cup {NoGroup}] :
        /\ groups = [n \in Names |->
             IF loaded[n] = NoGroup THEN NoGroup
             ELSE [arr |-> own[n], len |-> loaded[n].len]]
        /\ cells = [a \in Arrays |->
             IF \E n \in Names : own[n] = a /\ loaded[n] # NoGroup
               THEN loaded[CHOOSE n \in Names : own[n] = a].array
               ELSE <<>>]
  BY DEF Init
<1>2. /\ mu = NoThread
      /\ pc = [t \in Threads |-> "idle"]
      /\ request = [t \in Threads |-> NoRequest]
      /\ slice = [t \in Threads |-> NoSlice]
      /\ next = [t \in Threads |-> 1]
      /\ kept = [t \in Threads |-> 0]
      /\ device = [t \in Threads |-> Blank]
      /\ routed = [t \in Threads |-> {}]
      /\ atStart = [t \in Threads |-> {}]
      /\ stayed = [t \in Threads |-> {}]
  BY DEF Init
<1>3. \A m, n \in Names : own[m] = own[n] => m = n
  BY DEF IsInjective
<1>4. ASSUME NEW n \in Names, loaded[n] # NoGroup
      PROVE  /\ loaded[n] \in Saved /\ own[n] \in Arrays
             /\ groups[n] = [arr |-> own[n], len |-> loaded[n].len]
             /\ groups[n].arr = own[n] /\ groups[n].len = loaded[n].len
             /\ cells[own[n]] = loaded[n].array
             /\ loaded[n].array \in Seq(Devices \cup {Blank})
             /\ \A i \in 1..loaded[n].len :
                  i \in DOMAIN loaded[n].array /\ loaded[n].array[i] \in Devices
  <2>1. (CHOOSE m \in Names : own[m] = own[n]) = n
    BY <1>3
  <2>2. loaded[n] \in Saved /\ own[n] \in Arrays
    BY <1>4
  <2>3. groups[n] = [arr |-> own[n], len |-> loaded[n].len]
    BY <1>1, <1>4
  <2>4. cells[own[n]] = loaded[n].array
    BY <1>1, <1>4, <2>1, <2>2
  <2> QED
    BY <2>2, <2>3, <2>4, GroupsAssumption
<1>5. \A n \in Names : groups[n] # NoGroup => loaded[n] # NoGroup
  BY <1>1
<1>6. groups \in [Names -> Slice \cup {NoGroup}]
  BY <1>1, <1>4, GroupsAssumption DEF Slice
<1>7. cells \in [Arrays -> Seq(Devices \cup {Blank})]
  <2>1. ASSUME NEW a \in Arrays PROVE cells[a] \in Seq(Devices \cup {Blank})
    <3>1. CASE \E n \in Names : own[n] = a /\ loaded[n] # NoGroup
      <4>1. PICK n \in Names : own[n] = a /\ loaded[n] # NoGroup
        BY <3>1
      <4> QED
        BY <1>4, <4>1
    <3>2. CASE ~\E n \in Names : own[n] = a /\ loaded[n] # NoGroup
      BY <1>1, <3>2, EmptySeq
    <3> QED
      BY <3>1, <3>2
  <2> QED
    BY <1>1, <2>1
<1>8. ASSUME NEW n \in Names, groups[n] # NoGroup PROVE Holds(groups[n])
  <2>1. loaded[n] # NoGroup
    BY <1>5, <1>8
  <2> QED
    BY <1>4, <2>1 DEF Holds
<1>9. NoSlice \in Slice /\ NoSlice.len = 0
  <2>1. Arrays # {}
    <3>1. Cardinality(Arrays) # 0
      <4>1. /\ Cardinality(Names) \in Nat /\ Cardinality(Threads) \in Nat
            /\ Cardinality(Names) + Cardinality(Threads) < Cardinality(Arrays)
        BY GroupsAssumption, FS_CardinalityType
      <4>2. Cardinality(Arrays) \in Nat
        BY GroupsAssumption, FS_CardinalityType
      <4> QED
        BY <4>1, <4>2
    <3> QED
      BY <3>1, FS_EmptySet
  <2> QED
    BY <2>1 DEF NoSlice, Slice
<1>10. \A t \in Threads : Holds(slice[t])
  BY <1>2, <1>9 DEF Holds
<1>11. TypeOK
  BY <1>2, <1>6, <1>7, <1>8, <1>9, <1>10 DEF TypeOK
<1>12. Locked
  BY <1>2, GroupsAssumption DEF Locked
<1>13. OwnArrays
  <2>1. \A n \in Names : groups[n] # NoGroup => groups[n].arr = own[n]
    BY <1>4, <1>5
  <2> QED
    BY <1>3, <2>1 DEF OwnArrays
<1>14. \A t \in Threads : Idles(t) /\ ReadsOwn(t) /\ Filters(t) /\ Turns(t) /\ Whole(t) /\ Spared(t)
  BY <1>2 DEF Idles, ReadsOwn, Filters, Turns, Whole, Spared, Undisturbed, Plays
<1> QED
  BY <1>11, <1>12, <1>13, <1>14 DEF GroupsInv

LEMMA GroupsInvNext == GroupsInv /\ [Next]_vars => GroupsInv'
<1> SUFFICES ASSUME GroupsInv, [Next]_vars PROVE GroupsInv'
  OBVIOUS
<1>1. CASE UNCHANGED vars
  BY <1>1 DEF vars, store, locals, history, GroupsInv, TypeOK, Locked, OwnArrays, Idles,
              ReadsOwn, Filters, Turns, Whole, Spared, Undisturbed, Plays, Holds
<1>2. ASSUME NEW t \in Threads, NEW r \in Requests, Ask(t, r) PROVE GroupsInv'
  BY <1>2, AskKeeps
<1>3. ASSUME NEW t \in Threads, Step(t) PROVE GroupsInv'
  BY <1>3, CreateKeeps, NotFoundKeeps, AddKeeps, StartRemoveKeeps, StartPlayKeeps, FilterKeeps,
     EndRemoveKeeps, PlayKeeps, PlayAnswerKeeps DEF Step
<1> QED
  BY <1>1, <1>2, <1>3 DEF Next

LEMMA GroupsInvariant == Spec => []GroupsInv
  BY GroupsInvInit, GroupsInvNext, PTL DEF Spec

\* TypeOK: whatever requests do to arrays that others hold slices of, groups and
\* requests reach devices only.
THEOREM GroupsTyped == Spec => []TypeOK
<1>1. GroupsInv => TypeOK
  BY DEF GroupsInv
<1> QED
  BY <1>1, GroupsInvariant, PTL

\* UndisturbedPlayIsComplete: a Play that succeeds has routed every member, and nothing
\* else, if none was removed meanwhile.
THEOREM UndisturbedPlays == Spec => []UndisturbedPlayIsComplete
<1>1. ASSUME GroupsInv PROVE UndisturbedPlayIsComplete
  <2> SUFFICES ASSUME NEW t \in Threads, pc[t] = "played", stayed[t] = atStart[t]
               PROVE  routed[t] = atStart[t]
    BY DEF UndisturbedPlayIsComplete
  <2>1. Undisturbed(t) /\ slice[t].len \in Nat
    BY <1>1, ThreadTyped DEF GroupsInv, Undisturbed, Plays
  <2>2. next[t] - 1 = slice[t].len
    BY <1>1, <2>1 DEF GroupsInv, Turns, Undisturbed
  <2> QED
    BY <1>1, <2>1, <2>2 DEF GroupsInv, Whole
<1> QED
  BY <1>1, GroupsInvariant, PTL
-----------------------------------------------------------------------------
(* Lists as requests leave them *)

\* Induction from the end of a list to its front: what holds behind the last of
\* n places, and of a place if it holds of the next, holds of each.  A number that
\* were the last without it would be the least of those that far from the end.
LEMMA Backwards ==
  ASSUME NEW n \in Nat, NEW G, n + 1 \in G,
         \A i \in 1..n : i + 1 \in G => i \in G
  PROVE  1..n + 1 \subseteq G
<1> DEFINE R == {p \in Nat \X Nat : p[1] < p[2]}
           T == {k \in 0..n : n + 1 - k \notin G}
<1> SUFFICES ASSUME T # {} PROVE FALSE
  <2>1. \A i \in 1..n + 1 : n + 1 - i \in 0..n /\ n + 1 - (n + 1 - i) = i
    OBVIOUS
  <2> QED
    BY <2>1
<1>1. IsWellFoundedOn(R, Nat)
  BY NatLessThanWellFounded DEF OpToRel
<1>2. T \subseteq Nat
  OBVIOUS
<1>3. PICK k \in T : \A y \in T : ~(<<y, k>> \in R)
  <2> HIDE DEF R, T
  <2> QED
    BY <1>1, <1>2, WFMin
<1>4. k \in 0..n /\ n + 1 - k \notin G
  OBVIOUS
<1>5. k # 0
  BY <1>4
<1>6. k - 1 \in 0..n /\ n + 1 - k \in 1..n /\ n + 1 - (k - 1) = n + 1 - k + 1
  BY <1>4, <1>5
<1>7. n + 1 - (k - 1) \notin G
  BY <1>4, <1>6
<1>8. k - 1 \in T
  BY <1>6, <1>7
<1>9. <<k - 1, k>> \in R
  BY <1>4, <1>6
<1> QED
  BY <1>3, <1>8, <1>9

\* One turn of a loop over list, that goes on as f says.
Turn(f, list, d, i) ==
  IF i > Len(list) THEN <<>>
  ELSE IF list[i] = d THEN f[i + 1] ELSE <<list[i]>> \o f[i + 1]

\* There is a function as Rest defines it.
LEMMA RestDefined ==
  ASSUME NEW S, NEW list \in Seq(S), NEW d
  PROVE  Rest(list, d) = [i \in 1..Len(list) + 1 |-> Turn(Rest(list, d), list, d, i)]
<1> DEFINE n == Len(list)
           Solves(f, m) == f = [i \in m..n + 1 |-> Turn(f, list, d, i)]
           G == {m \in 1..n + 1 : \E f : Solves(f, m)}
<1>1. n \in Nat
  BY LenProperties
<1> HIDE DEF n
<1>2. n + 1 \in G
  <2> DEFINE f == [i \in n + 1..n + 1 |-> <<>>]
  <2>1. \A i \in n + 1..n + 1 : Turn(f, list, d, i) = <<>>
    BY <1>1 DEF Turn, n
  <2>2. Solves(f, n + 1)
    BY <2>1
  <2> HIDE DEF Solves
  <2> QED
    BY <1>1, <2>2
<1>3. ASSUME NEW m \in 1..n, m + 1 \in G
      PROVE  m \in G
  <2>1. PICK g : Solves(g, m + 1)
    BY <1>3
  <2> DEFINE f == [i \in m..n + 1 |-> IF i = m THEN Turn(g, list, d, m) ELSE g[i]]
  <2>2. /\ m..n + 1 = (m + 1..n + 1) \cup {m} /\ m + 1 \in m + 1..n + 1
        /\ \A i \in m + 1..n + 1 : i # m /\ (i > n \/ i + 1 \in m + 1..n + 1)
    BY <1>1
  <2>3. \A i \in m + 1..n + 1 : f[i] = g[i]
    BY <2>2
  <2>4. f[m] = Turn(g, list, d, m)
    BY <2>2
  <2>5. f = [i \in m..n + 1 |-> f[i]]
    OBVIOUS
  <2> HIDE DEF f
  <2>6. Turn(f, list, d, m) = Turn(g, list, d, m)
    BY <2>2, <2>3 DEF Turn
  <2>7. ASSUME NEW i \in m + 1..n + 1 PROVE Turn(f, list, d, i) = g[i]
    <3>1. g[i] = Turn(g, list, d, i)
      BY <2>1, <2>7
    <3>2. i > n \/ f[i + 1] = g[i + 1]
      BY <2>2, <2>3, <2>7
    <3> QED
      BY <3>1, <3>2 DEF Turn, n
  <2>8. \A i \in m..n + 1 : f[i] = Turn(f, list, d, i)
    BY <2>2, <2>3, <2>4, <2>6, <2>7
  <2>9. Solves(f, m)
    BY <2>5, <2>8
  <2> HIDE DEF Solves
  <2>10. m \in 1..n + 1
    BY <1>1
  <2> QED
    BY <2>9, <2>10
<1>4. 1..n + 1 \subseteq G
  <2> HIDE DEF G
  <2> QED
    BY <1>1, <1>2, <1>3, Backwards
<1>5. \E f : Solves(f, 1)
  <2>1. 1 \in 1..n + 1
    BY <1>1
  <2> HIDE DEF Solves
  <2> QED
    BY <1>4, <2>1
<1> QED
  BY <1>5, Zenon DEF Rest, Turn, n

\* What Rest is at each place.
LEMMA RestTurns ==
  ASSUME NEW S, NEW list \in Seq(S), NEW d
  PROVE  /\ Len(list) \in Nat
         /\ Rest(list, d)[Len(list) + 1] = <<>>
         /\ \A i \in 1..Len(list) :
              /\ i + 1 \in 1..Len(list) + 1
              /\ list[i] = d => Rest(list, d)[i] = Rest(list, d)[i + 1]
              /\ list[i] # d => Rest(list, d)[i] = <<list[i]>> \o Rest(list, d)[i + 1]
         /\ \A i \in 1..Len(list) + 1 : Rest(list, d)[i] \in Seq(S)
<1> DEFINE n == Len(list)
           f == Rest(list, d)
           G == {i \in 1..n + 1 : f[i] \in Seq(S)}
<1>1. n \in Nat /\ \A i \in 1..n : list[i] \in S
  BY LenProperties, ElementOfSeq
<1>2. \A i \in 1..n + 1 : f[i] = Turn(f, list, d, i)
  <2>1. f = [i \in 1..n + 1 |-> Turn(f, list, d, i)]
    BY RestDefined
  <2> HIDE DEF f
  <2> QED
    BY <2>1
<1> HIDE DEF f
<1>3. n + 1 \in 1..n + 1 /\ n + 1 > n /\ \A i \in 1..n : i + 1 \in 1..n + 1 /\ i \in 1..n + 1 /\ ~(i > n)
  BY <1>1
<1>4. f[n + 1] = <<>>
  BY <1>2, <1>3 DEF Turn
<1>5. ASSUME NEW i \in 1..n
      PROVE  /\ list[i] = d => f[i] = f[i + 1]
             /\ list[i] # d => f[i] = <<list[i]>> \o f[i + 1]
  BY <1>2, <1>3 DEF Turn
<1>6. 1..n + 1 \subseteq G
  <2>1. n + 1 \in G
    BY <1>3, <1>4, EmptySeq
  <2>2. ASSUME NEW i \in 1..n, i + 1 \in G PROVE i \in G
    <3>1. f[i + 1] \in Seq(S) /\ <<list[i]>> \in Seq(S)
      BY <1>1, <2>2
    <3>2. <<list[i]>> \o f[i + 1] \in Seq(S)
      BY <3>1, ConcatProperties
    <3> QED
      BY <1>3, <1>5, <3>1, <3>2
  <2> HIDE DEF G, n
  <2> QED
    BY <1>1, <2>1, <2>2, Backwards
<1> QED
  BY <1>1, <1>3, <1>4, <1>5, <1>6 DEF f

\* From a place on Rest depends on what is there in the list, and no more.
LEMMA RestAgrees ==
  ASSUME NEW S, NEW list \in Seq(S), NEW other \in Seq(S), NEW d,
         Len(other) = Len(list), NEW k \in 1..Len(list) + 1,
         \A i \in 1..Len(list) : i >= k => other[i] = list[i]
  PROVE  Rest(other, d)[k] = Rest(list, d)[k]
<1> DEFINE n == Len(list)
           f == Rest(list, d)
           g == Rest(other, d)
           G == {i \in 1..n + 1 : i >= k => g[i] = f[i]}
<1>1. /\ n \in Nat /\ f[n + 1] = <<>> /\ g[n + 1] = <<>>
      /\ \A i \in 1..n : /\ list[i] = d => f[i] = f[i + 1]
                         /\ list[i] # d => f[i] = <<list[i]>> \o f[i + 1]
                         /\ other[i] = d => g[i] = g[i + 1]
                         /\ other[i] # d => g[i] = <<other[i]>> \o g[i + 1]
  BY RestTurns
<1>2. k \in 1..n + 1 /\ \A i \in 1..n : i >= k => other[i] = list[i]
  OBVIOUS
<1> HIDE DEF f, g, n
<1>3. n + 1 \in G
  BY <1>1
<1>4. ASSUME NEW i \in 1..n, i + 1 \in G PROVE i \in G
  <2>1. i \in 1..n + 1 /\ (i >= k => i + 1 >= k)
    BY <1>1, <1>2
  <2>2. i >= k => g[i + 1] = f[i + 1] /\ other[i] = list[i]
    BY <1>2, <1>4, <2>1
  <2> QED
    BY <1>1, <2>1, <2>2
<1>5. 1..n + 1 \subseteq G
  <2> HIDE DEF G
  <2> QED
    BY <1>1, <1>3, <1>4, Backwards
<1>6. k >= k
  BY <1>2
<1> QED
  BY <1>2, <1>5, <1>6 DEF f, g

\* What two arrays have in common at the front.
LEMMA SameFront ==
  ASSUME NEW one, NEW other, NEW n \in Nat, \A i \in 1..n : other[i] = one[i]
  PROVE  SubSeq(other, 1, n) = SubSeq(one, 1, n)
<1> DEFINE S == {one[i] : i \in 1..n}
           s == SubSeq(one, 1, n)
           t == SubSeq(other, 1, n)
<1>1. \A i \in 1..n : one[i] \in S /\ other[i] \in S
  OBVIOUS
<1> HIDE DEF S
<1>2. /\ s \in Seq(S) /\ Len(s) = (IF 1 <= n THEN n - 1 + 1 ELSE 0)
      /\ \A i \in 1..n - 1 + 1 : s[i] = one[1 + i - 1]
  BY <1>1, SubSeqProperties
<1>3. /\ t \in Seq(S) /\ Len(t) = (IF 1 <= n THEN n - 1 + 1 ELSE 0)
      /\ \A i \in 1..n - 1 + 1 : t[i] = other[1 + i - 1]
  BY <1>1, SubSeqProperties
<1> HIDE DEF s, t
<1>4. Len(s) = n /\ Len(t) = n /\ \A i \in 1..n : s[i] = t[i]
  BY <1>2, <1>3
<1>5. s = t
  BY <1>2, <1>3, <1>4, SeqEqual
<1> QED
  BY <1>5 DEF s, t

\* What the loop of Remove comes to, that has kept the first k places and is at place j,
\* and a turn that writes what is there into place k + 1.
Result(list, d, k, j) == SubSeq(list, 1, k) \o Rest(list, d)[j]

Keeps(list, new, d, k, j) ==
  /\ Len(new) = Len(list) /\ k < j /\ list[j] # d
  /\ \A i \in 1..Len(list) : new[i] = IF i = k + 1 THEN list[j] ELSE list[i]

\* It comes to the same list after such a turn, although the turn writes
\* into the array it reads.
LEMMA TurnKeepsList ==
  ASSUME NEW S, NEW list \in Seq(S), NEW new \in Seq(S), NEW d,
         NEW k \in Nat, NEW j \in 1..Len(list), Keeps(list, new, d, k, j)
  PROVE  Result(new, d, k + 1, j + 1) = Result(list, d, k, j)
<1>0. /\ Len(new) = Len(list) /\ k < j /\ list[j] # d
      /\ \A i \in 1..Len(list) : new[i] = IF i = k + 1 THEN list[j] ELSE list[i]
  BY DEF Keeps
<1> DEFINE n == Len(list)
           front == SubSeq(list, 1, k)
           rest == Rest(list, d)[j + 1]
<1>1. n \in Nat /\ j + 1 \in 1..n + 1 /\ k + 1 \in 1..n /\ list[j] \in S
  BY <1>0, LenProperties, ElementOfSeq
<1>2. Rest(new, d)[j + 1] = rest
  <2>1. \A i \in 1..n : i >= j + 1 => new[i] = list[i]
    BY <1>0, <1>1
  <2> QED
    BY <1>0, <1>1, <2>1, RestAgrees
<1>3. rest \in Seq(S) /\ Rest(list, d)[j] = <<list[j]>> \o rest
  BY <1>0, <1>1, RestTurns
<1>4. front \in Seq(S)
  <2>1. \A i \in 1..k : list[i] \in S
    BY <1>0, <1>1, ElementOfSeq
  <2> QED
    BY <1>0, <1>1, <2>1, SubSeqProperties
<1>5. SubSeq(new, 1, k + 1) = front \o <<list[j]>>
  <2>1. SubSeq(new, 1, k + 1) = SubSeq(new, 1, k + 1 - 1) \o <<new[k + 1]>>
    <3>1. 1 \in 1..Len(new) /\ k + 1 \in 1..Len(new)
      BY <1>0, <1>1
    <3> QED
      BY <3>1, SubSeqRecursiveSecond
  <2>2. k + 1 - 1 = k /\ new[k + 1] = list[j]
    BY <1>0, <1>1
  <2>3. \A i \in 1..k : new[i] = list[i]
    BY <1>0, <1>1
  <2>4. SubSeq(new, 1, k) = front
    BY <1>0, <2>3, SameFront
  <2> QED
    BY <2>1, <2>2, <2>4
<1>6. <<list[j]>> \in Seq(S)
  BY <1>1
<1> HIDE DEF front, rest
<1>7. (front \o <<list[j]>>) \o rest = front \o (<<list[j]>> \o rest)
  BY <1>3, <1>4, <1>6, ConcatAssociative
<1> QED
  BY <1>2, <1>3, <1>5, <1>7 DEF front, rest, Result

-----------------------------------------------------------------------------
(* Requests change lists in one step *)

\* The variables of GroupList.
Members == [n \in Names |-> ListOf(n)]
Pending ==
  [t \in Threads |->
    IF pc[t] = "apply" /\ request[t].kind # "play" THEN request[t] ELSE NoRequest]

\* A group that is saved gets the list, and the others keep theirs.
LEMMA SavedList ==
  ASSUME GroupsInv, NEW n \in Names, NEW a \in Arrays, NEW len \in Nat, NEW list \in Seq(Value),
         Save(n, a, len, list), mu' = NoThread, mu = NoThread \/ request[mu].name = n,
         a \notin Reachable \/ (groups[n] # NoGroup /\ groups[n].arr = a)
  PROVE  Members' = [Members EXCEPT ![n] = SubSeq(list, 1, len)]
<1> DEFINE s == [arr |-> a, len |-> len]
           cs == [cells EXCEPT ![a] = list]
<1>1. groups' = [groups EXCEPT ![n] = s] /\ Collected(cs)
  BY DEF Save
<1>2. groups \in [Names -> Slice \cup {NoGroup}] /\ cells \in [Arrays -> Seq(Value)]
  BY DEF GroupsInv, TypeOK, Value
<1>3. NoGroup \notin Slice /\ s \in Slice
  BY GroupsAssumption DEF Slice
<1>4. cs \in [Arrays -> Seq(Value)] /\ cs[a] = list /\ \A b \in Arrays \ {a} : cs[b] = cells[b]
  BY <1>2
<1>5. \A m \in Names : groups'[m] # NoGroup /\ groups'[m].arr \in Arrays =>
        cells'[groups'[m].arr] = cs[groups'[m].arr]
  <2> HIDE DEF cs
  <2> QED
    BY <1>1, <1>4, CollectedKept
<1> HIDE DEF cs
<1>6. ASSUME NEW m \in Names \ {n} PROVE ListOf(m)' = ListOf(m)
  <2>1. groups'[m] = groups[m]
    BY <1>1, <1>2, <1>6
  <2>2. CASE groups[m] = NoGroup
    BY <2>1, <2>2 DEF ListOf
  <2>3. CASE groups[m] # NoGroup
    <3>1. groups[m] \in Slice /\ groups[m].arr \in Arrays
      BY <1>2, <2>3 DEF Slice
    <3>2. groups[m].arr # a
      <4>1. groups[m].arr \in Reachable
        BY <2>3 DEF Reachable
      <4> QED
        BY <1>6, <2>3, <4>1 DEF GroupsInv, OwnArrays
    <3>3. cells'[groups[m].arr] = cells[groups[m].arr]
      BY <1>4, <1>5, <2>1, <2>3, <3>1, <3>2
    <3>4. ListOf(m) = Contents(groups[m])
      BY <1>6, <2>3 DEF ListOf
    <3>5. ListOf(m)' = SubSeq(cells'[groups[m].arr], 1, groups[m].len)
      BY <2>1, <2>3 DEF ListOf, Contents
    <3> QED
      BY <3>3, <3>4, <3>5 DEF Contents
  <2> QED
    BY <2>2, <2>3
<1>7. ListOf(n)' = SubSeq(list, 1, len)
  <2>1. groups'[n] = s /\ s # NoGroup /\ s.arr = a /\ s.len = len
    BY <1>1, <1>2, <1>3
  <2>2. cells'[a] = list
    BY <1>4, <1>5, <2>1
  <2> HIDE DEF s
  <2> QED
    BY <2>1, <2>2 DEF ListOf, Contents
<1>8. Members' = [m \in Names |-> ListOf(m)']
  BY DEF Members
<1> QED
  BY <1>6, <1>7, <1>8 DEF Members

\* An answer leaves a list alone that is not saved, also one a Remove works on.
LEMMA ListsKept ==
  ASSUME GroupsInv, NEW t \in Threads, UNCHANGED <<groups, mu>>, mu # t,
         cells' = cells \/ Collected(cells),
         \A u \in Threads \ {t} :
           /\ slice'[u] = slice[u] /\ request'[u] = request[u]
           /\ kept'[u] = kept[u] /\ next'[u] = next[u]
  PROVE  Members' = Members
<1>1. groups \in [Names -> Slice \cup {NoGroup}] /\ cells \in [Arrays -> Seq(Value)]
  BY DEF GroupsInv, TypeOK, Value
<1>2. ASSUME NEW n \in Names, groups[n] # NoGroup
      PROVE  cells'[groups[n].arr] = cells[groups[n].arr]
  <2>1. groups[n].arr \in Arrays
    BY <1>1, <1>2 DEF Slice
  <2>2. CASE Collected(cells)
    BY <1>1, <1>2, <2>1, <2>2, CollectedKept
  <2> QED
    BY <2>2
<1>3. ASSUME NEW n \in Names PROVE ListOf(n)' = ListOf(n)
  <2>1. CASE groups[n] = NoGroup
    BY <2>1 DEF ListOf
  <2>2. CASE groups[n] # NoGroup /\ ~(mu # NoThread /\ request[mu].name = n)
    <3>1. ListOf(n) = SubSeq(cells[groups[n].arr], 1, groups[n].len)
      BY <2>2 DEF ListOf, Contents
    <3>2. ~(mu' # NoThread /\ request'[mu'].name = n)
      BY <2>2 DEF GroupsInv, TypeOK
    <3>3. ListOf(n)' = SubSeq(cells'[groups[n].arr], 1, groups[n].len)
      BY <2>2, <3>2 DEF ListOf, Contents
    <3> QED
      BY <1>2, <2>2, <3>1, <3>3
  <2>3. CASE groups[n] # NoGroup /\ mu # NoThread /\ request[mu].name = n
    <3>1. mu \in Threads \ {t}
      BY <2>3 DEF GroupsInv, TypeOK
    <3>2. slice[mu] = groups[n]
      BY <2>3, <3>1 DEF GroupsInv, Locked, Filters
    <3>3. cells'[slice[mu].arr] = cells[slice[mu].arr]
      BY <1>2, <2>3, <3>2
    <3>4. /\ slice'[mu] = slice[mu] /\ request'[mu] = request[mu]
          /\ kept'[mu] = kept[mu] /\ next'[mu] = next[mu]
      BY <3>1
    <3>5. Contents(slice[mu])' = Contents(slice[mu])
      BY <3>3, <3>4 DEF Contents
    <3> QED
      BY <2>3, <3>4, <3>5 DEF ListOf
  <2> QED
    BY <2>1, <2>2, <2>3
<1>4. Members' = [n \in Names |-> ListOf(n)']
  BY DEF Members
<1> QED
  BY <1>3, <1>4 DEF Members

\* An answered request is no longer pending, and the others are as before.
LEMMA AnswerEndsPending ==
  ASSUME GroupsInv, NEW t \in Threads, Answer(t)
  PROVE  /\ Pending' = [Pending EXCEPT ![t] = NoRequest]
         /\ pc[t] # "apply" \/ request[t].kind = "play" => Pending' = Pending
         /\ \A u \in Threads \ {t} :
              /\ slice'[u] = slice[u] /\ request'[u] = request[u]
              /\ kept'[u] = kept[u] /\ next'[u] = next[u]
<1>1. /\ pc \in [Threads -> {"idle", "apply", "filter", "read", "route", "played"}]
      /\ request \in [Threads -> Requests \cup {NoRequest}]
      /\ slice \in [Threads -> Slice] /\ next \in [Threads -> Nat \ {0}] /\ kept \in [Threads -> Nat]
  BY DEF GroupsInv, TypeOK
<1>2. /\ pc' = [pc EXCEPT ![t] = "idle"]
      /\ request' = [request EXCEPT ![t] = NoRequest]
      /\ slice' = [slice EXCEPT ![t] = NoSlice]
      /\ next' = [next EXCEPT ![t] = 1]
      /\ kept' = [kept EXCEPT ![t] = 0]
  BY DEF Answer, Goto
<1>3. \A u \in Threads : Pending'[u] = IF u = t THEN NoRequest ELSE Pending[u]
  BY <1>1, <1>2 DEF Pending
<1>4. Pending = [u \in Threads |-> Pending[u]] /\ Pending' = [u \in Threads |-> Pending'[u]]
  BY DEF Pending
<1>5. pc[t] # "apply" \/ request[t].kind = "play" => Pending[t] = NoRequest
  BY DEF Pending
<1>6. \A u \in Threads \ {t} : /\ slice'[u] = slice[u] /\ request'[u] = request[u]
                              /\ kept'[u] = kept[u] /\ next'[u] = next[u]
  BY <1>1, <1>2
<1> HIDE DEF Pending
<1> QED
  BY <1>3, <1>4, <1>5, <1>6

\* What a request does at once is a step of GroupList.
LEMMA PerformStep ==
  ASSUME GroupsInv, NEW t \in Threads, pc[t] = "apply", request[t].kind # "play",
         Pending' = [Pending EXCEPT ![t] = NoRequest],
         Members' = [Members EXCEPT ![request[t].name] =
                       Lists!Outcome(request[t], Members[request[t].name])]
  PROVE  Lists!Perform(t)
<1>1. Pending[t] = request[t] /\ Pending[t] # NoRequest
  BY GroupsAssumption DEF Pending, GroupsInv, Locked
<1> QED
  BY <1>1 DEF Lists!Perform, Members, Pending

\* What is known of a request that starts.
LEMMA Started ==
  ASSUME GroupsInv, NEW t \in Threads, NEW kind, NEW n \in Names, Starts(t, kind, n)
  PROVE  /\ request[t] \in Requests /\ request[t].kind = kind /\ request[t].name = n
         /\ pc[t] = "apply" /\ mu = NoThread /\ mu # t
         /\ Members[n] = IF groups[n] = NoGroup THEN NoGroup ELSE Contents(groups[n])
         /\ \A s \in {groups[n]} \ {NoGroup} :
              /\ s \in Slice /\ s.arr \in Arrays /\ s.len \in Nat /\ Holds(s)
              /\ Contents(s) \in Seq(Devices) /\ Len(Contents(s)) = s.len
              /\ Contents(s) # NoGroup
              /\ \A i \in 1..s.len : Contents(s)[i] = cells[s.arr][i]
<1>1. /\ request[t] \in Requests /\ request[t].kind = kind /\ request[t].name = n
      /\ pc[t] = "apply" /\ mu = NoThread /\ mu # t
  BY GroupsAssumption DEF Starts, GroupsInv, Locked
<1>2. Members[n] = IF groups[n] = NoGroup THEN NoGroup ELSE Contents(groups[n])
  BY <1>1 DEF Members, ListOf
<1>3. ASSUME NEW s \in {groups[n]} \ {NoGroup}
      PROVE  /\ s \in Slice /\ s.arr \in Arrays /\ s.len \in Nat /\ Holds(s)
             /\ Contents(s) \in Seq(Devices) /\ Len(Contents(s)) = s.len
             /\ Contents(s) # NoGroup
             /\ \A i \in 1..s.len : Contents(s)[i] = cells[s.arr][i]
  <2>1. s \in Slice /\ s.arr \in Arrays /\ s.len \in Nat /\ Holds(s)
    BY <1>3 DEF GroupsInv, TypeOK, Slice
  <2>2. /\ Contents(s) \in Seq(Devices) /\ Len(Contents(s)) = s.len
        /\ \A i \in 1..s.len : Contents(s)[i] = cells[s.arr][i]
    BY <2>1, ContentsOf
  <2> QED
    BY <2>1, <2>2, GroupsAssumption
<1> QED
  BY <1>1, <1>2, <1>3

LEMMA CreatePerforms ==
  ASSUME GroupsInv, NEW t \in Threads, NEW n \in Names, Create(t, n)
  PROVE  Lists!Perform(t)
<1> DEFINE list == request[t].list
<1>1. /\ Answer(t) /\ mu' = NoThread /\ Starts(t, "create", n) /\ Save(n, Fresh, Len(list), list)
  BY DEF Create, Starts
<1>2. /\ request[t] \in Requests /\ request[t].kind = "create" /\ request[t].name = n
      /\ pc[t] = "apply" /\ mu = NoThread
  BY <1>1, Started
<1>3. list \in Seq(Devices) /\ list \in Seq(Value) /\ Len(list) \in Nat
  BY <1>2, GroupsAssumption, SeqMonotonic, LenProperties DEF Value
<1>4. Fresh \in Arrays /\ Fresh \notin Reachable
  BY FreshIsFree DEF GroupsInv, TypeOK
<1>5. Members' = [Members EXCEPT ![n] = SubSeq(list, 1, Len(list))]
  BY <1>1, <1>2, <1>3, <1>4, SavedList
<1>6. SubSeq(list, 1, Len(list)) = list
  BY <1>3, SubSeqFull
<1>7. Lists!Outcome(request[t], Members[n]) = list
  BY <1>2 DEF Lists!Outcome
<1>8. Members' = [Members EXCEPT ![n] = Lists!Outcome(request[t], Members[n])]
  BY <1>5, <1>6, <1>7
<1>9. Pending' = [Pending EXCEPT ![t] = NoRequest]
  BY <1>1, AnswerEndsPending
<1> QED
  BY <1>2, <1>8, <1>9, PerformStep

\* An unknown group stays unknown, and Play of one changes nothing.
LEMMA NotFoundPerforms ==
  ASSUME GroupsInv, NEW t \in Threads, NEW n \in Names, NotFound(t, n)
  PROVE  Lists!Perform(t) \/ UNCHANGED <<Members, Pending>>
<1>1. PICK kind \in Kinds \ {"create"} : Starts(t, kind, n)
  BY DEF NotFound
<1>2. Answer(t) /\ UNCHANGED <<cells, groups, mu>> /\ groups[n] = NoGroup
  BY DEF NotFound, store
<1>3. /\ request[t].kind = kind /\ request[t].name = n /\ pc[t] = "apply" /\ mu # t
      /\ Members[n] = NoGroup
  BY <1>1, <1>2, Started
<1>4. Members' = Members
  BY <1>2, <1>3, AnswerEndsPending, ListsKept
<1>5. CASE kind = "play"
  BY <1>2, <1>3, <1>4, <1>5, AnswerEndsPending
<1>6. CASE kind # "play"
  <2>1. Lists!Outcome(request[t], Members[n]) = NoGroup
    BY <1>3, <1>1 DEF Lists!Outcome, Kinds
  <2>2. Members' = [Members EXCEPT ![n] = Lists!Outcome(request[t], Members[n])]
    BY <1>3, <1>4, <2>1 DEF Members
  <2> QED
    BY <1>2, <1>3, <1>6, <2>2, AnswerEndsPending, PerformStep
<1> QED
  BY <1>5, <1>6

\* An append in place, and one that moves the list to a new array, leave the same list.
LEMMA AppendedList ==
  ASSUME GroupsInv, NEW n \in Names, groups[n] # NoGroup, mu = NoThread, mu' = NoThread,
         NEW d \in Devices, AppendTo(n, groups[n], d)
  PROVE  Members' = [Members EXCEPT ![n] = Append(Contents(groups[n]), d)]
<1> DEFINE s == groups[n]
           cs == cells[s.arr]
           old == Contents(s)
<1>1. /\ s \in Slice /\ s.arr \in Arrays /\ s.len \in Nat /\ Holds(s)
      /\ cs \in Seq(Value)
  BY DEF GroupsInv, TypeOK, Slice, Value
<1>2. /\ old \in Seq(Devices) /\ Len(old) = s.len /\ DOMAIN old = 1..s.len
      /\ \A i \in 1..s.len : old[i] = cs[i]
  BY <1>1, ContentsOf
<1>3. old \in Seq(Value) /\ d \in Value
  BY <1>2, SeqMonotonic DEF Value
<1> HIDE DEF old
<1>4. ASSUME NEW list \in Seq(Value), s.len + 1 \in 1..Len(list), list[s.len + 1] = d,
             \A i \in 1..s.len : list[i] = old[i]
      PROVE  SubSeq(list, 1, s.len + 1) = Append(old, d)
  <2>1. SubSeq(list, 1, s.len + 1) = SubSeq(list, 1, s.len) \o <<d>>
    <3> DEFINE k == s.len + 1
    <3>1. 1 \in 1..Len(list) /\ k \in 1..Len(list)
      BY <1>1, <1>4, LenProperties
    <3>2. k - 1 = s.len /\ list[k] = d
      BY <1>1, <1>4
    <3>3. k = s.len + 1
      OBVIOUS
    <3> HIDE DEF k
    <3>4. SubSeq(list, 1, k) = SubSeq(list, 1, k - 1) \o <<list[k]>>
      BY <1>4, <3>1, SubSeqRecursiveSecond
    <3> QED
      BY <3>2, <3>3, <3>4
  <2>2. SubSeq(list, 1, s.len) = SubSeq(old, 1, s.len)
    BY <1>1, <1>4, SameFront
  <2>3. SubSeq(old, 1, s.len) = old
    BY <1>2, SubSeqFull
  <2>4. Append(old, d) = old \o <<d>>
    BY <1>3, AppendIsConcat
  <2> QED
    BY <2>1, <2>2, <2>3, <2>4
<1>5. CASE s.len < Len(cs)
  <2> DEFINE list == [cs EXCEPT ![s.len + 1] = d]
  <2>1. Len(cs) \in Nat /\ DOMAIN cs = 1..Len(cs) /\ s.len + 1 \in 1..Len(cs)
    BY <1>1, <1>5, LenProperties
  <2>2. cs # <<>>
    BY <2>1
  <2>3. Save(n, s.arr, s.len + 1, list)
    BY <1>5, <2>2 DEF AppendTo
  <2>4. /\ list \in Seq(Value) /\ Len(list) = Len(cs)
        /\ \A i \in 1..Len(cs) : list[i] = IF i = s.len + 1 THEN d ELSE cs[i]
    BY <1>1, <1>3, <2>1, ExceptSeq
  <2> HIDE DEF list
  <2>5. \A i \in 1..s.len : list[i] = old[i]
    BY <1>1, <1>2, <2>1, <2>4
  <2>6. SubSeq(list, 1, s.len + 1) = Append(old, d)
    BY <1>4, <2>1, <2>4, <2>5
  <2>7. Members' = [Members EXCEPT ![n] = SubSeq(list, 1, s.len + 1)]
    BY <1>1, <2>3, <2>4, SavedList
  <2> QED
    BY <2>6, <2>7 DEF old
<1>6. CASE ~(s.len < Len(cs))
  <2> DEFINE more == [i \in DOMAIN old |-> Blank]
             array == old \o more
             list == IF array = <<>> THEN <<d>> ELSE [array EXCEPT ![s.len + 1] = d]
  <2>1. Fresh \in Arrays /\ Fresh \notin Reachable /\ Fresh # s.arr
    BY FreshIsFree DEF GroupsInv, TypeOK, Reachable
  <2>2. Save(n, Fresh, s.len + 1, list)
    BY <1>6, <2>1 DEF AppendTo, old
  <2>3. more \in Seq(Value) /\ Len(more) = s.len
    BY <1>1, <1>2 DEF Value
  <2> HIDE DEF more
  <2>4. /\ array \in Seq(Value) /\ Len(array) = s.len + s.len
        /\ \A i \in 1..s.len + s.len : array[i] = IF i <= s.len THEN old[i] ELSE more[i - s.len]
    <3>1. /\ array \in Seq(Value) /\ Len(array) = Len(old) + Len(more)
          /\ \A i \in 1..Len(old) + Len(more) :
               array[i] = IF i <= Len(old) THEN old[i] ELSE more[i - Len(old)]
      BY <1>3, <2>3, ConcatProperties
    <3> QED
      BY <1>2, <2>3, <3>1
  <2>5. \A i \in 1..s.len : i \in 1..s.len + s.len /\ array[i] = old[i]
    BY <1>1, <2>4
  <2> HIDE DEF array
  <2>6. /\ list \in Seq(Value) /\ s.len + 1 \in 1..Len(list) /\ list[s.len + 1] = d
        /\ \A i \in 1..s.len : list[i] = old[i]
    <3>1. CASE array = <<>>
      <4>1. s.len = 0 /\ list = <<d>>
        BY <1>1, <2>4, <3>1
      <4>2. <<d>> \in Seq(Value) /\ Len(<<d>>) = 1 /\ <<d>>[1] = d
        BY <1>3
      <4>3. \A i \in 1..s.len : FALSE
        BY <4>1
      <4> HIDE DEF list
      <4> QED
        BY <4>1, <4>2, <4>3
    <3>2. CASE array # <<>>
      <4>1. s.len + 1 \in 1..Len(array)
        BY <1>1, <2>4, <3>2, EmptySeq
      <4>2. /\ list \in Seq(Value) /\ Len(list) = Len(array)
            /\ \A i \in 1..Len(array) : list[i] = IF i = s.len + 1 THEN d ELSE array[i]
        BY <1>3, <2>4, <3>2, <4>1, ExceptSeq
      <4>3. \A i \in 1..s.len : i \in 1..Len(array) /\ i # s.len + 1
        BY <1>1, <4>1
      <4> HIDE DEF list
      <4> QED
        BY <2>5, <4>1, <4>2, <4>3
    <3> QED
      BY <3>1, <3>2
  <2> HIDE DEF list
  <2>7. SubSeq(list, 1, s.len + 1) = Append(old, d)
    BY <1>4, <2>6
  <2>8. Members' = [Members EXCEPT ![n] = SubSeq(list, 1, s.len + 1)]
    BY <1>1, <2>1, <2>2, <2>6, SavedList
  <2> QED
    BY <2>7, <2>8 DEF old
<1> QED
  BY <1>5, <1>6

LEMMA AddPerforms ==
  ASSUME GroupsInv, NEW t \in Threads, NEW n \in Names, Add(t, n)
  PROVE  Lists!Perform(t)
<1> DEFINE d == request[t].device
           old == Contents(groups[n])
<1>1. /\ Answer(t) /\ mu' = mu /\ Starts(t, "add", n) /\ groups[n] # NoGroup
      /\ \/ Adds(n, d) /\ AppendTo(n, groups[n], d)
         \/ ~Adds(n, d) /\ UNCHANGED <<cells, groups>>
  BY DEF Add
<1>2. /\ request[t] \in Requests /\ request[t].kind = "add" /\ request[t].name = n
      /\ pc[t] = "apply" /\ mu = NoThread /\ mu # t
      /\ Members[n] = old /\ old # NoGroup
  BY <1>1, Started
<1>3. d \in Devices
  BY <1>2, GroupsAssumption
<1>4. Pending' = [Pending EXCEPT ![t] = NoRequest]
  BY <1>1, AnswerEndsPending
<1>5. CASE Adds(n, d)
  <2>1. Members' = [Members EXCEPT ![n] = Append(old, d)]
    BY <1>1, <1>2, <1>3, <1>5, AppendedList
  <2>2. Lists!Outcome(request[t], Members[n]) = Append(old, d)
    BY <1>2, <1>5 DEF Lists!Outcome, Adds, Contains, Lists!Contains
  <2>3. Members' = [Members EXCEPT ![n] = Lists!Outcome(request[t], Members[n])]
    BY <2>1, <2>2
  <2> QED
    BY <1>2, <1>4, <2>3, PerformStep
<1>6. CASE ~Adds(n, d)
  <2>1. Members' = Members
    BY <1>1, <1>2, <1>6, AnswerEndsPending, ListsKept
  <2>2. Lists!Outcome(request[t], Members[n]) = Members[n]
    BY <1>2, <1>6 DEF Lists!Outcome, Adds, Contains, Lists!Contains
  <2>3. Members' = [Members EXCEPT ![n] = Lists!Outcome(request[t], Members[n])]
    BY <2>1, <2>2 DEF Members
  <2> QED
    BY <1>2, <1>4, <2>3, PerformStep
<1> QED
  BY <1>5, <1>6

\* A Remove that gets the lock removes the device, for all that others may see.
LEMMA StartRemovePerforms ==
  ASSUME GroupsInv, NEW t \in Threads, NEW n \in Names, StartRemove(t, n)
  PROVE  Lists!Perform(t)
<1> DEFINE d == request[t].device
           old == Contents(groups[n])
<1>1. /\ Starts(t, "remove", n) /\ groups[n] # NoGroup /\ mu' = t
      /\ slice' = [slice EXCEPT ![t] = groups[n]] /\ pc' = [pc EXCEPT ![t] = "filter"]
      /\ UNCHANGED <<cells, groups, request, next, kept>>
  BY DEF StartRemove, Goto
<1>2. /\ request[t] \in Requests /\ request[t].kind = "remove" /\ request[t].name = n
      /\ pc[t] = "apply" /\ mu = NoThread
      /\ Members[n] = old /\ old # NoGroup /\ old \in Seq(Devices)
  BY <1>1, Started
<1>3. next[t] = 1 /\ kept[t] = 0
  BY <1>2 DEF GroupsInv, Idles
<1>4. /\ slice \in [Threads -> Slice] /\ NoThread \notin Threads
      /\ pc \in [Threads -> {"idle", "apply", "filter", "read", "route", "played"}]
  BY GroupsAssumption DEF GroupsInv, TypeOK
<1>5. ListOf(n)' = SubSeq(old, 1, 0) \o Rest(old, d)[1]
  <2>1. slice'[t] = groups[n]
    BY <1>1, <1>4
  <2>2. Contents(slice[t])' = old
    BY <1>1, <2>1 DEF Contents
  <2>3. groups'[n] # NoGroup /\ mu' # NoThread /\ request'[mu'].name = n
    BY <1>1, <1>2, <1>4
  <2>4. ListOf(n)' = SubSeq(Contents(slice[t])', 1, kept'[t])
                       \o Rest(Contents(slice[t])', request'[t].device)[next'[t]]
    BY <1>1, <2>3 DEF ListOf, Contents
  <2> QED
    BY <1>1, <1>3, <2>2, <2>4
<1>6. ListOf(n)' = Rest(old, d)[1]
  <2>1. SubSeq(old, 1, 0) = <<>>
    BY SubSeqEmpty
  <2>2. Rest(old, d)[1] \in Seq(Devices)
    <3>1. 1 \in 1..Len(old) + 1
      BY <1>2, LenProperties
    <3> QED
      BY <1>2, <3>1, RestTurns
  <2> QED
    BY <1>5, <2>1, <2>2, ConcatEmptySeq
<1>7. Lists!Outcome(request[t], Members[n]) = Rest(old, d)[1]
  BY <1>2 DEF Lists!Outcome, Lists!Without, Lists!Rest, Rest
<1>8. ASSUME NEW m \in Names \ {n} PROVE ListOf(m)' = ListOf(m)
  <2>1. request'[mu'].name # m /\ groups'[m] = groups[m] /\ cells' = cells
    BY <1>1, <1>2
  <2>2. ListOf(m) = IF groups[m] = NoGroup THEN NoGroup ELSE Contents(groups[m])
    BY <1>2 DEF ListOf
  <2>3. ListOf(m)' = IF groups[m] = NoGroup THEN NoGroup ELSE Contents(groups[m])
    BY <2>1 DEF ListOf, Contents
  <2> QED
    BY <2>2, <2>3
<1>9. Members' = [Members EXCEPT ![n] = Lists!Outcome(request[t], Members[n])]
  <2>1. Members' = [m \in Names |-> ListOf(m)']
    BY DEF Members
  <2> QED
    BY <1>6, <1>7, <1>8, <2>1 DEF Members
<1>10. Pending' = [Pending EXCEPT ![t] = NoRequest]
  <2>1. \A u \in Threads : Pending'[u] = IF u = t THEN NoRequest ELSE Pending[u]
    BY <1>1, <1>4 DEF Pending
  <2>2. Pending = [u \in Threads |-> Pending[u]] /\ Pending' = [u \in Threads |-> Pending'[u]]
    BY DEF Pending
  <2> HIDE DEF Pending
  <2> QED
    BY <2>1, <2>2
<1> QED
  BY <1>2, <1>9, <1>10, PerformStep

\* The list a Remove works on.
LEMMA Removing ==
  ASSUME GroupsInv, NEW t \in Threads, pc[t] = "filter"
  PROVE  /\ mu = t /\ t # NoThread /\ request[t] \in Requests /\ request[t].name \in Names
         /\ groups[request[t].name] = slice[t] /\ slice[t] # NoGroup
         /\ slice[t] \in Slice /\ slice[t].arr \in Arrays /\ slice[t].len \in Nat
         /\ Holds(slice[t])
         /\ Contents(slice[t]) \in Seq(Devices) /\ Len(Contents(slice[t])) = slice[t].len
         /\ \A i \in 1..slice[t].len : Contents(slice[t])[i] = cells[slice[t].arr][i]
         /\ next[t] \in 1..slice[t].len + 1 /\ kept[t] \in Nat /\ kept[t] < next[t]
         /\ ListOf(request[t].name) = SubSeq(Contents(slice[t]), 1, kept[t])
              \o Rest(Contents(slice[t]), request[t].device)[next[t]]
<1>1. mu = t /\ t # NoThread /\ request[t] \in Requests /\ request[t].name \in Names
  BY GroupsAssumption DEF GroupsInv, Locked
<1>2. /\ slice[t] \in Slice /\ slice[t].arr \in Arrays /\ slice[t].len \in Nat
      /\ Holds(slice[t]) /\ next[t] \in Nat \ {0} /\ kept[t] \in Nat
  BY ThreadTyped DEF GroupsInv
<1>3. groups[request[t].name] = slice[t] /\ kept[t] < next[t] /\ next[t] <= slice[t].len + 1
  BY DEF GroupsInv, Filters
<1>4. slice[t] # NoGroup
  BY <1>2, GroupsAssumption DEF Slice
<1>5. ListOf(request[t].name) = SubSeq(Contents(slice[t]), 1, kept[t])
        \o Rest(Contents(slice[t]), request[t].device)[next[t]]
  BY <1>1, <1>3, <1>4 DEF ListOf
<1> QED
  BY <1>1, <1>2, <1>3, <1>4, <1>5, ContentsOf

\* No turn of Remove's loop changes a list.
LEMMA FilterStutters ==
  ASSUME GroupsInv, NEW t \in Threads, Filter(t)
  PROVE  UNCHANGED <<Members, Pending>>
<1> DEFINE d == request[t].device
           s == slice[t]
           list == Contents(s)
           new == SubSeq(cells'[s.arr], 1, s.len)
           x == cells[s.arr][next[t]]
<1>1. /\ pc[t] = "filter" /\ next[t] <= s.len
      /\ next' = [next EXCEPT ![t] = next[t] + 1]
      /\ \/ x # d /\ cells' = [cells EXCEPT ![s.arr][kept[t] + 1] = x]
                  /\ kept' = [kept EXCEPT ![t] = kept[t] + 1]
         \/ x = d /\ UNCHANGED <<cells, kept>>
      /\ UNCHANGED <<groups, mu, pc, request, slice>>
  BY DEF Filter
<1> DEFINE name == request[t].name
<1>10. PICK n \in Names : n = name
  BY <1>1, Removing
<1>2. /\ mu = t /\ t # NoThread /\ n = request[t].name /\ groups[n] = s /\ s # NoGroup
      /\ s \in Slice /\ s.arr \in Arrays /\ s.len \in Nat /\ Holds(s)
      /\ list \in Seq(Devices) /\ Len(list) = s.len
      /\ \A i \in 1..s.len : list[i] = cells[s.arr][i]
      /\ next[t] \in 1..s.len + 1 /\ kept[t] \in Nat /\ kept[t] < next[t]
      /\ ListOf(n) = SubSeq(list, 1, kept[t]) \o Rest(list, d)[next[t]]
  BY <1>1, <1>10, Removing
<1>3. /\ cells \in [Arrays -> Seq(Value)] /\ next \in [Threads -> Nat \ {0}]
      /\ kept \in [Threads -> Nat] /\ groups \in [Names -> Slice \cup {NoGroup}]
  BY DEF GroupsInv, TypeOK, Value
<1>4. next[t] \in 1..s.len /\ list[next[t]] = x /\ next'[t] = next[t] + 1
  BY <1>1, <1>2, <1>3
<1>5. ListOf(n)' = SubSeq(new, 1, kept'[t]) \o Rest(new, d)[next'[t]]
  BY <1>1, <1>2 DEF ListOf, Contents
<1>6. ListOf(n)' = ListOf(n)
  <2>1. CASE x = d
    <3>1. cells' = cells /\ kept' = kept
      BY <1>1, <2>1
    <3>2. new = list
      BY <3>1 DEF Contents
    <3>3. Rest(list, d)[next[t]] = Rest(list, d)[next[t] + 1]
      <4> HIDE DEF list, x
      <4>1. list[next[t]] = d /\ next[t] \in 1..Len(list)
        BY <1>2, <1>4, <2>1
      <4>2. list \in Seq(Devices)
        BY <1>2
      <4> HIDE DEF d
      <4>3. PICK l \in Seq(Devices) : l = list
        BY <4>2
      <4>4. PICK e : e = d
        OBVIOUS
      <4> DEFINE f == Rest(l, e)
      <4>5. \A i \in 1..Len(l) : /\ l[i] = e => f[i] = f[i + 1]
                                 /\ l[i] # e => f[i] = <<l[i]>> \o f[i + 1]
        BY RestTurns
      <4> HIDE DEF f
      <4>6. l[next[t]] = e /\ next[t] \in 1..Len(l)
        BY <4>1, <4>3, <4>4
      <4>7. f[next[t]] = f[next[t] + 1]
        BY <4>5, <4>6
      <4> QED
        BY <4>3, <4>4, <4>7 DEF f
    <3> QED
      BY <1>2, <1>4, <1>5, <3>1, <3>2, <3>3
  <2>2. CASE x # d
    <3>1. /\ cells' = [cells EXCEPT ![s.arr][kept[t] + 1] = x]
          /\ kept' = [kept EXCEPT ![t] = kept[t] + 1]
      BY <1>1, <2>2
    <3>2. kept'[t] = kept[t] + 1
      BY <1>3, <3>1
    <3>3. \A i \in 1..s.len : cells'[s.arr][i] = IF i = kept[t] + 1 THEN x ELSE cells[s.arr][i]
      BY <1>2, <1>3, <3>1 DEF Holds
    <3>4. \A i \in 1..s.len : cells'[s.arr][i] \in Devices
      BY <1>2, <1>4, <3>3 DEF Holds
    <3>5. new \in Seq(Devices) /\ Len(new) = s.len /\ \A i \in 1..s.len : new[i] = cells'[s.arr][i]
      <4>1. /\ new \in Seq(Devices) /\ Len(new) = (IF 1 <= s.len THEN s.len - 1 + 1 ELSE 0)
            /\ \A i \in 1..s.len - 1 + 1 : new[i] = cells'[s.arr][1 + i - 1]
        BY <1>2, <3>4, SubSeqProperties
      <4> HIDE DEF new
      <4> QED
        BY <1>2, <4>1
    <3> HIDE DEF new, list, x
    <3>6. \A i \in 1..Len(list) :
            new[i] = IF i = kept[t] + 1 THEN list[next[t]] ELSE list[i]
      BY <1>2, <1>4, <3>3, <3>5
    <3>7. Result(new, d, kept[t] + 1, next[t] + 1) = Result(list, d, kept[t], next[t])
      <4>1. Keeps(list, new, d, kept[t], next[t])
        BY <1>2, <1>4, <2>2, <3>5, <3>6 DEF Keeps
      <4> HIDE DEF d
      <4>2. PICK l \in Seq(Devices), m \in Seq(Devices) : l = list /\ m = new
        BY <1>2, <3>5
      <4>3. PICK e : e = d
        OBVIOUS
      <4>4. PICK k \in Nat, j \in 1..Len(l) : k = kept[t] /\ j = next[t]
        BY <1>2, <1>4, <4>2
      <4>5. Keeps(l, m, e, k, j)
        BY <4>1, <4>2, <4>3, <4>4
      <4>6. Result(m, e, k + 1, j + 1) = Result(l, e, k, j)
        BY <4>5, TurnKeepsList
      <4> QED
        BY <4>2, <4>3, <4>4, <4>6
    <3> QED
      BY <1>2, <1>4, <1>5, <3>2, <3>7 DEF Result
  <2> QED
    BY <2>1, <2>2
<1>7. ASSUME NEW m \in Names \ {n} PROVE ListOf(m)' = ListOf(m)
  <2>1. CASE groups[m] = NoGroup
    BY <1>1, <2>1 DEF ListOf
  <2>2. CASE groups[m] # NoGroup
    <3>1. groups[m].arr \in Arrays /\ groups[m].arr # s.arr
      BY <1>2, <1>3, <1>7, <2>2 DEF Slice, GroupsInv, OwnArrays
    <3>2. cells'[groups[m].arr] = cells[groups[m].arr]
      BY <1>1, <1>3, <3>1
    <3>3. ListOf(m) = Contents(groups[m]) /\ ListOf(m)' = Contents(groups[m])'
      BY <1>1, <1>2, <1>7, <2>2 DEF ListOf
    <3> QED
      BY <1>1, <3>2, <3>3 DEF Contents
  <2> QED
    BY <2>1, <2>2
<1>8. Members' = Members
  <2>1. \A m \in Names : ListOf(m)' = ListOf(m)
    BY <1>6, <1>7
  <2> QED
    BY <2>1 DEF Members
<1> QED
  BY <1>1, <1>8 DEF Pending

\* Nor does saving what it has kept.
LEMMA EndRemoveStutters ==
  ASSUME GroupsInv, NEW t \in Threads, EndRemove(t)
  PROVE  UNCHANGED <<Members, Pending>>
<1> DEFINE n == request[t].name
           list == Contents(slice[t])
           left == Filtered(t)
<1>1. /\ pc[t] = "filter" /\ next[t] > slice[t].len /\ Answer(t) /\ mu' = NoThread
      /\ Save(n, Fresh, Len(left), left)
  BY DEF EndRemove
<1>2. /\ mu = t /\ n \in Names /\ slice[t].len \in Nat
      /\ list \in Seq(Devices) /\ Len(list) = slice[t].len
      /\ next[t] \in 1..slice[t].len + 1 /\ kept[t] \in Nat /\ kept[t] < next[t]
      /\ ListOf(n) = SubSeq(list, 1, kept[t]) \o Rest(list, request[t].device)[next[t]]
  BY <1>1, Removing
<1>3. left = SubSeq(list, 1, kept[t])
  BY DEF Filtered
<1>4. left \in Seq(Devices) /\ left \in Seq(Value) /\ Len(left) \in Nat
  <2>1. \A i \in 1..kept[t] : list[i] \in Devices
    BY <1>2, ElementOfSeq
  <2>2. left \in Seq(Devices)
    BY <1>2, <1>3, <2>1, SubSeqProperties
  <2> QED
    BY <2>2, SeqMonotonic, LenProperties DEF Value
<1>5. ListOf(n) = left
  <2>1. Rest(list, request[t].device)[next[t]] = <<>>
    <3>1. next[t] = Len(list) + 1
      <4>1. /\ next[t] \in 1..slice[t].len + 1 /\ next[t] > slice[t].len
            /\ slice[t].len \in Nat /\ Len(list) = slice[t].len
        BY <1>1, <1>2
      <4> QED
        BY <4>1
    <3>2. Rest(list, request[t].device)[Len(list) + 1] = <<>>
      <4> HIDE DEF list
      <4> QED
        BY <1>2, RestTurns
    <3> QED
      BY <3>1, <3>2
  <2> QED
    BY <1>2, <1>3, <1>4, <2>1, ConcatEmptySeq
<1>6. Fresh \in Arrays /\ Fresh \notin Reachable
  BY FreshIsFree DEF GroupsInv, TypeOK
<1>7. Members' = [Members EXCEPT ![n] = SubSeq(left, 1, Len(left))]
  BY <1>1, <1>2, <1>4, <1>6, SavedList
<1>8. SubSeq(left, 1, Len(left)) = left
  BY <1>4, SubSeqFull
<1>9. Members' = Members
  BY <1>5, <1>7, <1>8 DEF Members
<1> QED
  BY <1>1, <1>9, AnswerEndsPending

\* A Play changes no list.
LEMMA PlayStutters ==
  ASSUME GroupsInv, NEW t \in Threads,
         \/ \E n \in Names : StartPlay(t, n)
         \/ Read(t) \/ RouteMember(t) \/ RouteFails(t) \/ EndPlay(t) \/ Played(t)
  PROVE  UNCHANGED <<Members, Pending>>
<1>1. CASE RouteFails(t) \/ Played(t)
  <2>1. /\ Answer(t) /\ UNCHANGED <<groups, mu>> /\ Collected(cells) /\ pc[t] \notin {"apply", "filter"}
    BY <1>1 DEF RouteFails, Played
  <2>2. mu # t
    BY <2>1 DEF GroupsInv, Locked
  <2> QED
    BY <2>1, <2>2, AnswerEndsPending, ListsKept
<1>2. CASE \/ \E n \in Names : StartPlay(t, n)
           \/ Read(t) \/ RouteMember(t) \/ EndPlay(t)
  <2>1. /\ UNCHANGED <<cells, groups, mu, request, kept>> /\ pc[t] # "filter"
        /\ \E label \in {"read", "route", "played"} : pc' = [pc EXCEPT ![t] = label]
        /\ pc[t] = "apply" => request[t].kind = "play"
        /\ next' = next \/ next' = [next EXCEPT ![t] = @ + 1]
        /\ slice' = slice \/ \E n \in Names : slice' = [slice EXCEPT ![t] = groups[n]]
    BY <1>2 DEF StartPlay, Starts, Read, RouteMember, EndPlay, store, locals, Goto
  <2>2. mu # t
    BY <2>1 DEF GroupsInv, Locked
  <2>3. /\ slice \in [Threads -> Slice] /\ next \in [Threads -> Nat \ {0}]
        /\ pc \in [Threads -> {"idle", "apply", "filter", "read", "route", "played"}]
    BY DEF GroupsInv, TypeOK
  <2>4. \A u \in Threads \ {t} : /\ slice'[u] = slice[u] /\ request'[u] = request[u]
                                /\ kept'[u] = kept[u] /\ next'[u] = next[u]
    BY <2>1, <2>3
  <2>5. Members' = Members
    BY <2>1, <2>2, <2>4, ListsKept
  <2>6. Pending' = Pending
    BY <2>1, <2>3 DEF Pending
  <2> QED
    BY <2>5, <2>6
<1> QED
  BY <1>1, <1>2

\* A request that arrives changes none either.
LEMMA AskArrives ==
  ASSUME GroupsInv, NEW t \in Threads, NEW r \in Requests, Ask(t, r)
  PROVE  Lists!Ask(t) \/ UNCHANGED <<Members, Pending>>
<1>1. /\ pc[t] = "idle" /\ pc' = [pc EXCEPT ![t] = "apply"]
      /\ request' = [request EXCEPT ![t] = r]
      /\ UNCHANGED <<cells, groups, mu, slice, next, kept>>
  BY DEF Ask, Goto, store, locals
<1>2. /\ pc \in [Threads -> {"idle", "apply", "filter", "read", "route", "played"}]
      /\ request \in [Threads -> Requests \cup {NoRequest}]
      /\ mu # t
  BY <1>1 DEF GroupsInv, TypeOK, Locked
<1>3. Members' = Members
  BY <1>1, <1>2, ListsKept
<1>4. Pending[t] = NoRequest
  BY <1>1 DEF Pending
<1>5. \A u \in Threads :
        Pending'[u] = IF u = t /\ r.kind # "play" THEN r ELSE Pending[u]
  BY <1>1, <1>2 DEF Pending
<1>6. Pending = [u \in Threads |-> Pending[u]] /\ Pending' = [u \in Threads |-> Pending'[u]]
  BY DEF Pending
<1>7. CASE r.kind = "play"
  <2> HIDE DEF Pending
  <2> QED
    BY <1>3, <1>5, <1>6, <1>7
<1>8. CASE r.kind # "play"
  <2>1. Pending' = [Pending EXCEPT ![t] = r]
    <3> HIDE DEF Pending
    <3> QED
      BY <1>5, <1>6, <1>8
  <2>2. r \in Changes
    BY <1>8 DEF Changes
  <2> QED
    BY <1>3, <1>4, <2>1, <2>2 DEF Lists!Ask, Members, Pending
<1> QED
  BY <1>7, <1>8

\* The lists of the state file, and nothing asked for.
LEMMA ListsInit == Init => Lists!Init
<1> SUFFICES ASSUME Init PROVE Lists!Init
  OBVIOUS
<1>1. GroupsInv
  BY GroupsInvInit
<1>2. mu = NoThread /\ pc = [t \in Threads |-> "idle"]
  BY DEF Init
<1>3. ASSUME NEW n \in Names PROVE ListOf(n) \in Seq(Devices) \cup {NoGroup}
  <2>1. CASE groups[n] = NoGroup
    BY <2>1 DEF ListOf
  <2>2. CASE groups[n] # NoGroup
    <3>1. groups[n] \in Slice /\ Holds(groups[n])
      BY <1>1, <2>2 DEF GroupsInv, TypeOK
    <3>2. ListOf(n) = Contents(groups[n])
      BY <1>2, <2>2 DEF ListOf
    <3> QED
      BY <3>1, <3>2, ContentsOf
  <2> QED
    BY <2>1, <2>2
<1>4. Pending = [t \in Threads |-> NoRequest]
  BY <1>2 DEF Pending
<1> QED
  BY <1>3, <1>4 DEF Lists!Init, Pending

\* ImplementsGroupList: although slices share arrays, and Remove works in place, every
\* list is what the requests in some order make of it, each at one moment between its
\* arrival and its answer.
THEOREM GroupsImplementLists == Spec => ImplementsGroupList
<1>1. ASSUME GroupsInv, [Next]_vars
      PROVE  [Lists!Next]_<<Members, Pending>>
  <2>1. CASE UNCHANGED vars
    <3>1. UNCHANGED <<cells, groups, mu, pc, request, slice, next, kept>>
      BY <2>1 DEF vars, store, locals
    <3>2. \A n \in Names : ListOf(n)' = ListOf(n)
      BY <3>1 DEF ListOf, Contents
    <3>3. Members' = Members
      BY <3>2 DEF Members
    <3> QED
      BY <3>1, <3>3 DEF Pending
  <2>2. ASSUME NEW t \in Threads, NEW r \in Requests, Ask(t, r)
        PROVE  Lists!Next \/ UNCHANGED <<Members, Pending>>
    BY <1>1, <2>2, AskArrives DEF Lists!Next
  <2>3. ASSUME NEW t \in Threads, Step(t)
        PROVE  Lists!Next \/ UNCHANGED <<Members, Pending>>
    <3>1. CASE \E n \in Names : Create(t, n) \/ NotFound(t, n) \/ Add(t, n) \/ StartRemove(t, n)
      <4>1. Lists!Perform(t) \/ UNCHANGED <<Members, Pending>>
        BY <1>1, <3>1, CreatePerforms, NotFoundPerforms, AddPerforms, StartRemovePerforms
      <4> QED
        BY <4>1 DEF Lists!Next
    <3>2. CASE Filter(t) \/ EndRemove(t)
      BY <1>1, <3>2, FilterStutters, EndRemoveStutters
    <3>3. CASE \/ \E n \in Names : StartPlay(t, n)
               \/ Read(t) \/ RouteMember(t) \/ RouteFails(t) \/ EndPlay(t) \/ Played(t)
      BY <1>1, <3>3, PlayStutters
    <3> QED
      BY <2>3, <3>1, <3>2, <3>3 DEF Step
  <2> QED
    BY <1>1, <2>1, <2>2, <2>3 DEF Next
<1>2. ASSUME GroupsInv, [Next]_vars
      PROVE  [Lists!Next]_<<[n \in Names |-> ListOf(n)],
               [t \in Threads |-> IF pc[t] = "apply" /\ request[t].kind # "play"
                                  THEN request[t] ELSE NoRequest]>>
  BY <1>1, <1>2 DEF Members, Pending
<1> QED
  BY <1>2, ListsInit, GroupsInvariant, PTL DEF Spec, ImplementsGroupList, Lists!Spec
=============================================================================
