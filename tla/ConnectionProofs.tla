-------------------------- MODULE ConnectionProofs --------------------------
(***************************************************************************)
(* For every number of slots, connections, ids, streams and sessions: the  *)
(* tables that know of a connection agree on it, no connection outlives    *)
(* its stream or session, cEMI mode follows the Device Management          *)
(* connection, and no request takes an address in use.                     *)
(***************************************************************************)
EXTENDS ConnectionManager, FiniteSetTheorems, SequenceTheorems, WellFoundedInduction, TLAPS

-----------------------------------------------------------------------------
(* Operators of the model.                                                 *)

\* A set of naturals that is not empty has a smallest member.
LEMMA MinIsLeast ==
    ASSUME NEW S \in SUBSET Nat, S # {}
    PROVE  Min(S) \in S /\ \A y \in S : Min(S) <= y
  <1>1. \E x \in S : \A y \in S : <<y, x>> \notin OpToRel(<, Nat)
    BY WFMin, NatLessThanWellFounded
  <1>2. \A x, y \in Nat : <<y, x>> \notin OpToRel(<, Nat) => x <= y
    BY DEF OpToRel
  <1>3. \E x \in S : \A y \in S : x <= y
    BY <1>1, <1>2
  <1>. QED BY <1>3 DEF Min

\* Ids counted from id reach every other one, and stay ids.
LEMMA Wraps ==
    ASSUME NEW N \in Nat \ {0}, NEW id \in 1..N
    PROVE  /\ \A k \in Nat : ((id - 1 + k) % N) + 1 \in 1..N
           /\ \A x \in 1..N : \E k \in 0..(N - 1) : ((id - 1 + k) % N) + 1 = x
  <1>1. \A k \in Nat : ((id - 1 + k) % N) + 1 \in 1..N
    OBVIOUS
  <1>2. ASSUME NEW x \in 1..N
        PROVE  \E k \in 0..(N - 1) : ((id - 1 + k) % N) + 1 = x
    <2>1. CASE x >= id
      <3> DEFINE k == x - id
      <3>1. k \in 0..(N - 1)
        BY <2>1
      <3>2. id - 1 + k = x - 1 /\ (x - 1) % N = x - 1
        OBVIOUS
      <3>3. ((id - 1 + k) % N) + 1 = x
        BY <3>2
      <3>. QED BY <3>1, <3>3
    <2>2. CASE x < id
      <3> DEFINE k == x - id + N
      <3>1. k \in 0..(N - 1)
        BY <2>2
      <3>2. id - 1 + k = (x - 1) + N /\ ((x - 1) + N) % N = x - 1
        OBVIOUS
      <3>3. ((id - 1 + k) % N) + 1 = x
        BY <3>2
      <3>. QED BY <3>1, <3>3
    <2>. QED BY <2>1, <2>2
  <1>. QED BY <1>1, <1>2

\* The ids of some of a table's entries, one of which is free, leave one over.
LEMMA OneLeft ==
    ASSUME NEW f
    PROVE  \A M, N \in Nat : M <= N => \A U \in SUBSET (1..M) : U # 1..M =>
              \E x \in 1..N : \A i \in U : f[i] # x
  <1>. SUFFICES ASSUME NEW M \in Nat, NEW N \in Nat, M <= N, NEW U \in SUBSET (1..M), U # 1..M
                PROVE  \E x \in 1..N : \A i \in U : f[i] # x
    OBVIOUS
  <1> DEFINE T == {f[i] : i \in U}
  <1> DEFINE g == [i \in U |-> f[i]]
  <1>1. /\ IsFiniteSet(1..M) /\ Cardinality(1..M) = M
        /\ IsFiniteSet(1..N) /\ Cardinality(1..N) = N
    BY FS_Interval
  <1>2. IsFiniteSet(U) /\ Cardinality(U) <= M /\ Cardinality(U) # M
    BY ZenonT(40), <1>1, FS_Subset
  <1>3. g \in Surjection(U, T)
    BY DEF Surjection
  <1>4. IsFiniteSet(T) /\ Cardinality(T) <= Cardinality(U)
    BY <1>2, <1>3, FS_Surjection
  <1>5. Cardinality(T) \in Nat /\ Cardinality(U) \in Nat
    BY <1>2, <1>4, FS_CardinalityType
  <1>6. ~(1..N \subseteq T)
    <2>1. 1..N \in SUBSET T => Cardinality(1..N) <= Cardinality(T)
      BY <1>4, FS_Subset
    <2>. HIDE DEF T
    <2>. QED BY <1>1, <1>2, <1>4, <1>5, <2>1
  <1>. QED BY <1>6

\* A set of positions that is not empty has a last one.
LEMMA MaxIsLast ==
    ASSUME NEW n \in Nat, NEW S \in SUBSET (1..n), S # {}
    PROVE  Max(S) \in S /\ \A y \in S : y <= Max(S)
  <1> DEFINE T == {m \in 0..n : n - m \in S}
  <1>1. \A y \in S : n - y \in T /\ y \in 1..n
    OBVIOUS
  <1>2. T \in SUBSET Nat /\ T # {}
    <2>1. T \in SUBSET Nat
      OBVIOUS
    <2>2. PICK y \in S : TRUE
      OBVIOUS
    <2>3. n - y \in T
      BY <1>1
    <2>. HIDE DEF T
    <2>. QED BY <2>1, <2>3
  <1>3. Min(T) \in T /\ \A y \in T : Min(T) <= y
    BY <1>2, MinIsLeast
  <1>4. PICK m \in T : \A y \in T : m <= y
    BY <1>3
  <1>5. n - m \in S /\ \A y \in S : n - m >= y
    BY <1>1, <1>4
  <1>. QED BY <1>5 DEF Max

-----------------------------------------------------------------------------
(* The inductive invariant.                                                *)

Taken == {k \in SlotIds : slots[k] # 0}

\* Every tunnel holds a slot under its id, and slots and tunnels are counted.
TunnelsHeld ==
    /\ \A i \in OfType("tunnel") : \E k \in SlotIds : slots[k] = conns[i].id
    /\ occupancy = Cardinality(Taken)
    /\ occupancy = Cardinality(OfType("tunnel")) + leaks["tunnel"]

\* Device Management is free, or one connection has it, or a refused request
\* left it taken; a connection that has it is the active one.
OneManagement ==
    /\ \A i \in OfType("management") : conns[i].id = active
    /\ Cardinality(OfType("management")) + leaks["management"] = IF active = 0 THEN 0 ELSE 1

\* A session in use has an id of its own and an open stream.
SessionsHeld ==
    /\ \A n \in SessionIdxs : sessions[n].state # "idle" =>
          /\ sessions[n].id # 0 /\ sessions[n].stream \in StreamIds
          /\ streams[sessions[n].stream].open
    /\ \A m, n \in SessionIdxs :
          /\ sessions[m].state # "idle" /\ sessions[n].state # "idle"
          /\ sessions[m].id = sessions[n].id
          => m = n

IInv == /\ TypeOK /\ DistinctChannels
        /\ TunnelsHeld /\ OneManagement /\ SessionsHeld
        /\ NoOrphans /\ ChannelsTracked /\ CemiFollows

\* The counts, as single facts.
LEMMA Counts ==
    /\ Capacity \in Nat \ {0} /\ MaxConns \in Nat \ {0} /\ NumIds \in Nat \ {0}
    /\ EventCap \in Nat \ {0} /\ NumSessions \in Nat \ {0}
    /\ Streams \in Nat /\ Sessions \in Nat /\ MaxChannels \in Nat
    /\ MaxConnects \in Nat /\ MaxFrames \in Nat /\ MaxWrites \in Nat
    /\ MaxConns <= NumIds /\ Sessions < NumSessions
  BY CountsAssumption, IdsAssumption

\* An entry is a connection with an id and a type, or free.
LEMMA EntryFacts ==
    ASSUME TypeOK
    PROVE  /\ Occupied \in SUBSET Entries
           /\ \A i \in Occupied : conns[i] \in Context /\ conns[i].id \in Ids
                                  /\ conns[i].type \in Types
           /\ \A t \in Types : OfType(t) \in SUBSET Occupied
           /\ IsFiniteSet(Entries) /\ Cardinality(Entries) = MaxConns
           /\ IsFiniteSet(SlotIds) /\ Cardinality(SlotIds) = Capacity
           /\ IsFiniteSet(Occupied)
           /\ \A t \in Types : IsFiniteSet(OfType(t)) /\ Cardinality(OfType(t)) \in Nat
  <1>1. /\ IsFiniteSet(Entries) /\ Cardinality(Entries) = MaxConns
        /\ IsFiniteSet(SlotIds) /\ Cardinality(SlotIds) = Capacity
    BY Counts, FS_Interval DEF Entries, SlotIds
  <1>2. Occupied \in SUBSET Entries /\ \A t \in Types : OfType(t) \in SUBSET Occupied
    BY DEF Occupied, OfType
  <1>3. \A i \in Occupied : conns[i] \in Context
    BY DEF TypeOK, Occupied
  <1>4. IsFiniteSet(Occupied)
    BY <1>1, <1>2, FS_Subset
  <1>5. \A t \in Types : IsFiniteSet(OfType(t)) /\ Cardinality(OfType(t)) \in Nat
    BY <1>2, <1>4, FS_Subset, FS_CardinalityType
  <1>. QED BY <1>1, <1>2, <1>3, <1>4, <1>5 DEF Context

-----------------------------------------------------------------------------
(* What a CONNECT_REQUEST with a free entry uses.                          *)

\* allocate_channel_id gives an id that no connection has.
LEMMA RequestFacts ==
    ASSUME TypeOK, \E i \in Entries : conns[i] = None
    PROVE  /\ Allocated \in Ids /\ NextChannel \in Ids
           /\ \A i \in Occupied : conns[i].id # Allocated
           /\ FreeEntry \in Entries /\ conns[FreeEntry] = None
  <1> DEFINE F == {i \in Entries : conns[i] = None}
             K == {k \in 0..(NumIds - 1) : ~InUse(Later(next_channel, k))}
  <1>. USE Counts
  <1>0. PICK h : h = [j \in Occupied |-> conns[j].id]
    OBVIOUS
  <1>1. Occupied \in SUBSET (1..MaxConns) /\ Occupied # 1..MaxConns
    BY DEF Occupied, Entries
  <1>2. PICK x \in 1..NumIds : \A i \in Occupied : h[i] # x
    <2>1. MaxConns \in Nat /\ NumIds \in Nat /\ MaxConns <= NumIds
      OBVIOUS
    <2>2. \A M, N \in Nat : M <= N => \A U \in SUBSET (1..M) : U # 1..M =>
             \E x \in 1..N : \A i \in U : h[i] # x
      BY OneLeft, Zenon
    <2>3. \A U \in SUBSET (1..MaxConns) : U # 1..MaxConns => \E x \in 1..NumIds : \A i \in U : h[i] # x
      BY <2>1, <2>2, Zenon
    <2>. QED BY <1>1, <2>3, Zenon
  <1>3. /\ \A k \in Nat : Later(next_channel, k) \in Ids
        /\ \A y \in 1..NumIds : \E k \in 0..(NumIds - 1) : Later(next_channel, k) = y
    BY Wraps DEF TypeOK, Later, Ids
  <1>4. ~InUse(x)
    BY <1>0, <1>2 DEF InUse, Occupied
  <1>5. K # {} /\ K \in SUBSET Nat
    BY <1>3, <1>4
  <1>6. Skipped \in K
    BY <1>5, MinIsLeast DEF Skipped
  <1>7. Allocated \in Ids /\ NextChannel \in Ids /\ ~InUse(Allocated)
    BY <1>3, <1>6 DEF Allocated, NextChannel
  <1>8. F # {} /\ F \in SUBSET Nat
    BY DEF Entries
  <1>9. FreeEntry \in F
    BY <1>8, MinIsLeast DEF FreeEntry
  <1>. QED BY <1>7, <1>9 DEF InUse, Occupied

\* A handler's slot is free, and its address used by no other slot.
LEMMA SlotFacts ==
    ASSUME TypeOK, NEW a, NEW access, SlotFor(a, access) # 0
    PROVE  LET k == SlotFor(a, access)
           IN  k \in SlotIds /\ k \in 1..Len(addrs) /\ slots[k] = 0 /\ ~ActiveFor(addrs[k])
  <1> DEFINE R == {k \in 1..Len(addrs) : addrs[k] = a /\ Allowed(k, access)}
             U == {k \in 1..Len(addrs) : Allowed(k, access) /\ slots[k] = 0 /\ ~ActiveFor(addrs[k])}
  <1>1. 1..Len(addrs) \subseteq SlotIds /\ 1..Len(addrs) \subseteq Nat
    BY ListsAssumption, Counts DEF TypeOK, SlotIds
  <1>2. CASE a = 0
    <2>1. U # {} /\ SlotFor(a, access) = Min(U)
      BY <1>2 DEF SlotFor, FirstFree
    <2>2. U \in SUBSET Nat
      BY <1>1
    <2>3. Min(U) \in U
      BY <2>1, <2>2, MinIsLeast
    <2>. QED BY <1>1, <2>1, <2>3
  <1>3. CASE a # 0
    <2>1. R # {} /\ SlotFor(a, access) = Min(R) /\ ~ActiveFor(a)
      BY <1>3 DEF SlotFor, Requested
    <2>2. R \in SUBSET Nat
      BY <1>1
    <2>3. Min(R) \in R
      BY <2>1, <2>2, MinIsLeast
    <2>4. slots[Min(R)] = 0
      BY <2>1, <2>3 DEF ActiveFor
    <2>. QED BY <1>1, <2>1, <2>3, <2>4
  <1>. QED BY <1>2, <1>3

-----------------------------------------------------------------------------
(* Closing connections.                                                    *)

\* slot_index_for_channel finds the slot of an id that is held.
LEMMA SlotOfFacts ==
    ASSUME TypeOK, NEW id, \E k \in SlotIds : slots[k] = id
    PROVE  SlotOf(id) \in SlotIds /\ slots[SlotOf(id)] = id
  <1> DEFINE H == {k \in SlotIds : slots[k] = id}
  <1>1. H # {} /\ H \in SUBSET Nat
    BY DEF SlotIds
  <1>2. Min(H) \in H
    BY <1>1, MinIsLeast
  <1>. QED BY <1>1, <1>2 DEF SlotOf

\* Entries that leave the table take nothing else with them.
LEMMA EntriesLeave ==
    ASSUME TypeOK, NEW E \in SUBSET Occupied,
           conns' = [i \in Entries |-> IF i \in E THEN None ELSE conns[i]]
    PROVE  /\ conns' \in [Entries -> Context \cup {None}]
           /\ Occupied' = Occupied \ E
           /\ \A i \in Occupied \ E : conns'[i] = conns[i]
           /\ \A t \in Types : OfType(t)' = OfType(t) \ E
  <1>1. conns' \in [Entries -> Context \cup {None}]
    BY DEF TypeOK
  <1>2. Occupied' = Occupied \ E
    BY DEF Occupied
  <1>3. \A i \in Occupied \ E : conns'[i] = conns[i]
    BY DEF Occupied
  <1>. QED BY <1>1, <1>2, <1>3 DEF OfType

\* Each tunnel that closes frees one slot of its own.
LEMMA FreedFacts ==
    ASSUME TypeOK, DistinctChannels, TunnelsHeld, NEW E \in SUBSET Occupied
    PROVE  /\ FreedSlots(E) \in SUBSET Taken
           /\ IsFiniteSet(FreedSlots(E))
           /\ Cardinality(FreedSlots(E)) = Cardinality(OfType("tunnel") \cap E)
           /\ \A i \in OfType("tunnel") \ E : \A k \in FreedSlots(E) : slots[k] # conns[i].id
  <1> DEFINE T == OfType("tunnel") \cap E
             b == [i \in T |-> SlotOf(conns[i].id)]
  <1>. USE EntryFacts
  <1>1. T = {j \in E : conns[j].type = "tunnel"}
    BY DEF OfType
  <1>2. \A i \in OfType("tunnel") : /\ SlotOf(conns[i].id) \in SlotIds
                                   /\ slots[SlotOf(conns[i].id)] = conns[i].id
                                   /\ i \in Occupied /\ conns[i].id \in Ids
    BY SlotOfFacts DEF TunnelsHeld, Types
  <1>3. 0 \notin SlotIds /\ 0 \notin Ids
    BY DEF SlotIds, Ids
  <1>4. FreedSlots(E) = {SlotOf(conns[i].id) : i \in T}
    BY <1>1, <1>2, <1>3 DEF FreedSlots
  <1>5. FreedSlots(E) \in SUBSET Taken
    BY <1>2, <1>3, <1>4 DEF Taken
  <1>6. \A i, j \in OfType("tunnel") : i # j => conns[i].id # conns[j].id
    BY <1>2 DEF DistinctChannels
  <1>7. b \in Bijection(T, FreedSlots(E))
    <2>1. b \in [T -> FreedSlots(E)]
      BY <1>4
    <2>2. \A i, j \in T : b[i] = b[j] => i = j
      BY <1>2, <1>6
    <2>3. \A k \in FreedSlots(E) : \E i \in T : b[i] = k
      BY <1>4
    <2>. QED BY <2>1, <2>2, <2>3 DEF Bijection, Injection, Surjection, IsInjective
  <1>8. IsFiniteSet(T)
    BY FS_Intersection DEF Types
  <1>9. IsFiniteSet(FreedSlots(E)) /\ Cardinality(FreedSlots(E)) = Cardinality(T)
    BY <1>7, <1>8, FS_Bijection DEF ExistsBijection
  <1>10. \A i \in OfType("tunnel") \ E : \A k \in FreedSlots(E) : slots[k] # conns[i].id
    BY <1>2, <1>4, <1>6
  <1>. QED BY <1>5, <1>9, <1>10

\* Closing tunnels keeps slots, occupancy count and tunnels in step.
LEMMA TunnelsClose ==
    ASSUME TypeOK, DistinctChannels, TunnelsHeld, NEW E \in SUBSET Occupied,
           conns' = [i \in Entries |-> IF i \in E THEN None ELSE conns[i]],
           CloseTunnels(E), leaks' = leaks
    PROVE  /\ slots' \in [SlotIds -> 0..NumIds] /\ occupancy' \in 0..Capacity
           /\ TunnelsHeld'
  <1>. USE Counts
  <1>0. PICK T, F : T = OfType("tunnel") /\ F = FreedSlots(E)
    OBVIOUS
  <1>1. /\ F \in SUBSET Taken /\ IsFiniteSet(F)
        /\ Cardinality(F) = Cardinality(T \cap E)
        /\ \A i \in T \ E : \A k \in F : slots[k] # conns[i].id
    BY <1>0, FreedFacts
  <1>2. /\ OfType("tunnel")' = T \ E
        /\ \A i \in T \ E : conns'[i] = conns[i]
        /\ IsFiniteSet(T) /\ Cardinality(T) \in Nat
    BY <1>0, EntriesLeave, EntryFacts DEF Types
  <1>3. /\ slots' = [k \in SlotIds |-> IF k \in F THEN 0 ELSE slots[k]]
        /\ occupancy' = Max({0, occupancy - Cardinality(F)})
    BY <1>0 DEF CloseTunnels
  <1>4. slots' \in [SlotIds -> 0..NumIds]
    BY <1>3 DEF TypeOK
  <1>5. Taken' = Taken \ F /\ Taken \in SUBSET SlotIds
    BY <1>3 DEF Taken
  <1>6. IsFiniteSet(Taken) /\ Cardinality(Taken) \in Nat /\ Taken \cap F = F
    BY <1>1, <1>5, EntryFacts, FS_Subset, FS_CardinalityType
  <1>7. /\ IsFiniteSet(Taken \ F)
        /\ Cardinality(Taken \ F) = Cardinality(Taken) - Cardinality(Taken \cap F)
        /\ Cardinality(T \ E) = Cardinality(T) - Cardinality(T \cap E)
    BY <1>2, <1>6, FS_Difference
  <1>8. Cardinality(Taken \ F) \in Nat /\ Cardinality(F) \in Nat /\ Cardinality(Taken \ F) <= Capacity
    <2>1. Taken \ F \in SUBSET SlotIds
      BY <1>5
    <2>. QED BY <1>1, <1>7, <2>1, EntryFacts, FS_Subset, FS_CardinalityType
  <1>9. occupancy' = occupancy - Cardinality(F)
    <2>1. occupancy - Cardinality(F) \in Nat
      BY <1>6, <1>7, <1>8 DEF TunnelsHeld
    <2>2. \A x \in Nat : Max({0, x}) = x
      BY DEF Max
    <2>. QED BY <1>3, <2>1, <2>2
  <1>10. occupancy = Cardinality(Taken) /\ occupancy = Cardinality(T) + leaks["tunnel"]
         /\ leaks["tunnel"] \in Nat
    BY <1>0 DEF TunnelsHeld, TypeOK, Types
  <1>11. /\ occupancy' = Cardinality(Taken \ F)
         /\ occupancy' = Cardinality(T \ E) + leaks["tunnel"]
    <2>1. Cardinality(Taken \cap F) = Cardinality(F) /\ Cardinality(T \cap E) = Cardinality(F)
      BY <1>1, <1>6
    <2>2. Cardinality(Taken \ F) = Cardinality(Taken) - Cardinality(F)
      BY <1>7, <2>1
    <2>3. Cardinality(T \ E) = Cardinality(T) - Cardinality(F)
      BY <1>7, <2>1
    <2>. QED BY <1>2, <1>6, <1>8, <1>9, <1>10, <2>2, <2>3
  <1>12. \A i \in T \ E : \E k \in SlotIds : slots'[k] = conns'[i].id
    <2>1. \A i \in T : \E k \in SlotIds : slots[k] = conns[i].id
      BY <1>0 DEF TunnelsHeld
    <2>. QED BY <1>1, <1>2, <1>3, <2>1
  <1>13. occupancy' \in 0..Capacity
    BY <1>8, <1>11
  <1>. QED BY <1>2, <1>4, <1>5, <1>11, <1>12, <1>13 DEF TunnelsHeld

\* An event decides what the layer stack will be in, unless the channel is full.
LEMMA PushFacts ==
    ASSUME TypeOK, NEW e \in {"activate", "deactivate"}, Push(e), cemi' = cemi
    PROVE  /\ events' \in Seq({"activate", "deactivate", "frame"}) /\ Len(events') <= EventCap
           /\ refused' \in BOOLEAN
           /\ ~refused' => Settled' = (e = "activate")
  <1> DEFINE Ev == {"activate", "deactivate", "frame"}
  <1>1. events \in Seq(Ev) /\ Len(events) \in Nat /\ Len(events) <= EventCap /\ refused \in BOOLEAN
    BY DEF TypeOK
  <1>2. CASE ~(Len(events) < EventCap)
    BY <1>1, <1>2 DEF Push
  <1>3. CASE Len(events) < EventCap
    <2>1. events' = Append(events, e) /\ refused' = refused
      BY <1>3 DEF Push
    <2>2. events' \in Seq(Ev) /\ Len(events') = Len(events) + 1 /\ events'[Len(events) + 1] = e
      BY <1>1, <2>1
    <2>3. /\ Len(events) + 1 \in Deciding'
          /\ Deciding' \in SUBSET (1..(Len(events) + 1)) /\ Deciding' # {}
      BY <1>1, <2>2 DEF Deciding
    <2>4. Max(Deciding') = Len(events) + 1
      <3>1. PICK n \in Nat : n = Len(events) + 1
        BY <1>1
      <3>2. PICK D : D = Deciding'
        OBVIOUS
      <3>3. D \in SUBSET (1..n) /\ D # {} /\ n \in D
        BY <2>3, <3>1, <3>2
      <3>4. Max(D) \in D /\ \A y \in D : y <= Max(D)
        BY <3>3, MaxIsLast
      <3>5. Max(D) \in 1..n /\ n <= Max(D)
        BY <3>3, <3>4
      <3>6. Max(D) = n
        BY <3>5
      <3>. QED BY <3>1, <3>2, <3>6
    <2>5. Settled' = (e = "activate")
      BY <2>2, <2>3, <2>4 DEF Settled
    <2>. QED BY <1>1, <1>3, <2>1, <2>2, <2>5, Counts
  <1>. QED BY <1>2, <1>3

\* When the management connection closes, its entry was the only one.
LEMMA ManagementEnds ==
    ASSUME TypeOK, OneManagement, CemiFollows, NEW E \in SUBSET Occupied,
           conns' = [i \in Entries |-> IF i \in E THEN None ELSE conns[i]],
           CloseManagement(E), leaks' = leaks, cemi' = cemi
    PROVE  /\ active' \in 0..NumIds /\ refused' \in BOOLEAN
           /\ events' \in Seq({"activate", "deactivate", "frame"}) /\ Len(events') <= EventCap
           /\ OneManagement' /\ CemiFollows'
  <1>0. PICK M : M = OfType("management")
    OBVIOUS
  <1>1. /\ OfType("management")' = M \ E
        /\ \A i \in M \ E : conns'[i] = conns[i]
        /\ IsFiniteSet(M) /\ Cardinality(M) \in Nat
    BY <1>0, EntriesLeave, EntryFacts DEF Types
  <1>2. /\ \A i \in M : conns[i].id = active /\ conns[i].id \in Ids
        /\ Cardinality(M) + leaks["management"] = IF active = 0 THEN 0 ELSE 1
        /\ leaks["management"] \in Nat
    BY <1>0, EntryFacts DEF OneManagement, TypeOK, Types
  <1>3. CASE ManagementCloses(E)
    <2>1. active # 0 /\ active' = 0 /\ Push("deactivate")
      BY <1>3 DEF ManagementCloses, CloseManagement
    <2>2. PICK i \in E : i \in M
      BY <1>0, <1>3 DEF ManagementCloses, OfType
    <2>3. Cardinality(M) # 0
      BY <1>1, <2>2, FS_EmptySet
    <2>4. Cardinality(M) = 1 /\ leaks["management"] = 0
      BY <1>1, <1>2, <2>1, <2>3
    <2>5. M \ E = {}
      BY <1>1, <2>2, <2>4, FS_Singleton
    <2>6. OneManagement'
      BY <1>1, <2>1, <2>4, <2>5, FS_EmptySet DEF OneManagement
    <2>7. /\ events' \in Seq({"activate", "deactivate", "frame"}) /\ Len(events') <= EventCap
          /\ refused' \in BOOLEAN
          /\ ~refused' => Settled' = ("deactivate" = "activate")
      BY <2>1, PushFacts
    <2>8. CemiFollows'
      BY <2>1, <2>7 DEF CemiFollows
    <2>9. active' \in 0..NumIds
      BY <2>1, Counts
    <2>. QED BY <2>6, <2>7, <2>8, <2>9
  <1>4. CASE ~ManagementCloses(E)
    <2>1. active' = active /\ events' = events /\ refused' = refused
      BY <1>4 DEF CloseManagement
    <2>2. M \ E = M
      <3>1. \A i \in M : active # 0 /\ conns[i].type = "management"
        BY <1>0, <1>2 DEF OfType, Ids
      <3>. QED BY <1>2, <1>4, <3>1 DEF ManagementCloses
    <2>3. OneManagement'
      BY <1>1, <1>2, <2>1, <2>2 DEF OneManagement
    <2>4. CemiFollows'
      BY <2>1 DEF CemiFollows, Settled, Deciding
    <2>. QED BY <2>1, <2>3, <2>4 DEF TypeOK
  <1>. QED BY <1>3, <1>4

\* The parts of the invariant that closing connections can disturb.
LEMMA TearDownOK ==
    ASSUME IInv, NEW E \in SUBSET Occupied, TearDown(E), UNCHANGED << leaks, cemi >>
    PROVE  /\ conns' \in [Entries -> Context \cup {None}]
           /\ Occupied' = Occupied \ E
           /\ \A i \in Occupied \ E : conns'[i] = conns[i]
           /\ slots' \in [SlotIds -> 0..NumIds] /\ occupancy' \in 0..Capacity
           /\ active' \in 0..NumIds /\ refused' \in BOOLEAN
           /\ events' \in Seq({"activate", "deactivate", "frame"}) /\ Len(events') <= EventCap
           /\ DistinctChannels' /\ TunnelsHeld' /\ OneManagement' /\ CemiFollows'
  <1>1. /\ conns' = [i \in Entries |-> IF i \in E THEN None ELSE conns[i]]
        /\ CloseTunnels(E) /\ CloseManagement(E)
    BY DEF TearDown
  <1>2. /\ conns' \in [Entries -> Context \cup {None}]
        /\ Occupied' = Occupied \ E
        /\ \A i \in Occupied \ E : conns'[i] = conns[i]
    BY <1>1, EntriesLeave DEF IInv
  <1>3. DistinctChannels'
    BY <1>2 DEF DistinctChannels, IInv
  <1>4. slots' \in [SlotIds -> 0..NumIds] /\ occupancy' \in 0..Capacity /\ TunnelsHeld'
    BY <1>1, TunnelsClose DEF IInv
  <1>5. /\ active' \in 0..NumIds /\ refused' \in BOOLEAN
        /\ events' \in Seq({"activate", "deactivate", "frame"}) /\ Len(events') <= EventCap
        /\ OneManagement' /\ CemiFollows'
    BY <1>1, ManagementEnds DEF IInv
  <1>. QED BY <1>2, <1>3, <1>4, <1>5

\* The entries U of a table of entries t carry finitely many channels, and no
\* more than the table has entries.
LEMMA FewIds ==
    ASSUME NEW t, NEW U \in SUBSET Entries
    PROVE  /\ IsFiniteSet({t[i].id : i \in U})
           /\ Cardinality({t[i].id : i \in U}) <= MaxConns
  <1>. USE Counts
  <1>0. PICK C, h : C = {t[i].id : i \in U} /\ h = [i \in U |-> t[i].id]
    OBVIOUS
  <1>1. IsFiniteSet(1..MaxConns) /\ Cardinality(1..MaxConns) = MaxConns
    BY FS_Interval
  <1>2. IsFiniteSet(U) /\ Cardinality(U) <= MaxConns
    BY <1>1, FS_Subset DEF Entries
  <1>3. h \in Surjection(U, C)
    BY <1>0 DEF Surjection
  <1>4. IsFiniteSet(C) /\ Cardinality(C) <= Cardinality(U)
    BY <1>2, <1>3, FS_Surjection
  <1>5. Cardinality(C) \in Nat /\ Cardinality(U) \in Nat
    BY <1>2, <1>4, FS_CardinalityType
  <1>. QED BY <1>0, <1>2, <1>4, <1>5

\* What is left of a small set is small.
LEMMA StillFew ==
    ASSUME NEW A, IsFiniteSet(A), Cardinality(A) <= Surplus, NEW B \in SUBSET A
    PROVE  Cardinality(B) <= Surplus
  <1>1. Surplus \in Nat
    BY Counts DEF Surplus
  <1>2. IsFiniteSet(B) /\ Cardinality(B) <= Cardinality(A)
    BY FS_Subset
  <1>3. Cardinality(A) \in Nat /\ Cardinality(B) \in Nat
    BY <1>2, FS_CardinalityType
  <1>. QED BY <1>1, <1>2, <1>3

\* What a stream does not track of the channels on it: a finite set.
LEMMA MissingFacts ==
    ASSUME IInv, NEW s \in StreamIds
    PROVE  /\ streams[s].channels \subseteq Carried(s)
           /\ IsFiniteSet(Carried(s)) /\ IsFiniteSet(streams[s].channels)
           /\ IsFiniteSet(Carried(s) \ streams[s].channels)
           /\ Cardinality(Carried(s) \ streams[s].channels) <= Surplus
  <1>1. /\ streams[s].channels \subseteq Carried(s)
        /\ Cardinality(Carried(s) \ streams[s].channels) <= Surplus
    BY DEF IInv, ChannelsTracked
  <1>2. {j \in Occupied : conns[j].stream = s} \in SUBSET Entries
    BY DEF Occupied
  <1>3. IsFiniteSet(Carried(s))
    BY <1>2, FewIds DEF Carried
  <1>4. Carried(s) \ streams[s].channels \in SUBSET Carried(s)
    OBVIOUS
  <1>. QED BY <1>1, <1>3, <1>4, FS_Subset

\* A stream forgets the channels that close and no other.
LEMMA UntrackedOK ==
    ASSUME IInv, NEW E \in SUBSET Occupied, streams' = Untracked(E),
           Occupied' = Occupied \ E, \A i \in Occupied \ E : conns'[i] = conns[i]
    PROVE  /\ streams' \in [StreamIds -> [open : BOOLEAN, channels : SUBSET Ids]]
           /\ \A s \in StreamIds : streams'[s].open = streams[s].open
           /\ ChannelsTracked'
  <1>1. ASSUME NEW s \in StreamIds
        PROVE  /\ streams'[s].open = streams[s].open
               /\ streams'[s].channels =
                      streams[s].channels \ {conns[i].id : i \in {j \in E : conns[j].stream = s}}
    BY DEF IInv, TypeOK, Untracked
  <1>2. streams' \in [StreamIds -> [open : BOOLEAN, channels : SUBSET Ids]]
    BY DEF IInv, TypeOK, Untracked
  <1>3. ASSUME NEW s \in StreamIds
        PROVE  /\ streams'[s].channels \subseteq Carried(s)'
               /\ Cardinality(Carried(s)' \ streams'[s].channels) <= Surplus
    <2> DEFINE gone == {conns[i].id : i \in {j \in E : conns[j].stream = s}}
    <2>1. Carried(s)' = Carried(s) \ gone
      <3>1. Carried(s)' = {conns[i].id : i \in {j \in Occupied \ E : conns[j].stream = s}}
        BY DEF Carried
      <3>2. \A i, j \in Occupied : conns[i].id = conns[j].id => i = j
        BY DEF IInv, DistinctChannels
      <3>. QED BY <3>1, <3>2 DEF Carried
    <2>2. streams'[s].channels = streams[s].channels \ gone
      BY <1>1
    <2>. HIDE DEF gone
    <2>3. /\ streams'[s].channels \subseteq Carried(s)'
          /\ Carried(s)' \ streams'[s].channels \in SUBSET (Carried(s) \ streams[s].channels)
      BY <2>1, <2>2, MissingFacts
    <2>. QED BY <2>3, MissingFacts, StillFew
  <1>. QED BY <1>1, <1>2, <1>3 DEF ChannelsTracked

-----------------------------------------------------------------------------
(* The steps that close connections.                                       *)

\* What the steps that close single connections have in common.
LEMMA ClosingOK ==
    ASSUME IInv, NEW E \in SUBSET Occupied, TearDown(E), streams' = Untracked(E),
           UNCHANGED << next_channel, addrs, cemi, next_session, leaks, connects, frames, writes >>,
           sessions' \in [SessionIdxs -> [state : {"idle", "unauthenticated", "authenticated"},
                                          id : 0..NumSessions, stream : 0..Streams,
                                          user : Users \cup {OPEN}]],
           \A n \in SessionIdxs : sessions'[n] = sessions[n] \/ sessions'[n].state = "idle",
           \A i \in Occupied \ E, n \in SessionIdxs :
               sessions[n].state = "authenticated" /\ sessions[n].id = conns[i].session
                  /\ sessions[n].id # 0
               => sessions'[n] = sessions[n]
    PROVE  IInv'
  <1>1. /\ conns' \in [Entries -> Context \cup {None}]
        /\ Occupied' = Occupied \ E
        /\ \A i \in Occupied \ E : conns'[i] = conns[i]
        /\ slots' \in [SlotIds -> 0..NumIds] /\ occupancy' \in 0..Capacity
        /\ active' \in 0..NumIds /\ refused' \in BOOLEAN
        /\ events' \in Seq({"activate", "deactivate", "frame"}) /\ Len(events') <= EventCap
        /\ DistinctChannels' /\ TunnelsHeld' /\ OneManagement' /\ CemiFollows'
    BY TearDownOK
  <1>2. /\ streams' \in [StreamIds -> [open : BOOLEAN, channels : SUBSET Ids]]
        /\ \A s \in StreamIds : streams'[s].open = streams[s].open
        /\ ChannelsTracked'
    BY <1>1, UntrackedOK
  <1>3. TypeOK'
    BY <1>1, <1>2 DEF IInv, TypeOK
  <1>4. SessionsHeld'
    BY <1>2 DEF IInv, SessionsHeld
  <1>5. NoOrphans'
    <2>1. \A i \in Occupied : conns[i].stream \in 0..Streams
      BY EntryFacts DEF IInv, Context
    <2>2. \A i \in Occupied : conns[i].stream # 0 => conns[i].stream \in StreamIds
      BY <2>1, Counts DEF StreamIds
    <2>3. SUFFICES ASSUME NEW i \in Occupied \ E
                   PROVE  /\ conns[i].stream # 0 => streams'[conns[i].stream].open
                          /\ conns[i].session # 0 =>
                                \E n \in SessionIdxs : /\ sessions'[n].state = "authenticated"
                                                       /\ sessions'[n].id = conns[i].session
                                                       /\ sessions'[n].stream = conns[i].stream
      BY <1>1 DEF NoOrphans
    <2>4. conns[i].stream # 0 => streams'[conns[i].stream].open
      BY <1>2, <2>2 DEF IInv, NoOrphans
    <2>5. ASSUME conns[i].session # 0
          PROVE  \E n \in SessionIdxs : /\ sessions'[n].state = "authenticated"
                                        /\ sessions'[n].id = conns[i].session
                                        /\ sessions'[n].stream = conns[i].stream
      <3>1. PICK n \in SessionIdxs : /\ sessions[n].state = "authenticated"
                                     /\ sessions[n].id = conns[i].session
                                     /\ sessions[n].stream = conns[i].stream
        BY <2>5 DEF IInv, NoOrphans
      <3>2. sessions'[n] = sessions[n]
        BY <2>5, <3>1
      <3>. QED BY <3>1, <3>2
    <2>. QED BY <2>4, <2>5
  <1>. QED BY <1>1, <1>2, <1>3, <1>4, <1>5 DEF IInv

\* DISCONNECT_REQUEST and the heartbeat timeout close one connection.
LEMMA DisconnectOK ==
    ASSUME IInv, NEW i \in Entries, NEW o, Disconnect(i, o) \/ HeartbeatTimeout(i)
    PROVE  IInv'
  <1>1. {i} \in SUBSET Occupied
    BY DEF Disconnect, HeartbeatTimeout, Occupied
  <1>2. /\ TearDown({i}) /\ streams' = Untracked({i})
        /\ UNCHANGED << next_channel, addrs, cemi, next_session, leaks, connects, frames, writes >>
        /\ sessions' = sessions
    BY DEF Disconnect, HeartbeatTimeout
  <1>3. sessions' \in [SessionIdxs -> [state : {"idle", "unauthenticated", "authenticated"},
                                          id : 0..NumSessions, stream : 0..Streams,
                                          user : Users \cup {OPEN}]]
    BY <1>2 DEF IInv, TypeOK
  <1>. QED BY <1>1, <1>2, <1>3, ClosingOK

\* A session that ends closes its connections, and no other session's.
LEMMA EndSessionOK ==
    ASSUME IInv, NEW n \in SessionIdxs, EndSession(n)
    PROVE  IInv'
  <1> DEFINE E == {i \in Occupied : conns[i].session = sessions[n].id}
  <1>1. E \in SUBSET Occupied
    OBVIOUS
  <1>2. /\ TearDown(E) /\ streams' = Untracked(E)
        /\ UNCHANGED << next_channel, addrs, cemi, next_session, leaks, connects, frames, writes >>
        /\ sessions' = [sessions EXCEPT ![n] = Idle]
    BY DEF EndSession
  <1>3. Idle \in [state : {"idle", "unauthenticated", "authenticated"},
                  id : 0..NumSessions, stream : 0..Streams, user : Users \cup {OPEN}]
    BY Counts DEF Idle
  <1>4. sessions' \in [SessionIdxs -> [state : {"idle", "unauthenticated", "authenticated"},
                                          id : 0..NumSessions, stream : 0..Streams,
                                          user : Users \cup {OPEN}]]
    BY <1>2, <1>3 DEF IInv, TypeOK
  <1>5. \A m \in SessionIdxs : sessions'[m] = IF m = n THEN Idle ELSE sessions[m]
    BY <1>2 DEF IInv, TypeOK
  <1>6. \A m \in SessionIdxs : sessions'[m] = sessions[m] \/ sessions'[m].state = "idle"
    BY <1>5 DEF Idle
  <1>7. \A i \in Occupied \ E, m \in SessionIdxs :
            sessions[m].state = "authenticated" /\ sessions[m].id = conns[i].session
               /\ sessions[m].id # 0
            => sessions'[m] = sessions[m]
    BY <1>5
  <1>. HIDE DEF E
  <1>. QED BY <1>1, <1>2, <1>4, <1>6, <1>7, ClosingOK

\* A UDP connection given up on is tracked by no stream.
LEMMA AckTimeoutOK ==
    ASSUME IInv, NEW i \in Entries, AckTimeout(i)
    PROVE  IInv'
  <1>1. {i} \in SUBSET Occupied /\ conns[i].stream = 0
    BY DEF AckTimeout, Occupied
  <1>2. /\ TearDown({i})
        /\ UNCHANGED << next_channel, addrs, cemi, streams, sessions, next_session, leaks,
                        connects, frames, writes >>
    BY DEF AckTimeout
  <1>3. /\ conns' \in [Entries -> Context \cup {None}]
        /\ Occupied' = Occupied \ {i}
        /\ \A j \in Occupied \ {i} : conns'[j] = conns[j]
        /\ slots' \in [SlotIds -> 0..NumIds] /\ occupancy' \in 0..Capacity
        /\ active' \in 0..NumIds /\ refused' \in BOOLEAN
        /\ events' \in Seq({"activate", "deactivate", "frame"}) /\ Len(events') <= EventCap
        /\ DistinctChannels' /\ TunnelsHeld' /\ OneManagement' /\ CemiFollows'
    BY <1>1, <1>2, TearDownOK
  <1>4. TypeOK'
    BY <1>2, <1>3 DEF IInv, TypeOK
  <1>5. SessionsHeld'
    BY <1>2 DEF IInv, SessionsHeld
  <1>6. NoOrphans'
    BY <1>2, <1>3 DEF IInv, NoOrphans
  <1>7. ChannelsTracked'
    <2>1. ASSUME NEW s \in StreamIds
          PROVE  Carried(s)' = Carried(s)
      <3>1. s # 0
        BY DEF StreamIds
      <3>. QED BY <1>1, <1>3, <3>1 DEF Carried
    <2>. QED BY <1>2, <2>1 DEF IInv, ChannelsTracked
  <1>. QED BY <1>3, <1>4, <1>5, <1>6, <1>7 DEF IInv

\* A stream that closes takes its connections and sessions with it.
LEMMA CloseStreamOK ==
    ASSUME IInv, NEW s \in StreamIds, CloseStream(s)
    PROVE  IInv'
  <1> DEFINE E == {i \in Occupied : conns[i].stream = s}
  <1>1. E \in SUBSET Occupied
    OBVIOUS
  <1>2. /\ TearDown(E)
        /\ streams' = [streams EXCEPT ![s] = Closed]
        /\ sessions' = [n \in SessionIdxs |-> IF sessions[n].stream = s THEN Idle ELSE sessions[n]]
        /\ UNCHANGED << next_channel, addrs, cemi, next_session, leaks, connects, frames, writes >>
    BY DEF CloseStream
  <1>3. \A i \in Occupied : i \in E <=> conns[i].stream = s
    OBVIOUS
  <1>. HIDE DEF E
  <1>4. /\ conns' \in [Entries -> Context \cup {None}]
        /\ Occupied' = Occupied \ E
        /\ \A j \in Occupied \ E : conns'[j] = conns[j]
        /\ slots' \in [SlotIds -> 0..NumIds] /\ occupancy' \in 0..Capacity
        /\ active' \in 0..NumIds /\ refused' \in BOOLEAN
        /\ events' \in Seq({"activate", "deactivate", "frame"}) /\ Len(events') <= EventCap
        /\ DistinctChannels' /\ TunnelsHeld' /\ OneManagement' /\ CemiFollows'
    BY <1>1, <1>2, TearDownOK
  <1>5. Idle \in [state : {"idle", "unauthenticated", "authenticated"},
                  id : 0..NumSessions, stream : 0..Streams, user : Users \cup {OPEN}]
    BY Counts DEF Idle
  <1>6. /\ Closed.channels = {} /\ Closed.open = FALSE /\ Idle.state = "idle"
        /\ Closed \in [open : BOOLEAN, channels : SUBSET Ids]
    BY DEF Closed, Idle
  <1>7. TypeOK'
    BY <1>2, <1>4, <1>5, <1>6 DEF IInv, TypeOK
  <1>8. /\ \A t \in StreamIds : streams'[t] = IF t = s THEN Closed ELSE streams[t]
        /\ \A n \in SessionIdxs : sessions'[n] = IF sessions[n].stream = s THEN Idle ELSE sessions[n]
    BY <1>2 DEF IInv, TypeOK
  <1>9. SessionsHeld'
    BY <1>6, <1>8 DEF IInv, SessionsHeld
  <1>10. NoOrphans'
    <2>1. \A i \in Occupied : conns[i].stream \in 0..Streams
      BY EntryFacts DEF IInv, Context
    <2>2. \A i \in Occupied : conns[i].stream # 0 => conns[i].stream \in StreamIds
      BY <2>1, Counts DEF StreamIds
    <2>3. SUFFICES ASSUME NEW i \in Occupied, conns[i].stream # s
                   PROVE  /\ conns[i].stream # 0 => streams'[conns[i].stream].open
                          /\ conns[i].session # 0 =>
                                \E n \in SessionIdxs : /\ sessions'[n].state = "authenticated"
                                                       /\ sessions'[n].id = conns[i].session
                                                       /\ sessions'[n].stream = conns[i].stream
      BY <1>3, <1>4 DEF NoOrphans
    <2>4. conns[i].stream # 0 => streams'[conns[i].stream].open
      BY <1>8, <2>2, <2>3 DEF IInv, NoOrphans
    <2>5. ASSUME conns[i].session # 0
          PROVE  \E n \in SessionIdxs : /\ sessions'[n].state = "authenticated"
                                        /\ sessions'[n].id = conns[i].session
                                        /\ sessions'[n].stream = conns[i].stream
      BY <1>8, <2>3, <2>5 DEF IInv, NoOrphans
    <2>. QED BY <2>4, <2>5
  <1>11. ChannelsTracked'
    <2>1. SUFFICES ASSUME NEW t \in StreamIds
                   PROVE  /\ streams'[t].channels \subseteq Carried(t)'
                          /\ Cardinality(Carried(t)' \ streams'[t].channels) <= Surplus
      BY DEF ChannelsTracked
    <2>2. CASE t = s
      <3>1. Carried(t)' = {}
        BY <1>3, <1>4, <2>2 DEF Carried
      <3>2. streams'[t].channels = {} /\ Carried(t)' \ streams'[t].channels = {}
        BY <1>6, <1>8, <2>2, <3>1
      <3>3. Carried(t)' \ streams'[t].channels \in SUBSET (Carried(t) \ streams[t].channels)
        BY <3>2
      <3>. QED BY <3>2, <3>3, MissingFacts, StillFew
    <2>3. CASE t # s
      <3>1. Carried(t)' = Carried(t)
        BY <1>3, <1>4, <2>3 DEF Carried
      <3>. QED BY <1>8, <2>3, <3>1 DEF IInv, ChannelsTracked
    <2>. QED BY <2>2, <2>3
  <1>. QED BY <1>4, <1>7, <1>9, <1>10, <1>11 DEF IInv

-----------------------------------------------------------------------------
(* The steps that open them.                                               *)

\* A list that is full misses no more channels than the table has entries
\* beyond its length.
LEMMA FullList ==
    ASSUME NEW C, NEW T \in SUBSET C, IsFiniteSet(C), Cardinality(C) <= MaxConns,
           Cardinality(T) >= MaxChannels
    PROVE  Cardinality(C \ T) <= Surplus
  <1>1. IsFiniteSet(T) /\ IsFiniteSet(C \ T)
    BY FS_Subset
  <1>2. Cardinality(C) \in Nat /\ Cardinality(T) \in Nat /\ Cardinality(C \ T) \in Nat
    BY <1>1, FS_CardinalityType
  <1>3. Cardinality(C \ T) = Cardinality(C) - Cardinality(C \cap T)
    BY <1>1, FS_Difference
  <1>4. C \cap T = T
    OBVIOUS
  <1>5. Cardinality(C \ T) = Cardinality(C) - Cardinality(T)
    BY <1>3, <1>4
  <1>. QED BY <1>2, <1>5, Counts DEF Surplus

\* The parts of the invariant that one more entry disturbs alike for both types.
LEMMA EstablishOK ==
    ASSUME IInv, NEW type \in Types, NEW o \in Origins, Requests, Establish(o, type),
           UNCHANGED << sessions >>
    PROVE  /\ conns' \in [Entries -> Context \cup {None}]
           /\ streams' \in [StreamIds -> [open : BOOLEAN, channels : SUBSET Ids]]
           /\ next_channel' \in Ids /\ connects' \in 0..MaxConnects
           /\ FreeEntry \in Entries \ Occupied
           /\ Occupied' = Occupied \cup {FreeEntry}
           /\ \A i \in Occupied : conns'[i] = conns[i]
           /\ conns'[FreeEntry].id = Allocated /\ conns'[FreeEntry].type = type
           /\ Allocated \in Ids
           /\ DistinctChannels' /\ NoOrphans' /\ ChannelsTracked' /\ SessionsHeld'
  <1> DEFINE new == [id |-> Allocated, type |-> type, stream |-> o.stream, session |-> o.session]
  <1>1. /\ Allocated \in Ids /\ NextChannel \in Ids
        /\ \A i \in Occupied : conns[i].id # Allocated
        /\ FreeEntry \in Entries /\ conns[FreeEntry] = None
    BY RequestFacts DEF IInv, Requests
  <1>2. next_channel' \in Ids /\ connects' \in 0..MaxConnects
    BY <1>1, Counts DEF Requests, IInv, TypeOK
  <1>3. /\ o.stream \in 0..Streams /\ o.session \in 0..NumSessions
        /\ o.stream # 0 => o.stream \in StreamIds /\ streams[o.stream].open
        /\ o.session # 0 => \E n \in SessionIdxs : /\ sessions[n].state = "authenticated"
                                                   /\ sessions[n].id = o.session
                                                   /\ sessions[n].stream = o.stream
    <2>1. CASE o = [stream |-> 0, session |-> 0, access |-> OPEN]
      BY <2>1, Counts
    <2>2. CASE \E t \in StreamIds : streams[t].open /\ o = [stream |-> t, session |-> 0, access |-> OPEN]
      BY <2>2, Counts DEF StreamIds
    <2>3. CASE \E m \in SessionIdxs : /\ sessions[m].state = "authenticated"
                                      /\ o = [stream |-> sessions[m].stream, session |-> sessions[m].id,
                                              access |-> sessions[m].user]
      BY <2>3 DEF IInv, TypeOK, SessionsHeld
    <2>. QED BY <2>1, <2>2, <2>3 DEF Origins
  <1>4. new \in Context /\ new # None
    BY <1>1, <1>3 DEF Context, None, Ids
  <1>5. conns' = [conns EXCEPT ![FreeEntry] = new]
    BY DEF Establish
  <1>6. conns' \in [Entries -> Context \cup {None}] /\ conns'[FreeEntry] = new
    BY <1>1, <1>4, <1>5 DEF IInv, TypeOK
  <1>7. /\ FreeEntry \in Entries \ Occupied
        /\ Occupied' = Occupied \cup {FreeEntry}
        /\ \A i \in Occupied : conns'[i] = conns[i]
    BY <1>1, <1>4, <1>5 DEF IInv, TypeOK, Occupied
  <1>8. DistinctChannels'
    BY <1>1, <1>6, <1>7 DEF IInv, DistinctChannels
  <1>9. /\ streams' \in [StreamIds -> [open : BOOLEAN, channels : SUBSET Ids]]
        /\ \A t \in StreamIds : streams'[t].open = streams[t].open
    <2>1. CASE streams' = streams
      BY <2>1 DEF IInv, TypeOK
    <2>2. CASE o.stream # 0 /\ streams' = [streams EXCEPT ![o.stream].channels = @ \cup {Allocated}]
      <3>1. streams \in [StreamIds -> [open : BOOLEAN, channels : SUBSET Ids]]
        BY DEF IInv, TypeOK
      <3>2. o.stream \in StreamIds /\ Allocated \in Ids
        BY <1>1, <1>3, <2>2
      <3>3. /\ [streams[o.stream] EXCEPT !.channels = @ \cup {Allocated}]
                  \in [open : BOOLEAN, channels : SUBSET Ids]
            /\ [streams[o.stream] EXCEPT !.channels = @ \cup {Allocated}].open = streams[o.stream].open
        BY <3>1, <3>2
      <3>4. streams' = [streams EXCEPT ![o.stream] =
                           [streams[o.stream] EXCEPT !.channels = @ \cup {Allocated}]]
        BY <2>2
      <3>. QED BY <3>1, <3>2, <3>3, <3>4
    <2>. QED BY <2>1, <2>2 DEF Establish, Tracked
  <1>10. NoOrphans'
    <2>1. \A i \in Occupied : conns[i].stream \in 0..Streams
      BY EntryFacts DEF IInv, Context
    <2>2. \A i \in Occupied : conns[i].stream # 0 => conns[i].stream \in StreamIds
      BY <2>1, Counts DEF StreamIds
    <2>. QED BY <1>3, <1>6, <1>7, <1>9, <2>2 DEF IInv, NoOrphans
  <1>11. SessionsHeld'
    BY <1>9 DEF IInv, SessionsHeld
  <1>12. ChannelsTracked'
    <2>1. SUFFICES ASSUME NEW t \in StreamIds
                   PROVE  /\ streams'[t].channels \subseteq Carried(t)'
                          /\ Cardinality(Carried(t)' \ streams'[t].channels) <= Surplus
      BY DEF ChannelsTracked
    <2>2. /\ streams[t].channels \subseteq Carried(t)
          /\ IsFiniteSet(Carried(t) \ streams[t].channels)
          /\ Cardinality(Carried(t) \ streams[t].channels) <= Surplus
      BY MissingFacts
    <2>3. {j \in Occupied' : conns'[j].stream = t} \in SUBSET Entries
      BY DEF Occupied
    <2>4. CASE t # o.stream
      <3>1. Carried(t)' = Carried(t)
        BY <1>6, <1>7, <2>4 DEF Carried
      <3>2. streams'[t] = streams[t]
        BY <1>3, <2>4 DEF Establish, Tracked, IInv, TypeOK
      <3>. QED BY <2>2, <3>1, <3>2
    <2>5. CASE t = o.stream
      <3>1. Carried(t)' = Carried(t) \cup {Allocated}
        BY <1>6, <1>7, <2>5 DEF Carried
      <3>2. t # 0
        BY DEF StreamIds
      <3>3. CASE ~(Cardinality(streams[t].channels) >= MaxChannels)
        <4>1. streams' = [streams EXCEPT ![t].channels = @ \cup {Allocated}]
          BY <2>5, <3>2, <3>3 DEF Establish, Tracked
        <4>2. streams'[t].channels = streams[t].channels \cup {Allocated}
          BY <4>1 DEF IInv, TypeOK
        <4>3. /\ streams'[t].channels \subseteq Carried(t)'
              /\ Carried(t)' \ streams'[t].channels \in SUBSET (Carried(t) \ streams[t].channels)
          BY <2>2, <3>1, <4>2
        <4>. QED BY <2>2, <4>3, StillFew
      <3>4. CASE Cardinality(streams[t].channels) >= MaxChannels
        <4>1. streams' = streams
          BY <2>5, <3>4 DEF Establish, Tracked
        <4>2. IsFiniteSet(Carried(t)') /\ Cardinality(Carried(t)') <= MaxConns
          BY <2>3, FewIds DEF Carried
        <4>3. streams'[t].channels \in SUBSET Carried(t)'
          BY <2>2, <3>1, <4>1
        <4>4. Cardinality(Carried(t)' \ streams'[t].channels) <= Surplus
          BY <3>4, <4>1, <4>2, <4>3, FullList
        <4>. QED BY <4>3, <4>4
      <3>. QED BY <3>3, <3>4
    <2>. QED BY <2>4, <2>5
  <1>. QED BY <1>1, <1>2, <1>6, <1>7, <1>8, <1>9, <1>10, <1>11, <1>12

\* One more entry is one more connection of its type.
LEMMA TypesGrow ==
    ASSUME TypeOK, NEW type \in Types, NEW f \in Entries \ Occupied,
           Occupied' = Occupied \cup {f}, \A i \in Occupied : conns'[i] = conns[i],
           conns'[f].type = type
    PROVE  /\ OfType(type)' = OfType(type) \cup {f}
           /\ Cardinality(OfType(type)') = Cardinality(OfType(type)) + 1
           /\ \A t \in Types \ {type} : OfType(t)' = OfType(t)
  <1>1. /\ OfType(type)' = OfType(type) \cup {f} /\ f \notin OfType(type)
        /\ \A t \in Types \ {type} : OfType(t)' = OfType(t)
    BY DEF OfType
  <1>2. IsFiniteSet(OfType(type))
    BY EntryFacts
  <1>3. Cardinality(OfType(type) \cup {f}) = Cardinality(OfType(type)) + 1
    BY <1>1, <1>2, FS_AddElement
  <1>. QED BY <1>1, <1>3

\* A slot that is taken is counted once.
LEMMA SlotTaken ==
    ASSUME TypeOK, TunnelsHeld, NEW k \in SlotIds, slots[k] = 0, NEW id \in Ids,
           slots' = [slots EXCEPT ![k] = id], occupancy' = occupancy + 1
    PROVE  /\ slots' \in [SlotIds -> 0..NumIds] /\ occupancy' \in 0..Capacity
           /\ occupancy' = Cardinality(Taken')
           /\ slots'[k] = id /\ \A m \in SlotIds \ {k} : slots'[m] = slots[m]
  <1>. USE Counts
  <1>1. id \in 1..NumIds /\ id # 0
    BY DEF Ids
  <1>2. slots' \in [SlotIds -> 0..NumIds] /\ slots'[k] = id /\ \A m \in SlotIds \ {k} : slots'[m] = slots[m]
    BY <1>1 DEF TypeOK
  <1>3. Taken' = Taken \cup {k} /\ k \notin Taken /\ Taken \in SUBSET SlotIds
    BY <1>1, <1>2 DEF Taken
  <1>4. IsFiniteSet(Taken) /\ IsFiniteSet(SlotIds) /\ Cardinality(SlotIds) = Capacity
    BY <1>3, EntryFacts, FS_Subset
  <1>5. Cardinality(Taken \cup {k}) = Cardinality(Taken) + 1
    BY <1>3, <1>4, FS_AddElement
  <1>6. Taken \cup {k} \in SUBSET SlotIds
    BY <1>3
  <1>7. Cardinality(Taken \cup {k}) <= Capacity
    BY <1>4, <1>6, FS_Subset
  <1>8. Cardinality(Taken) \in Nat
    BY <1>4, FS_CardinalityType
  <1>9. occupancy = Cardinality(Taken)
    BY DEF TunnelsHeld
  <1>10. occupancy' \in 0..Capacity /\ occupancy' = Cardinality(Taken \cup {k})
    BY <1>5, <1>7, <1>8, <1>9
  <1>. QED BY <1>2, <1>3, <1>10

\* A request refused late leaves the table and the streams alone.
LEMMA RefuseLateOK ==
    ASSUME IInv, NEW type \in Types, NEW o, Requests, RefuseLate(o, type), UNCHANGED << sessions >>
    PROVE  /\ next_channel' \in Ids /\ connects' \in 0..MaxConnects /\ Allocated \in Ids
           /\ leaks' \in [Types -> Nat] /\ leaks'[type] = leaks[type] + 1
           /\ \A t \in Types \ {type} : leaks'[t] = leaks[t]
           /\ \A t \in Types : OfType(t)' = OfType(t)
           /\ DistinctChannels' /\ NoOrphans' /\ ChannelsTracked' /\ SessionsHeld'
  <1>1. conns' = conns /\ streams' = streams /\ leaks' = [leaks EXCEPT ![type] = @ + 1]
    BY DEF RefuseLate
  <1>2. Allocated \in Ids /\ NextChannel \in Ids
    BY RequestFacts DEF IInv, Requests
  <1>3. next_channel' \in Ids /\ connects' \in 0..MaxConnects
    BY <1>2, Counts DEF Requests, IInv, TypeOK
  <1>4. /\ leaks' \in [Types -> Nat] /\ leaks'[type] = leaks[type] + 1
        /\ \A t \in Types \ {type} : leaks'[t] = leaks[t]
    BY <1>1 DEF IInv, TypeOK
  <1>5. Occupied' = Occupied /\ \A t \in Types : OfType(t)' = OfType(t)
    BY <1>1 DEF Occupied, OfType
  <1>6. DistinctChannels' /\ NoOrphans' /\ ChannelsTracked' /\ SessionsHeld'
    BY <1>1, <1>5 DEF IInv, DistinctChannels, NoOrphans, ChannelsTracked, Carried, SessionsHeld
  <1>. QED BY <1>2, <1>3, <1>4, <1>5, <1>6

\* A tunnel takes a free slot under its new id.
LEMMA ConnectTunnelOK ==
    ASSUME IInv, NEW o \in Origins, NEW a, ConnectTunnel(o, a)
    PROVE  IInv'
  <1>0. PICK k : k = SlotFor(a, o.access)
    OBVIOUS
  <1>1. /\ Requests /\ k # 0 /\ slots' = [slots EXCEPT ![k] = Allocated] /\ occupancy' = occupancy + 1
        /\ Establish(o, "tunnel") \/ RefuseLate(o, "tunnel")
        /\ UNCHANGED << active, addrs, events, cemi, sessions, next_session, refused, frames, writes >>
    BY <1>0 DEF ConnectTunnel
  <1>2. k \in SlotIds /\ slots[k] = 0
    BY <1>0, <1>1, SlotFacts DEF IInv
  <1>3. Allocated \in Ids /\ \A i \in Occupied : conns[i].id # Allocated
    BY <1>1, RequestFacts DEF IInv, Requests
  <1>4. /\ slots' \in [SlotIds -> 0..NumIds] /\ occupancy' \in 0..Capacity
        /\ occupancy' = Cardinality(Taken')
        /\ slots'[k] = Allocated /\ \A m \in SlotIds \ {k} : slots'[m] = slots[m]
    <2>1. PICK id \in Ids : id = Allocated
      BY <1>3
    <2>2. slots' = [slots EXCEPT ![k] = id]
      BY <1>1, <2>1
    <2>3. /\ slots' \in [SlotIds -> 0..NumIds] /\ occupancy' \in 0..Capacity
          /\ occupancy' = Cardinality(Taken')
          /\ slots'[k] = id /\ \A m \in SlotIds \ {k} : slots'[m] = slots[m]
      BY <1>1, <1>2, <2>2, SlotTaken DEF IInv
    <2>. QED BY <2>1, <2>3
  <1>5. \A i \in OfType("tunnel") : \E m \in SlotIds : slots'[m] = conns[i].id
    <2>1. \A i \in OfType("tunnel") : conns[i].id # 0
      BY EntryFacts DEF IInv, Types, Ids
    <2>. QED BY <1>2, <1>4, <2>1 DEF IInv, TunnelsHeld
  <1>6. /\ occupancy = Cardinality(OfType("tunnel")) + leaks["tunnel"]
        /\ Cardinality(OfType("tunnel")) \in Nat /\ leaks["tunnel"] \in Nat
    BY EntryFacts DEF IInv, TunnelsHeld, TypeOK, Types
  <1>7. CemiFollows'
    BY <1>1 DEF IInv, CemiFollows, Settled, Deciding
  <1>8. CASE Establish(o, "tunnel")
    <2>1. /\ conns' \in [Entries -> Context \cup {None}]
          /\ streams' \in [StreamIds -> [open : BOOLEAN, channels : SUBSET Ids]]
          /\ next_channel' \in Ids /\ connects' \in 0..MaxConnects
          /\ FreeEntry \in Entries \ Occupied
          /\ Occupied' = Occupied \cup {FreeEntry}
          /\ \A i \in Occupied : conns'[i] = conns[i]
          /\ conns'[FreeEntry].id = Allocated /\ conns'[FreeEntry].type = "tunnel"
          /\ DistinctChannels' /\ NoOrphans' /\ ChannelsTracked' /\ SessionsHeld'
      BY <1>1, <1>8, EstablishOK DEF Types
    <2>2. leaks' = leaks
      BY <1>8 DEF Establish
    <2>3. TypeOK'
      BY <1>1, <1>4, <2>1, <2>2 DEF IInv, TypeOK
    <2>4. /\ OfType("tunnel")' = OfType("tunnel") \cup {FreeEntry}
          /\ Cardinality(OfType("tunnel")') = Cardinality(OfType("tunnel")) + 1
          /\ OfType("management")' = OfType("management")
      <3>1. PICK f : f = FreeEntry
        OBVIOUS
      <3>2. f \in Entries \ Occupied /\ Occupied' = Occupied \cup {f} /\ conns'[f].type = "tunnel"
        BY <2>1, <3>1
      <3>3. /\ OfType("tunnel")' = OfType("tunnel") \cup {f}
            /\ Cardinality(OfType("tunnel")') = Cardinality(OfType("tunnel")) + 1
            /\ \A t \in Types \ {"tunnel"} : OfType(t)' = OfType(t)
        BY <2>1, <3>2, TypesGrow DEF IInv, Types
      <3>. QED BY <3>1, <3>3 DEF Types
    <2>5. TunnelsHeld'
      <3>1. occupancy' = Cardinality(OfType("tunnel")') + leaks'["tunnel"]
        BY <1>1, <1>6, <2>2, <2>4
      <3>2. \A i \in OfType("tunnel")' : \E m \in SlotIds : slots'[m] = conns'[i].id
        BY <1>2, <1>4, <1>5, <2>1, <2>4 DEF OfType
      <3>. QED BY <1>4, <3>1, <3>2 DEF TunnelsHeld
    <2>6. OneManagement'
      <3>1. \A i \in OfType("management") : i \in Occupied
        BY DEF OfType
      <3>. QED BY <1>1, <2>1, <2>2, <2>4, <3>1 DEF IInv, OneManagement
    <2>. QED BY <1>7, <2>1, <2>3, <2>5, <2>6 DEF IInv
  <1>9. CASE RefuseLate(o, "tunnel")
    <2>1. /\ next_channel' \in Ids /\ connects' \in 0..MaxConnects
          /\ leaks' \in [Types -> Nat] /\ leaks'["tunnel"] = leaks["tunnel"] + 1
          /\ \A t \in Types \ {"tunnel"} : leaks'[t] = leaks[t]
          /\ \A t \in Types : OfType(t)' = OfType(t)
          /\ DistinctChannels' /\ NoOrphans' /\ ChannelsTracked' /\ SessionsHeld'
      BY <1>1, <1>9, RefuseLateOK DEF Types
    <2>2. conns' = conns /\ streams' = streams
      BY <1>9 DEF RefuseLate
    <2>3. TypeOK'
      BY <1>1, <1>4, <2>1, <2>2 DEF IInv, TypeOK
    <2>4. OfType("tunnel")' = OfType("tunnel") /\ OfType("management")' = OfType("management")
          /\ leaks'["management"] = leaks["management"]
      BY <2>1 DEF Types
    <2>5. occupancy' = Cardinality(OfType("tunnel")') + leaks'["tunnel"]
      BY <1>1, <1>6, <2>1, <2>4
    <2>6. TunnelsHeld'
      BY <1>4, <1>5, <2>2, <2>4, <2>5 DEF TunnelsHeld
    <2>7. OneManagement'
      BY <1>1, <2>2, <2>4 DEF IInv, OneManagement
    <2>. QED BY <1>7, <2>1, <2>3, <2>6, <2>7 DEF IInv
  <1>. QED BY <1>1, <1>8, <1>9

\* The one management connection takes a free handler.
LEMMA ConnectManagementOK ==
    ASSUME IInv, NEW o \in Origins, ConnectManagement(o)
    PROVE  IInv'
  <1>1. /\ Requests /\ active = 0 /\ active' = Allocated /\ Push("activate")
        /\ Establish(o, "management") \/ RefuseLate(o, "management")
        /\ UNCHANGED << slots, occupancy, addrs, cemi, sessions, next_session, frames, writes >>
    BY DEF ConnectManagement
  <1>2. Allocated \in Ids /\ Allocated # 0 /\ active' \in 0..NumIds
    BY <1>1, RequestFacts, Counts DEF IInv, Requests, Ids
  <1>3. /\ events' \in Seq({"activate", "deactivate", "frame"}) /\ Len(events') <= EventCap
        /\ refused' \in BOOLEAN
        /\ ~refused' => Settled' = ("activate" = "activate")
    BY <1>1, PushFacts DEF IInv
  <1>4. CemiFollows'
    BY <1>1, <1>2, <1>3 DEF CemiFollows
  <1>5. OfType("management") = {} /\ leaks["management"] = 0 /\ Cardinality(OfType("management")) = 0
    <2>1. /\ Cardinality(OfType("management")) + leaks["management"] = 0
          /\ \A i \in OfType("management") : conns[i].id = 0
      BY <1>1 DEF IInv, OneManagement
    <2>2. /\ Cardinality(OfType("management")) \in Nat /\ leaks["management"] \in Nat
          /\ \A i \in OfType("management") : conns[i].id \in Ids
      BY EntryFacts DEF IInv, TypeOK, Types
    <2>. QED BY <2>1, <2>2 DEF Ids
  <1>6. CASE Establish(o, "management")
    <2>1. /\ conns' \in [Entries -> Context \cup {None}]
          /\ streams' \in [StreamIds -> [open : BOOLEAN, channels : SUBSET Ids]]
          /\ next_channel' \in Ids /\ connects' \in 0..MaxConnects
          /\ FreeEntry \in Entries \ Occupied
          /\ Occupied' = Occupied \cup {FreeEntry}
          /\ \A i \in Occupied : conns'[i] = conns[i]
          /\ conns'[FreeEntry].id = Allocated /\ conns'[FreeEntry].type = "management"
          /\ DistinctChannels' /\ NoOrphans' /\ ChannelsTracked' /\ SessionsHeld'
      BY <1>1, <1>6, EstablishOK DEF Types
    <2>2. leaks' = leaks
      BY <1>6 DEF Establish
    <2>3. TypeOK'
      BY <1>1, <1>2, <1>3, <2>1, <2>2 DEF IInv, TypeOK
    <2>4. /\ OfType("management")' = OfType("management") \cup {FreeEntry}
          /\ Cardinality(OfType("management")') = Cardinality(OfType("management")) + 1
          /\ OfType("tunnel")' = OfType("tunnel")
      <3>1. PICK f : f = FreeEntry
        OBVIOUS
      <3>2. f \in Entries \ Occupied /\ Occupied' = Occupied \cup {f} /\ conns'[f].type = "management"
        BY <2>1, <3>1
      <3>3. /\ OfType("management")' = OfType("management") \cup {f}
            /\ Cardinality(OfType("management")') = Cardinality(OfType("management")) + 1
            /\ \A t \in Types \ {"management"} : OfType(t)' = OfType(t)
        BY <2>1, <3>2, TypesGrow DEF IInv, Types
      <3>. QED BY <3>1, <3>3 DEF Types
    <2>5. OneManagement'
      BY <1>1, <1>2, <1>5, <2>1, <2>2, <2>4 DEF OneManagement
    <2>6. TunnelsHeld'
      <3>1. \A i \in OfType("tunnel") : i \in Occupied
        BY DEF OfType
      <3>2. Taken' = Taken
        BY <1>1 DEF Taken
      <3>. QED BY <1>1, <2>1, <2>2, <2>4, <3>1, <3>2 DEF IInv, TunnelsHeld
    <2>. QED BY <1>4, <2>1, <2>3, <2>5, <2>6 DEF IInv
  <1>7. CASE RefuseLate(o, "management")
    <2>1. /\ next_channel' \in Ids /\ connects' \in 0..MaxConnects
          /\ leaks' \in [Types -> Nat] /\ leaks'["management"] = leaks["management"] + 1
          /\ \A t \in Types \ {"management"} : leaks'[t] = leaks[t]
          /\ \A t \in Types : OfType(t)' = OfType(t)
          /\ DistinctChannels' /\ NoOrphans' /\ ChannelsTracked' /\ SessionsHeld'
      BY <1>1, <1>7, RefuseLateOK DEF Types
    <2>2. conns' = conns /\ streams' = streams
      BY <1>7 DEF RefuseLate
    <2>3. TypeOK'
      BY <1>1, <1>2, <1>3, <2>1, <2>2 DEF IInv, TypeOK
    <2>4. OfType("tunnel")' = OfType("tunnel") /\ OfType("management")' = OfType("management")
          /\ leaks'["tunnel"] = leaks["tunnel"] /\ Taken' = Taken
      BY <1>1, <2>1 DEF Types, Taken
    <2>5. TunnelsHeld'
      BY <1>1, <2>2, <2>4 DEF IInv, TunnelsHeld
    <2>6. OneManagement'
      BY <1>1, <1>2, <1>5, <2>1, <2>4 DEF OneManagement
    <2>. QED BY <1>4, <2>1, <2>3, <2>5, <2>6 DEF IInv
  <1>. QED BY <1>1, <1>6, <1>7

\* The parts of the invariant that speak of connections only.
LEMMA ConnectionsStay ==
    ASSUME IInv, UNCHANGED << conns, slots, occupancy, active, leaks >>
    PROVE  DistinctChannels' /\ TunnelsHeld' /\ OneManagement' /\ Occupied' = Occupied
  <1>1. Occupied' = Occupied
    BY DEF Occupied
  <1>2. \A t : OfType(t)' = OfType(t)
    BY <1>1 DEF OfType
  <1>3. Taken' = Taken
    BY DEF Taken
  <1>4. DistinctChannels'
    BY <1>1 DEF IInv, DistinctChannels
  <1>5. TunnelsHeld'
    BY <1>2, <1>3 DEF IInv, TunnelsHeld
  <1>6. OneManagement'
    BY <1>2 DEF IInv, OneManagement
  <1>. QED BY <1>1, <1>4, <1>5, <1>6

\* The parts that speak of streams and sessions.
LEMMA TransportsStay ==
    ASSUME IInv, UNCHANGED << conns, streams, sessions >>
    PROVE  SessionsHeld' /\ NoOrphans' /\ ChannelsTracked'
  <1>1. Occupied' = Occupied
    BY DEF Occupied
  <1>. QED BY <1>1 DEF IInv, SessionsHeld, NoOrphans, ChannelsTracked, Carried

\* A refused request costs a channel id and no more.
LEMMA ConnectRefusedOK ==
    ASSUME IInv, ConnectRefused
    PROVE  IInv'
  <1>1. /\ Requests
        /\ UNCHANGED << conns, slots, occupancy, active, addrs, events, cemi, streams,
                        sessions, next_session, leaks, refused, frames, writes >>
    BY DEF ConnectRefused
  <1>2. NextChannel \in Ids
    BY <1>1, RequestFacts DEF IInv, Requests
  <1>3. TypeOK'
    <2>1. next_channel' \in Ids /\ connects' \in 0..MaxConnects
      BY <1>1, <1>2, Counts DEF Requests, IInv, TypeOK
    <2>. QED BY <1>1, <2>1 DEF IInv, TypeOK
  <1>4. CemiFollows'
    BY <1>1 DEF IInv, CemiFollows, Settled, Deciding
  <1>. QED BY <1>1, <1>3, <1>4, ConnectionsStay, TransportsStay DEF IInv

\* A stream is accepted into a slot that has no connection.
LEMMA AcceptStreamOK ==
    ASSUME IInv, AcceptStream
    PROVE  IInv'
  <1> DEFINE F == {s \in StreamIds : ~streams[s].open}
  <1>1. /\ F # {} /\ streams' = [streams EXCEPT ![Min(F)] = Opened]
        /\ UNCHANGED << conns, next_channel, slots, occupancy, active, addrs, events, cemi,
                        sessions, next_session, leaks, refused, connects, frames, writes >>
    BY DEF AcceptStream
  <1>2. F \in SUBSET Nat
    BY DEF StreamIds
  <1>3. Min(F) \in F
    BY <1>1, <1>2, MinIsLeast
  <1>4. PICK s \in StreamIds : ~streams[s].open /\ streams' = [streams EXCEPT ![s] = Opened]
    BY <1>1, <1>3
  <1>5. \A t \in StreamIds : streams'[t] = IF t = s THEN Opened ELSE streams[t]
    BY <1>4 DEF IInv, TypeOK
  <1>6. /\ Opened \in [open : BOOLEAN, channels : SUBSET Ids]
        /\ Opened.open = TRUE /\ Opened.channels = {}
    BY DEF Opened
  <1>. HIDE DEF F
  <1>7. TypeOK'
    <2>1. streams' \in [StreamIds -> [open : BOOLEAN, channels : SUBSET Ids]]
      BY <1>4, <1>6 DEF IInv, TypeOK
    <2>. QED BY <1>1, <2>1 DEF IInv, TypeOK
  <1>8. DistinctChannels' /\ TunnelsHeld' /\ OneManagement' /\ Occupied' = Occupied
    BY <1>1, ConnectionsStay
  <1>9. \A t \in StreamIds : streams[t].open => streams'[t].open
    BY <1>5, <1>6
  <1>10. SessionsHeld'
    BY <1>1, <1>9 DEF IInv, SessionsHeld
  <1>11. NoOrphans'
    <2>1. \A i \in Occupied : conns[i].stream \in 0..Streams
      BY EntryFacts DEF IInv, Context
    <2>2. \A i \in Occupied : conns[i].stream # 0 => conns[i].stream \in StreamIds
      BY <2>1, Counts DEF StreamIds
    <2>. QED BY <1>1, <1>8, <1>9, <2>2 DEF IInv, NoOrphans
  <1>12. ChannelsTracked'
    <2>1. {i \in Occupied : conns[i].stream = s} = {}
      BY <1>4 DEF IInv, NoOrphans, StreamIds
    <2>2. \A t \in StreamIds : Carried(t)' = Carried(t)
      BY <1>1, <1>8 DEF Carried
    <2>3. Carried(s) = {}
      BY <2>1 DEF Carried
    <2>4. streams[s].channels = {} /\ streams'[s].channels = {}
      BY <1>5, <1>6, <2>3 DEF IInv, ChannelsTracked
    <2>. QED BY <1>5, <2>2, <2>4 DEF IInv, ChannelsTracked
  <1>13. CemiFollows'
    BY <1>1 DEF IInv, CemiFollows, Settled, Deciding
  <1>. QED BY <1>7, <1>8, <1>10, <1>11, <1>12, <1>13 DEF IInv

-----------------------------------------------------------------------------
(* Secure sessions, and the channel to the layer stack.                    *)

\* allocate_session_id: an id that no session in use has.
LEMMA SessionFacts ==
    ASSUME IInv, \E n \in SessionIdxs : sessions[n].state = "idle"
    PROVE  /\ LaterSession(SessionSkip) \in 1..NumSessions
           /\ LaterSession(SessionSkip + 1) \in 1..NumSessions
           /\ ~SessionInUse(LaterSession(SessionSkip))
  <1> DEFINE K == {k \in 0..(NumSessions - 1) : ~SessionInUse(LaterSession(k))}
  <1>. USE Counts
  <1>0. PICK h, U : /\ U = {n \in SessionIdxs : sessions[n].state # "idle"}
                    /\ h = [n \in SessionIdxs |-> sessions[n].id]
    OBVIOUS
  <1>1. U \in SUBSET (1..Sessions) /\ U # 1..Sessions
    BY <1>0 DEF SessionIdxs
  <1>2. PICK x \in 1..NumSessions : \A n \in U : h[n] # x
    <2>1. Sessions \in Nat /\ NumSessions \in Nat /\ Sessions <= NumSessions
      OBVIOUS
    <2>2. \A M, N \in Nat : M <= N => \A V \in SUBSET (1..M) : V # 1..M =>
             \E y \in 1..N : \A i \in V : h[i] # y
      BY OneLeft, Zenon
    <2>3. \A V \in SUBSET (1..Sessions) : V # 1..Sessions => \E y \in 1..NumSessions : \A i \in V : h[i] # y
      BY <2>1, <2>2, Zenon
    <2>. QED BY <1>1, <2>3, Zenon
  <1>3. /\ \A k \in Nat : LaterSession(k) \in 1..NumSessions
        /\ \A y \in 1..NumSessions : \E k \in 0..(NumSessions - 1) : LaterSession(k) = y
    BY Wraps DEF IInv, TypeOK, LaterSession
  <1>4. ~SessionInUse(x)
    BY <1>0, <1>2 DEF SessionInUse
  <1>5. K # {} /\ K \in SUBSET Nat
    BY <1>3, <1>4
  <1>6. SessionSkip \in K
    BY <1>5, MinIsLeast DEF SessionSkip
  <1>. QED BY <1>3, <1>6

\* A session opens on an open stream, under an id of its own.
LEMMA OpenSessionOK ==
    ASSUME IInv, NEW s \in StreamIds, OpenSession(s)
    PROVE  IInv'
  <1> DEFINE F == {m \in SessionIdxs : sessions[m].state = "idle"}
  <1>1. /\ streams[s].open /\ F # {}
        /\ sessions' = [sessions EXCEPT ![Min(F)] = [Idle EXCEPT !.state = "unauthenticated",
                                                                 !.id = LaterSession(SessionSkip),
                                                                 !.stream = s]]
        /\ next_session' = LaterSession(SessionSkip + 1)
        /\ UNCHANGED << conns, next_channel, slots, occupancy, active, addrs, events, cemi,
                        streams, leaks, refused, connects, frames, writes >>
    BY DEF OpenSession
  <1>2. F \in SUBSET Nat
    BY DEF SessionIdxs
  <1>3. Min(F) \in F
    BY <1>1, <1>2, MinIsLeast
  <1>4. PICK id \in 1..NumSessions : id = LaterSession(SessionSkip) /\ ~SessionInUse(id)
    BY <1>1, SessionFacts
  <1>slot. PICK n \in SessionIdxs : \E r :
            /\ sessions[n].state = "idle"
            /\ r = [Idle EXCEPT !.state = "unauthenticated", !.id = id, !.stream = s]
            /\ sessions' = [sessions EXCEPT ![n] = r]
    BY <1>1, <1>3, <1>4
  <1>5. PICK r :
            /\ sessions[n].state = "idle"
            /\ r = [Idle EXCEPT !.state = "unauthenticated", !.id = id, !.stream = s]
            /\ sessions' = [sessions EXCEPT ![n] = r]
    BY <1>slot
  <1>6. next_session' \in 1..NumSessions
    BY <1>1, SessionFacts
  <1>. HIDE DEF F
  <1>7. r \in [state : {"idle", "unauthenticated", "authenticated"},
               id : 0..NumSessions, stream : 0..Streams, user : Users \cup {OPEN}]
    <2>1. /\ Idle \in [state : {"idle"}, id : {0}, stream : {0}, user : {OPEN}]
          /\ id \in 0..NumSessions /\ s \in 0..Streams
      BY Counts DEF StreamIds, Idle
    <2>. QED BY <1>5, <2>1
  <1>8. TypeOK'
    <2>1. sessions' \in [SessionIdxs -> [state : {"idle", "unauthenticated", "authenticated"},
                                          id : 0..NumSessions, stream : 0..Streams,
                                          user : Users \cup {OPEN}]]
      BY <1>5, <1>7 DEF IInv, TypeOK
    <2>. QED BY <1>1, <1>6, <2>1 DEF IInv, TypeOK
  <1>9. \A m \in SessionIdxs : sessions'[m] = IF m = n THEN r ELSE sessions[m]
    BY <1>5 DEF IInv, TypeOK
  <1>10. r.state = "unauthenticated" /\ r.id = id /\ r.stream = s
    BY <1>5 DEF Idle
  <1>11. SessionsHeld'
    <2>1. \A m \in SessionIdxs : sessions[m].state # "idle" => sessions[m].id # id
      BY <1>4 DEF SessionInUse
    <2>2. \A m \in SessionIdxs : sessions'[m].state # "idle" =>
             /\ sessions'[m].id # 0 /\ sessions'[m].stream \in StreamIds
             /\ streams[sessions'[m].stream].open
      <3>1. id # 0 /\ streams[s].open
        BY <1>1
      <3>. QED BY <1>9, <1>10, <3>1 DEF IInv, SessionsHeld
    <2>3. \A m \in SessionIdxs :
             sessions'[m].state # "idle" /\ sessions'[m].id = id => m = n
      BY <1>9, <2>1
    <2>4. \A l, m \in SessionIdxs :
             /\ sessions'[l].state # "idle" /\ sessions'[m].state # "idle"
             /\ sessions'[l].id = sessions'[m].id
             => l = m
      <3>1. SUFFICES ASSUME NEW l \in SessionIdxs, NEW m \in SessionIdxs,
                            sessions'[l].state # "idle", sessions'[m].state # "idle",
                            sessions'[l].id = sessions'[m].id
                     PROVE  l = m
        OBVIOUS
      <3>2. CASE l = n
        BY <1>9, <1>10, <2>3, <3>1, <3>2
      <3>3. CASE m = n
        BY <1>9, <1>10, <2>3, <3>1, <3>3
      <3>4. CASE l # n /\ m # n
        BY <1>9, <3>1, <3>4 DEF IInv, SessionsHeld
      <3>. QED BY <3>2, <3>3, <3>4
    <2>5. streams' = streams
      BY <1>1
    <2>. QED BY <2>2, <2>4, <2>5 DEF SessionsHeld
  <1>12. DistinctChannels' /\ TunnelsHeld' /\ OneManagement' /\ Occupied' = Occupied
    BY <1>1, ConnectionsStay
  <1>13. \A m \in SessionIdxs : sessions[m].state = "authenticated" => sessions'[m] = sessions[m]
    BY <1>5, <1>9
  <1>14. NoOrphans'
    <2>1. streams' = streams /\ conns' = conns
      BY <1>1
    <2>. QED BY <1>12, <1>13, <2>1 DEF IInv, NoOrphans
  <1>15. ChannelsTracked'
    BY <1>1, <1>12 DEF IInv, ChannelsTracked, Carried
  <1>16. CemiFollows'
    BY <1>1 DEF IInv, CemiFollows, Settled, Deciding
  <1>. QED BY <1>8, <1>11, <1>12, <1>14, <1>15, <1>16 DEF IInv

\* Authentication changes neither the session's id nor its stream.
LEMMA AuthenticateOK ==
    ASSUME IInv, NEW n \in SessionIdxs, NEW user \in Users, Authenticate(n, user)
    PROVE  IInv'
  <1>1. /\ sessions[n].state = "unauthenticated"
        /\ sessions' = [sessions EXCEPT ![n].state = "authenticated", ![n].user = user]
        /\ UNCHANGED << conns, next_channel, slots, occupancy, active, addrs, events, cemi,
                        streams, next_session, leaks, refused, connects, frames, writes >>
    BY DEF Authenticate
  <1>2. /\ sessions' \in [SessionIdxs -> [state : {"idle", "unauthenticated", "authenticated"},
                                          id : 0..NumSessions, stream : 0..Streams,
                                          user : Users \cup {OPEN}]]
        /\ \A m \in SessionIdxs : /\ sessions'[m].id = sessions[m].id
                                  /\ sessions'[m].stream = sessions[m].stream
                                  /\ m # n => sessions'[m] = sessions[m]
        /\ sessions'[n].state = "authenticated"
    BY <1>1 DEF IInv, TypeOK
  <1>3. TypeOK'
    BY <1>1, <1>2 DEF IInv, TypeOK
  <1>4. SessionsHeld'
    BY <1>1, <1>2 DEF IInv, SessionsHeld
  <1>5. DistinctChannels' /\ TunnelsHeld' /\ OneManagement' /\ Occupied' = Occupied
    BY <1>1, ConnectionsStay
  <1>6. NoOrphans'
    BY <1>1, <1>2, <1>5 DEF IInv, NoOrphans
  <1>7. ChannelsTracked'
    BY <1>1, <1>5 DEF IInv, ChannelsTracked, Carried
  <1>8. CemiFollows'
    BY <1>1 DEF IInv, CemiFollows, Settled, Deciding
  <1>. QED BY <1>3, <1>4, <1>5, <1>6, <1>7, <1>8 DEF IInv

\* A frame decides nothing.
LEMMA ManagementFrameOK ==
    ASSUME IInv, NEW i, NEW o, ManagementFrame(i, o)
    PROVE  IInv'
  <1>1. /\ frames < MaxFrames /\ Len(events) < EventCap
        /\ events' = Append(events, "frame") /\ frames' = frames + 1
        /\ UNCHANGED << conns, next_channel, slots, occupancy, active, addrs, cemi, streams,
                        sessions, next_session, leaks, refused, connects, writes >>
    BY DEF ManagementFrame
  <1>2. events \in Seq({"activate", "deactivate", "frame"}) /\ Len(events) \in Nat
    BY DEF IInv, TypeOK
  <1>3. /\ events' \in Seq({"activate", "deactivate", "frame"}) /\ Len(events') = Len(events) + 1
        /\ events'[Len(events) + 1] = "frame" /\ \A k \in 1..Len(events) : events'[k] = events[k]
    BY <1>1, <1>2
  <1>4. TypeOK'
    <2>1. frames' \in 0..MaxFrames /\ Len(events') <= EventCap
      BY <1>1, <1>2, <1>3, Counts DEF IInv, TypeOK
    <2>. QED BY <1>1, <1>3, <2>1 DEF IInv, TypeOK
  <1>5. Deciding' = Deciding
    BY <1>2, <1>3 DEF Deciding
  <1>6. Settled' = Settled
    <2>1. CASE Deciding = {}
      BY <1>1, <1>5, <2>1 DEF Settled
    <2>2. CASE Deciding # {}
      <3>1. PICK D : D = Deciding
        OBVIOUS
      <3>2. D \in SUBSET (1..Len(events)) /\ D # {}
        BY <2>2, <3>1 DEF Deciding
      <3>3. Max(D) \in D
        BY <1>2, <3>2, MaxIsLast
      <3>4. events'[Max(D)] = events[Max(D)]
        BY <1>3, <3>2, <3>3
      <3>. QED BY <1>5, <2>2, <3>1, <3>4 DEF Settled
    <2>. QED BY <2>1, <2>2
  <1>7. CemiFollows'
    BY <1>1, <1>6 DEF IInv, CemiFollows
  <1>. QED BY <1>1, <1>4, <1>7, ConnectionsStay, TransportsStay DEF IInv

\* Taking an event leaves what the layer stack will end up in as it was.
LEMMA TakeEventOK ==
    ASSUME IInv, TakeEvent
    PROVE  IInv'
  <1>1. /\ events # << >> /\ cemi' = After(Head(events), cemi) /\ events' = Tail(events)
        /\ UNCHANGED << conns, next_channel, slots, occupancy, active, addrs, streams,
                        sessions, next_session, leaks, refused, connects, frames, writes >>
    BY DEF TakeEvent
  <1>2. events \in Seq({"activate", "deactivate", "frame"}) /\ Len(events) \in Nat
    BY DEF IInv, TypeOK
  <1>3. /\ events' \in Seq({"activate", "deactivate", "frame"}) /\ Len(events') = Len(events) - 1
        /\ Len(events) # 0 /\ Len(events') \in Nat
        /\ \A k \in 1..Len(events') : events'[k] = events[k + 1]
        /\ Head(events) = events[1]
    BY <1>1, <1>2
  <1>4. TypeOK'
    <2>1. Len(events') <= EventCap
      BY <1>2, <1>3, Counts DEF IInv, TypeOK
    <2>2. cemi' \in BOOLEAN
      <3>1. cemi \in BOOLEAN
        BY DEF IInv, TypeOK
      <3>. QED BY <1>1, <3>1 DEF After
    <2>. QED BY <1>1, <1>3, <2>1, <2>2 DEF IInv, TypeOK
  <1>5. PICK C, D, n : C = Deciding /\ D = Deciding' /\ n = Len(events) /\ n \in Nat
    BY <1>2
  <1>6. /\ C \in SUBSET (1..n) /\ D \in SUBSET (1..(n - 1)) /\ n - 1 \in Nat
        /\ \A k \in 1..(n - 1) : k \in D <=> k + 1 \in C
        /\ 1 \in C <=> events[1] # "frame"
    BY <1>2, <1>3, <1>5 DEF Deciding
  <1>7. Settled' = Settled
    <2>1. CASE D = {}
      <3>1. \A k \in C : k = 1
        <4>1. ASSUME NEW k \in C, k # 1
              PROVE  FALSE
          <5>1. k - 1 \in 1..(n - 1) /\ (k - 1) + 1 = k
            BY <1>5, <1>6, <4>1
          <5>. QED BY <1>6, <2>1, <5>1
        <4>. QED BY <4>1
      <3>2. Settled' = cemi'
        BY <1>5, <2>1 DEF Settled
      <3>3. CASE events[1] = "frame"
        <4>1. C = {}
          BY <1>6, <3>1, <3>3
        <4>. QED BY <1>1, <1>3, <1>5, <3>2, <3>3, <4>1 DEF Settled, After
      <3>4. CASE events[1] # "frame"
        <4>1. 1 \in C /\ C # {}
          BY <1>6, <3>4
        <4>2. Max(C) \in C
          BY <1>5, <1>6, <4>1, MaxIsLast
        <4>3. Max(C) = 1
          BY <3>1, <4>2
        <4>. QED BY <1>1, <1>3, <1>5, <3>2, <3>4, <4>1, <4>3 DEF Settled, After
      <3>. QED BY <3>3, <3>4
    <2>2. CASE D # {}
      <3>1. Max(D) \in D /\ \A y \in D : y <= Max(D)
        BY <1>6, <2>2, MaxIsLast
      <3>2. PICK m \in 1..(n - 1) : m = Max(D) /\ m \in D /\ \A y \in D : y <= m
        BY <1>6, <3>1
      <3>3. m + 1 \in C /\ C # {}
        BY <1>6, <3>2
      <3>4. Max(C) \in C /\ \A y \in C : y <= Max(C)
        BY <1>5, <1>6, <3>3, MaxIsLast
      <3>5. PICK x \in 1..n : x = Max(C) /\ x \in C /\ \A y \in C : y <= x
        BY <1>6, <3>4
      <3>6. x >= m + 1
        BY <3>3, <3>5
      <3>7. x - 1 \in 1..(n - 1) /\ (x - 1) + 1 = x
        BY <1>5, <3>2, <3>5, <3>6
      <3>8. x - 1 \in D
        BY <1>6, <3>5, <3>7
      <3>9. x = m + 1
        BY <3>2, <3>6, <3>8
      <3>10. events'[m] = events[m + 1]
        BY <1>3, <1>5, <3>2
      <3>. QED BY <1>5, <2>2, <3>2, <3>3, <3>5, <3>9, <3>10 DEF Settled
    <2>. QED BY <2>1, <2>2
  <1>8. CemiFollows'
    BY <1>1, <1>7 DEF IInv, CemiFollows
  <1>. QED BY <1>1, <1>4, <1>8, ConnectionsStay, TransportsStay DEF IInv

\* The address list is no part of what the tables know of a connection.
LEMMA WriteAddressesOK ==
    ASSUME IInv, NEW list \in AddrLists, WriteAddresses(list)
    PROVE  IInv'
  <1>1. /\ addrs' = list /\ writes < MaxWrites /\ writes' = writes + 1
        /\ UNCHANGED << conns, next_channel, slots, occupancy, active, events, cemi, streams,
                        sessions, next_session, leaks, refused, connects, frames >>
    BY DEF WriteAddresses
  <1>2. writes' \in 0..MaxWrites
    BY <1>1, Counts DEF IInv, TypeOK
  <1>3. TypeOK'
    BY <1>1, <1>2 DEF IInv, TypeOK
  <1>4. CemiFollows'
    BY <1>1 DEF IInv, CemiFollows, Settled, Deciding
  <1>. QED BY <1>1, <1>3, <1>4, ConnectionsStay, TransportsStay DEF IInv

-----------------------------------------------------------------------------
(* The invariant holds.                                                    *)

\* A device starts with empty tables.
LEMMA InitOK ==
    ASSUME Init
    PROVE  IInv
  <1>. USE Counts
  <1>1. TypeOK
    <2>1. conns \in [Entries -> Context \cup {None}] /\ slots \in [SlotIds -> 0..NumIds]
      BY DEF Init
    <2>2. streams \in [StreamIds -> [open : BOOLEAN, channels : SUBSET Ids]]
      BY DEF Init, Closed
    <2>3. sessions \in [SessionIdxs -> [state : {"idle", "unauthenticated", "authenticated"},
                                        id : 0..NumSessions, stream : 0..Streams,
                                        user : Users \cup {OPEN}]]
      BY DEF Init, Idle
    <2>4. events \in Seq({"activate", "deactivate", "frame"}) /\ Len(events) = 0
      BY DEF Init
    <2>5. leaks \in [Types -> Nat] /\ cemi \in BOOLEAN /\ refused \in BOOLEAN
      BY DEF Init
    <2>6. /\ next_channel \in Ids /\ next_session \in 1..NumSessions /\ occupancy \in 0..Capacity
          /\ active \in 0..NumIds /\ addrs \in AddrLists
          /\ connects \in 0..MaxConnects /\ frames \in 0..MaxFrames /\ writes \in 0..MaxWrites
      BY DEF Init, Ids
    <2>. QED BY <2>1, <2>2, <2>3, <2>4, <2>5, <2>6 DEF TypeOK
  <1>2. Occupied = {} /\ \A t : OfType(t) = {}
    BY DEF Init, Occupied, OfType
  <1>3. Taken = {}
    BY DEF Init, Taken
  <1>4. Cardinality({}) = 0
    BY FS_EmptySet
  <1>5. occupancy = 0 /\ leaks["tunnel"] = 0 /\ leaks["management"] = 0 /\ active = 0
    BY DEF Init, Types
  <1>6. TunnelsHeld /\ OneManagement
    BY <1>2, <1>3, <1>4, <1>5 DEF TunnelsHeld, OneManagement
  <1>7. \A n \in SessionIdxs : sessions[n].state = "idle"
    BY DEF Init, Idle
  <1>8. \A s \in StreamIds : streams[s].channels = {}
    BY DEF Init, Closed
  <1>9. DistinctChannels /\ SessionsHeld /\ NoOrphans
    BY <1>2, <1>7 DEF DistinctChannels, SessionsHeld, NoOrphans
  <1>10. ChannelsTracked
    <2>1. \A s \in StreamIds : Carried(s) = {} /\ Carried(s) \ streams[s].channels = {}
      BY <1>2 DEF Carried
    <2>2. Cardinality({}) = 0 /\ 0 <= Surplus
      BY FS_EmptySet, Counts DEF Surplus
    <2>. QED BY <1>8, <2>1, <2>2 DEF ChannelsTracked
  <1>11. CemiFollows
    <2>1. events = << >> /\ cemi = FALSE /\ active = 0
      BY DEF Init
    <2>2. Deciding = {}
      BY <2>1 DEF Deciding
    <2>. QED BY <2>1, <2>2 DEF CemiFollows, Settled
  <1>. QED BY <1>1, <1>6, <1>9, <1>10, <1>11 DEF IInv

\* Every step of the link layer and of the layer stack keeps it.
LEMMA NextOK ==
    ASSUME IInv, [Next]_vars
    PROVE  IInv'
  <1>1. ASSUME NEW o \in Origins, NEW a \in Named, ConnectTunnel(o, a)
        PROVE  IInv'
    BY <1>1, ConnectTunnelOK
  <1>2. ASSUME ConnectRefused
        PROVE  IInv'
    BY <1>2, ConnectRefusedOK
  <1>3. ASSUME NEW o \in Origins, ConnectManagement(o)
        PROVE  IInv'
    BY <1>3, ConnectManagementOK
  <1>4. ASSUME NEW o \in Origins, NEW i \in Entries, Disconnect(i, o)
        PROVE  IInv'
    BY <1>4, DisconnectOK
  <1>5. ASSUME NEW o \in Origins, NEW i \in Entries, ManagementFrame(i, o)
        PROVE  IInv'
    BY <1>5, ManagementFrameOK
  <1>6. ASSUME NEW i \in Entries, HeartbeatTimeout(i)
        PROVE  IInv'
    BY <1>6, DisconnectOK
  <1>7. ASSUME NEW i \in Entries, AckTimeout(i)
        PROVE  IInv'
    BY <1>7, AckTimeoutOK
  <1>8. CASE AcceptStream
    BY <1>8, AcceptStreamOK
  <1>9. ASSUME NEW s \in StreamIds, CloseStream(s) \/ IdleTimeout(s)
        PROVE  IInv'
    BY <1>9, CloseStreamOK DEF IdleTimeout
  <1>10. ASSUME NEW s \in StreamIds, OpenSession(s)
         PROVE  IInv'
    BY <1>10, OpenSessionOK
  <1>11. ASSUME NEW n \in SessionIdxs, EndSession(n)
         PROVE  IInv'
    BY <1>11, EndSessionOK
  <1>12. ASSUME NEW n \in SessionIdxs, NEW user \in Users, Authenticate(n, user)
         PROVE  IInv'
    BY <1>12, AuthenticateOK
  <1>13. CASE TakeEvent
    BY <1>13, TakeEventOK
  <1>14. ASSUME NEW list \in AddrLists, WriteAddresses(list)
         PROVE  IInv'
    BY <1>14, WriteAddressesOK
  <1>15. CASE UNCHANGED vars
    <2>1. UNCHANGED << conns, slots, occupancy, active, leaks, streams, sessions >>
      BY <1>15 DEF vars
    <2>2. TypeOK'
      BY <1>15 DEF IInv, TypeOK, vars
    <2>3. CemiFollows'
      BY <1>15 DEF IInv, CemiFollows, Settled, Deciding, vars
    <2>. QED BY <2>1, <2>2, <2>3, ConnectionsStay, TransportsStay DEF IInv
  <1>. QED BY <1>1, <1>2, <1>3, <1>4, <1>5, <1>6, <1>7, <1>8, <1>9, <1>10, <1>11, <1>12,
              <1>13, <1>14, <1>15 DEF Next

\* The strengthened invariant, for any numbers of slots, ids and streams.
THEOREM Invariant == Spec => []IInv
  <1>1. Init => IInv
    BY InitOK
  <1>2. IInv /\ [Next]_vars => IInv'
    BY NextOK
  <1>. QED BY <1>1, <1>2, PTL DEF Spec

\* The connection table, the tunnel slots with their occupancy count, the
\* Device Management handler and the channels of the streams agree, by
\* whichever path connections were opened, refused or torn down.
THEOREM TablesAlwaysAgree == Spec => []TablesAgree
  <1>1. IInv => TablesAgree
    <2>1. SUFFICES ASSUME IInv
                   PROVE  SlotsAccounted
      BY DEF IInv, TablesAgree
    <2>2. occupancy = Cardinality({k \in SlotIds : slots[k] # 0})
      BY <2>1 DEF IInv, TunnelsHeld, Taken
    <2>3. ASSUME NEW i \in OfType("tunnel")
          PROVE  SlotOf(conns[i].id) # 0
      <3>1. PICK id : id = conns[i].id
        OBVIOUS
      <3>2. \E k \in SlotIds : slots[k] = id
        BY <2>1, <3>1 DEF IInv, TunnelsHeld
      <3>3. SlotOf(id) \in SlotIds
        BY <2>1, <3>2, SlotOfFacts DEF IInv
      <3>. QED BY <3>1, <3>3 DEF SlotIds
    <2>4. (active # 0) = (Cardinality(OfType("management")) + leaks["management"] = 1)
      BY <2>1 DEF IInv, OneManagement
    <2>. QED BY <2>1, <2>2, <2>3, <2>4 DEF SlotsAccounted, IInv, TunnelsHeld
  <1>. QED BY <1>1, Invariant, PTL

\* No connection outlives its TCP stream or its secure session.
THEOREM NeverOrphaned == Spec => []NoOrphans
  <1>1. IInv => NoOrphans
    BY DEF IInv
  <1>. QED BY <1>1, Invariant, PTL

\* Unless an event was refused, the layer stack ends up in cEMI mode exactly
\* when a Device Management connection is active.
THEOREM CemiModeFollows == Spec => []CemiFollows
  <1>1. IInv => CemiFollows
    BY DEF IInv
  <1>. QED BY <1>1, Invariant, PTL

-----------------------------------------------------------------------------
(* Slots are only ever taken by a request that finds the address unused.   *)

\* Closing connections frees slots and takes none.
LEMMA ClosingFrees ==
    ASSUME NEW E, TearDown(E)
    PROVE  \A k \in SlotIds : slots'[k] = slots[k] \/ slots'[k] = 0
  BY DEF TearDown, CloseTunnels

\* The step of UniqueAddress, for the one action that takes a slot.
LEMMA TakesUnused ==
    ASSUME TypeOK, NEW o, NEW a, ConnectTunnel(o, a), NEW k \in SlotIds, slots'[k] # slots[k]
    PROVE  /\ slots[k] = 0
           /\ \A m \in (1..Len(addrs)) \ {k} : addrs[m] = addrs[k] => slots'[m] = 0
  <1>0. PICK n : n = SlotFor(a, o.access)
    OBVIOUS
  <1>1. n # 0 /\ slots' = [slots EXCEPT ![n] = Allocated]
    BY <1>0 DEF ConnectTunnel
  <1>2. n \in 1..Len(addrs) /\ slots[n] = 0 /\ ~ActiveFor(addrs[n])
    BY <1>0, <1>1, SlotFacts
  <1>3. \A m \in SlotIds \ {n} : slots'[m] = slots[m]
    BY <1>1 DEF TypeOK
  <1>4. k = n
    BY <1>3
  <1>5. 1..Len(addrs) \subseteq SlotIds
    BY ListsAssumption, Counts DEF TypeOK, SlotIds
  <1>. QED BY <1>2, <1>3, <1>4, <1>5 DEF ActiveFor

\* No request takes a slot that another channel holds, or an address that an
\* open tunnel uses, whatever the address list has been changed to.
THEOREM AddressesUnique == Spec => UniqueAddress
  <1> DEFINE Step == \A k \in SlotIds : slots'[k] # slots[k] /\ slots'[k] # 0 =>
                        /\ slots[k] = 0
                        /\ \A m \in (1..Len(addrs)) \ {k} : addrs[m] = addrs[k] => slots'[m] = 0
  <1>1. IInv /\ [Next]_vars => [Step]_vars
    <2>1. SUFFICES ASSUME IInv, Next
                   PROVE  Step
      OBVIOUS
    <2>2. ASSUME NEW o, NEW a, ConnectTunnel(o, a)
          PROVE  Step
      BY <2>1, <2>2, TakesUnused DEF IInv
    <2>3. ASSUME NEW E, TearDown(E)
          PROVE  Step
      BY <2>3, ClosingFrees
    <2>4. CASE UNCHANGED slots
      BY SMTT(30), <2>4
    <2>5. (\E o, a : ConnectTunnel(o, a)) \/ (\E E : TearDown(E)) \/ UNCHANGED slots
      BY <2>1 DEF Next, ConnectRefused, ConnectManagement, Disconnect, ManagementFrame,
                  HeartbeatTimeout, AckTimeout, AcceptStream, CloseStream, IdleTimeout,
                  OpenSession, EndSession, Authenticate, TakeEvent, WriteAddresses
    <2>. HIDE DEF Step
    <2>. QED BY <2>2, <2>3, <2>4, <2>5
  <1>2. Spec => [][Step]_vars
    BY <1>1, Invariant, PTL DEF Spec
  <1>. QED BY <1>2 DEF UniqueAddress

=============================================================================
