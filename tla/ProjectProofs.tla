--------------------------- MODULE ProjectProofs ---------------------------
(***************************************************************************)
(* Proofs about ProjectStore: for any number of programs, devices, keys,   *)
(* events and faults, over journals of any length.                         *)
(***************************************************************************)
EXTENDS ProjectStore, SequenceTheorems, WellFoundedInduction, TLAPS

-----------------------------------------------------------------------------
(* Replay, line by line.                                                   *)

Journals == Seq(LineSet)

\* Induction over journals: a set of journals that has the empty one and is
\* closed under one more line has all of them.
LEMMA JournalInduction ==
    ASSUME NEW T, <<>> \in T,
           \A j \in Journals, l \in LineSet : j \in T => Append(j, l) \in T
    PROVE  Journals \subseteq T
  <1> SUFFICES ASSUME NEW w \in Journals, w \notin T PROVE FALSE
    OBVIOUS
  <1> DEFINE S == {n \in Nat : \E j \in Journals : Len(j) = n /\ j \notin T}
  <1>1. Len(w) \in S
    BY DEF Journals
  <1>2. PICK m \in S : \A y \in S : <<y, m>> \notin OpToRel(<, Nat)
    BY <1>1, WFMin, NatLessThanWellFounded
  <1>3. \A y \in S : m <= y
    <2>1. \A x, y \in Nat : <<y, x>> \notin OpToRel(<, Nat) => x <= y
      BY DEF OpToRel
    <2>2. S \subseteq Nat
      OBVIOUS
    <2> HIDE DEF S
    <2> QED BY <1>2, <2>1, <2>2
  <1>4. PICK j \in Journals : Len(j) = m /\ j \notin T
    OBVIOUS
  <1>5. j # <<>>
    BY <1>4
  <1>6. PICK i \in Journals, l \in LineSet : j = Append(i, l) /\ Len(i) = m - 1
    <2> DEFINE i == SubSeq(j, 1, Len(j) - 1)
    <2>1. Len(j) \in Nat \ {0}
      BY <1>5 DEF Journals
    <2>2. i \in Journals /\ Len(i) = Len(j) - 1
      <3>1. PICK n \in Nat : n = Len(j) - 1
        BY <2>1
      <3>2. \A a \in 1 .. n : a \in 1 .. Len(j)
        BY <2>1, <3>1
      <3>3. SubSeq(j, 1, n) \in Seq(LineSet) /\ Len(SubSeq(j, 1, n)) = n
        BY <2>1, <3>1, <3>2, SubSeqProperties DEF Journals
      <3> QED BY <3>1, <3>3 DEF Journals
    <2>3. j[Len(j)] \in LineSet
      BY <2>1 DEF Journals
    <2>4. j = Append(i, j[Len(j)])
      BY <2>1 DEF Journals
    <2> QED BY <1>4, <2>2, <2>3, <2>4
  <1>7. i \in T
    <2>1. Len(i) \in Nat /\ m \in Nat
      BY DEF Journals
    <2> QED BY <1>3, <1>6, <2>1
  <1> QED BY <1>4, <1>6, <1>7

\* f is the sequence of states of a replay.
Steps(f, s, j) == f = [n \in 0 .. Len(j) |-> IF n = 0 THEN s ELSE ReplayLine(f[n - 1], j[n])]

OneReplay(s, j) == \E f : Steps(f, s, j) /\ \A g : Steps(g, s, j) => g = f

LEMMA ReplayValue ==
    ASSUME NEW s, NEW j, NEW f, Steps(f, s, j), \A g : Steps(g, s, j) => g = f
    PROVE  Replay(s, j) = f[Len(j)]
  <1> DEFINE g == CHOOSE h : h = [n \in 0 .. Len(j) |->
                                    IF n = 0 THEN s ELSE ReplayLine(h[n - 1], j[n])]
  <1>1. g = [n \in 0 .. Len(j) |-> IF n = 0 THEN s ELSE ReplayLine(g[n - 1], j[n])]
    BY Zenon DEF Steps
  <1>2. Replay(s, j) = g[Len(j)]
    BY Zenon DEF Replay
  <1>3. g = f
    BY <1>1, Zenon DEF Steps
  <1> QED BY <1>2, <1>3

LEMMA StepsEmpty ==
    ASSUME NEW s
    PROVE  OneReplay(s, <<>>) /\ Replay(s, <<>>) = s
  <1> DEFINE f == [n \in 0 .. 0 |-> s]
  <1>0. Len(<<>>) = 0 /\ 0 \in 0 .. 0 /\ \A n \in 0 .. 0 : n = 0
    OBVIOUS
  <1>1. Steps(f, s, <<>>)
    BY <1>0 DEF Steps
  <1>2. \A g : Steps(g, s, <<>>) => g = f
    BY <1>0 DEF Steps
  <1>3. f[0] = s
    OBVIOUS
  <1> HIDE DEF f
  <1> QED BY <1>0, <1>1, <1>2, <1>3, ReplayValue DEF OneReplay

LEMMA StepsAppend ==
    ASSUME NEW s, NEW j \in Journals, NEW l \in LineSet, OneReplay(s, j)
    PROVE  OneReplay(s, Append(j, l)) /\ Replay(s, Append(j, l)) = ReplayLine(Replay(s, j), l)
  <1>1. PICK f : Steps(f, s, j) /\ \A g : Steps(g, s, j) => g = f
    BY Zenon DEF OneReplay
  <1>2. Replay(s, j) = f[Len(j)]
    BY <1>1, ReplayValue
  <1>3. PICK k : k = Append(j, l)
    OBVIOUS
  <1>4. PICK m \in Nat : m = Len(j)
    BY DEF Journals
  <1>5. Len(k) = m + 1 /\ k[m + 1] = l /\ \A n \in 1 .. m : k[n] = j[n]
    BY <1>3, <1>4 DEF Journals
  <1>6. f = [n \in 0 .. m |-> IF n = 0 THEN s ELSE ReplayLine(f[n - 1], j[n])]
    BY <1>1, <1>4 DEF Steps
  <1> DEFINE h == [n \in 0 .. m + 1 |-> IF n <= m THEN f[n] ELSE ReplayLine(f[m], l)]
  <1>7. Steps(h, s, k)
    <2>1. h[0] = s
      BY <1>6
    <2>2. ASSUME NEW n \in 1 .. m PROVE h[n] = ReplayLine(h[n - 1], k[n])
      <3>1. h[n] = f[n] /\ h[n - 1] = f[n - 1] /\ k[n] = j[n]
        BY <1>5
      <3>2. f[n] = ReplayLine(f[n - 1], j[n])
        BY <1>6
      <3> QED BY <3>1, <3>2
    <2>3. h[m + 1] = ReplayLine(h[m], k[m + 1])
      BY <1>5
    <2>4. ASSUME NEW n \in 0 .. m + 1 PROVE n = 0 \/ n \in 1 .. m \/ n = m + 1
      OBVIOUS
    <2>5. h = [n \in 0 .. m + 1 |-> h[n]]
      OBVIOUS
    <2> HIDE DEF h
    <2>6. \A n \in 0 .. m + 1 : h[n] = IF n = 0 THEN s ELSE ReplayLine(h[n - 1], k[n])
      BY <2>1, <2>2, <2>3, <2>4
    <2>7. h = [n \in 0 .. m + 1 |-> IF n = 0 THEN s ELSE ReplayLine(h[n - 1], k[n])]
      BY <2>5, <2>6
    <2> QED BY <2>7, <1>5 DEF Steps
  <1>8. ASSUME NEW g, Steps(g, s, k) PROVE g = h
    <2>1. g = [n \in 0 .. m + 1 |-> IF n = 0 THEN s ELSE ReplayLine(g[n - 1], k[n])]
      BY <1>8, <1>5 DEF Steps
    <2> DEFINE r == [n \in 0 .. m |-> g[n]]
    <2>2. r[0] = s
      BY <2>1
    <2>3. ASSUME NEW n \in 1 .. m PROVE r[n] = ReplayLine(r[n - 1], j[n])
      <3>1. r[n] = g[n] /\ r[n - 1] = g[n - 1] /\ k[n] = j[n]
        BY <1>5
      <3>2. g[n] = ReplayLine(g[n - 1], k[n])
        BY <2>1
      <3> QED BY <3>1, <3>2
    <2>4. r = [n \in 0 .. m |-> r[n]]
      OBVIOUS
    <2>5. \A n \in 0 .. m : r[n] = g[n]
      OBVIOUS
    <2> HIDE DEF r
    <2>6. \A n \in 0 .. m : r[n] = IF n = 0 THEN s ELSE ReplayLine(r[n - 1], j[n])
      BY <2>2, <2>3
    <2>7. r = [n \in 0 .. m |-> IF n = 0 THEN s ELSE ReplayLine(r[n - 1], j[n])]
      BY <2>4, <2>6
    <2>8. r = f
      BY <2>7, <1>1, <1>4 DEF Steps
    <2>9. g[m + 1] = ReplayLine(g[m], l)
      BY <2>1, <1>5
    <2>10. \A n \in 0 .. m + 1 : g[n] = IF n <= m THEN f[n] ELSE ReplayLine(f[m], l)
      BY <2>5, <2>8, <2>9
    <2>11. g = [n \in 0 .. m + 1 |-> g[n]]
      BY <2>1
    <2> QED BY <2>10, <2>11
  <1>9. h[m + 1] = ReplayLine(f[m], l)
    OBVIOUS
  <1> HIDE DEF h
  <1>10. Replay(s, k) = h[Len(k)]
    BY <1>7, <1>8, ReplayValue
  <1>11. OneReplay(s, k)
    BY <1>7, <1>8, Zenon DEF OneReplay
  <1> QED BY <1>2, <1>3, <1>4, <1>5, <1>9, <1>10, <1>11

\* Nothing to replay changes nothing.
LEMMA ReplayEmpty == \A s : Replay(s, <<>>) = s
  BY StepsEmpty

\* One more line is replayed after the others.
LEMMA ReplayAppend ==
    ASSUME NEW s, NEW j \in Journals, NEW l \in LineSet
    PROVE  Replay(s, Append(j, l)) = ReplayLine(Replay(s, j), l)
  <1> DEFINE T == {i \in Journals : OneReplay(s, i)}
  <1>1. <<>> \in T
    BY StepsEmpty DEF Journals
  <1>2. \A i \in Journals, k \in LineSet : i \in T => Append(i, k) \in T
    BY StepsAppend DEF Journals
  <1>3. Journals \subseteq T
    <2> HIDE DEF T
    <2> QED BY <1>1, <1>2, JournalInduction
  <1> QED BY <1>3, StepsAppend

-----------------------------------------------------------------------------
(* What one event does to a state, field by field.                         *)

OnDevice(e) == e.t \notin {"advance", "begin", "complete"}
Wipes(e) == e.t = "unloaded" /\ ~e.preserve

KeyAfter(k, e) == IF CarriesKey(e) THEN e.key ELSE IF Wipes(e) THEN None ELSE k
ImageAfter(b, e) ==
    IF e.t = "programmed" THEN TRUE ELSE IF e.t \in {"unloaded", "indeterminate"} THEN FALSE ELSE b
UnloadedAfter(b, e) ==
    IF e.t = "unloaded" THEN TRUE ELSE IF e.t \in {"programmed", "indeterminate"} THEN FALSE ELSE b
InconsistentAfter(b, e) ==
    IF e.t = "inconsistent" THEN TRUE
    ELSE IF Wipes(e) \/ (e.t = "programmed" /\ e.verified) THEN FALSE ELSE b
FloorAfter(n, e) == IF e.t = "observe" THEN Larger(n, e.n) ELSE IF Wipes(e) THEN 0 ELSE n

LEMMA EventKinds ==
    ASSUME NEW e \in Events
    PROVE  \/ e = Begin /\ e.t = "begin"
           \/ e = Complete /\ e.t = "complete"
           \/ e.t = "advance" /\ e.n \in 1 .. MaxSequence /\ e = Advance(e.n)
           \/ e \in Observations /\ OnDevice(e) /\ e.dev \in Devices
  <1>1. CASE e \in Observations
    <2>1. OnDevice(e)
      BY <1>1 DEF Observations, OnDevice
    <2>2. e.dev \in Devices
      BY <1>1 DEF Observations
    <2> QED BY <1>1, <2>1, <2>2
  <1>2. CASE e \in {Begin, Complete}
    BY <1>2 DEF Begin, Complete
  <1>3. CASE e \in {Advance(n) : n \in 1 .. MaxSequence}
    BY <1>3 DEF Advance
  <1> QED BY <1>1, <1>2, <1>3 DEF Events

LEMMA DeviceFields ==
    ASSUME NEW x \in Deployments, NEW e \in Observations
    PROVE  /\ ApplyToDevice(x, e) \in Deployments
           /\ ApplyToDevice(x, e).key = KeyAfter(x.key, e)
           /\ ApplyToDevice(x, e).floor = FloorAfter(x.floor, e)
  <1>0. /\ x.image \in BOOLEAN /\ x.key \in GroupKeys \cup {None} /\ x.unloaded \in BOOLEAN
        /\ x.inconsistent \in BOOLEAN /\ x.floor \in 0 .. 2
        /\ x = [image |-> x.image, key |-> x.key, unloaded |-> x.unloaded,
                inconsistent |-> x.inconsistent, floor |-> x.floor]
    BY DEF Deployments
  <1>1. CASE e \in [t : {"observe"}, dev : Devices, n : 1 .. 2]
    <2>1. e.t = "observe" /\ e.n \in 1 .. 2
      BY <1>1
    <2>2. ApplyToDevice(x, e) = [x EXCEPT !.floor = Larger(x.floor, e.n)]
      BY <2>1 DEF ApplyToDevice
    <2>3. Larger(x.floor, e.n) \in 0 .. 2
      BY <1>0, <2>1 DEF Larger
    <2>4. KeyAfter(x.key, e) = x.key /\ FloorAfter(x.floor, e) = Larger(x.floor, e.n)
      BY <2>1 DEF KeyAfter, FloorAfter, CarriesKey, Wipes
    <2> QED BY <1>0, <2>2, <2>3, <2>4 DEF Deployments
  <1>2. CASE e \in [t : {"programmed"}, dev : Devices, key : GroupKeys \cup {None}, verified : BOOLEAN]
    <2>1. e.t = "programmed" /\ e.key \in GroupKeys \cup {None} /\ e.verified \in BOOLEAN
      BY <1>2
    <2>2. ApplyToDevice(x, e) =
            [x EXCEPT !.image = TRUE, !.unloaded = FALSE,
                      !.key = IF e.key # None THEN e.key ELSE x.key,
                      !.inconsistent = x.inconsistent /\ ~e.verified]
      BY <2>1 DEF ApplyToDevice
    <2>3. PICK b \in BOOLEAN : b = (x.inconsistent /\ ~e.verified)
      BY <1>0, <2>1
    <2>4. KeyAfter(x.key, e) = (IF e.key # None THEN e.key ELSE x.key) /\ FloorAfter(x.floor, e) = x.floor
      BY <2>1 DEF KeyAfter, FloorAfter, CarriesKey, Wipes
    <2> QED BY <1>0, <2>1, <2>2, <2>3, <2>4 DEF Deployments
  <1>3. CASE e \in [t : {"unloaded"}, dev : Devices, preserve : BOOLEAN]
    <2>1. e.t = "unloaded" /\ e.preserve \in BOOLEAN
      BY <1>3
    <2>2. CASE e.preserve
      <3>1. ApplyToDevice(x, e) = [x EXCEPT !.image = FALSE, !.unloaded = TRUE]
        BY <2>1, <2>2 DEF ApplyToDevice
      <3>2. KeyAfter(x.key, e) = x.key /\ FloorAfter(x.floor, e) = x.floor
        BY <2>1, <2>2 DEF KeyAfter, FloorAfter, CarriesKey, Wipes
      <3> QED BY <1>0, <3>1, <3>2 DEF Deployments
    <2>3. CASE ~e.preserve
      <3>1. ApplyToDevice(x, e) = [FactoryDeployment EXCEPT !.unloaded = TRUE]
        BY <2>1, <2>3 DEF ApplyToDevice
      <3>2. KeyAfter(x.key, e) = None /\ FloorAfter(x.floor, e) = 0
        BY <2>1, <2>3 DEF KeyAfter, FloorAfter, CarriesKey, Wipes
      <3>3. ApplyToDevice(x, e) = [image |-> FALSE, key |-> None, unloaded |-> TRUE,
                                   inconsistent |-> FALSE, floor |-> 0]
        BY <3>1 DEF FactoryDeployment
      <3>4. FALSE \in BOOLEAN /\ TRUE \in BOOLEAN /\ 0 \in 0 .. 2
        OBVIOUS
      <3> QED BY <3>2, <3>3, <3>4 DEF Deployments
    <2> QED BY <2>2, <2>3
  <1>4. CASE e \in [t : {"indeterminate"}, dev : Devices, key : GroupKeys \cup {None}]
    <2>1. e.t = "indeterminate" /\ e.key \in GroupKeys \cup {None}
      BY <1>4
    <2>2. ApplyToDevice(x, e) = [x EXCEPT !.image = FALSE, !.unloaded = FALSE,
                                          !.key = IF e.key # None THEN e.key ELSE x.key]
      BY <2>1 DEF ApplyToDevice
    <2>3. KeyAfter(x.key, e) = (IF e.key # None THEN e.key ELSE x.key) /\ FloorAfter(x.floor, e) = x.floor
      BY <2>1 DEF KeyAfter, FloorAfter, CarriesKey, Wipes
    <2> QED BY <1>0, <2>1, <2>2, <2>3 DEF Deployments
  <1>5. CASE e \in [t : {"inconsistent"}, dev : Devices]
    <2>1. e.t = "inconsistent"
      BY <1>5
    <2>2. ApplyToDevice(x, e) = [x EXCEPT !.inconsistent = TRUE]
      BY <2>1 DEF ApplyToDevice
    <2>3. KeyAfter(x.key, e) = x.key /\ FloorAfter(x.floor, e) = x.floor
      BY <2>1 DEF KeyAfter, FloorAfter, CarriesKey, Wipes
    <2> QED BY <1>0, <2>2, <2>3 DEF Deployments
  <1> QED BY <1>1, <1>2, <1>3, <1>4, <1>5 DEF Observations

LEMMA DeviceFlags ==
    ASSUME NEW x \in Deployments, NEW e \in Observations
    PROVE  /\ ApplyToDevice(x, e).image = ImageAfter(x.image, e)
           /\ ApplyToDevice(x, e).unloaded = UnloadedAfter(x.unloaded, e)
           /\ ApplyToDevice(x, e).inconsistent = InconsistentAfter(x.inconsistent, e)
  <1>0. /\ x.inconsistent \in BOOLEAN
        /\ x = [image |-> x.image, key |-> x.key, unloaded |-> x.unloaded,
                inconsistent |-> x.inconsistent, floor |-> x.floor]
    BY DEF Deployments
  <1> USE DEF ImageAfter, UnloadedAfter, InconsistentAfter, Wipes
  <1>1. CASE e.t = "observe"
    <2>1. ApplyToDevice(x, e) = [x EXCEPT !.floor = Larger(x.floor, e.n)]
      BY <1>1 DEF ApplyToDevice
    <2> QED BY <1>0, <1>1, <2>1
  <1>2. CASE e.t = "programmed"
    <2>1. e.verified \in BOOLEAN
      BY <1>2 DEF Observations
    <2>2. ApplyToDevice(x, e) =
            [x EXCEPT !.image = TRUE, !.unloaded = FALSE,
                      !.key = IF e.key # None THEN e.key ELSE x.key,
                      !.inconsistent = x.inconsistent /\ ~e.verified]
      BY <1>2 DEF ApplyToDevice
    <2>3. (x.inconsistent /\ ~e.verified) = IF e.verified THEN FALSE ELSE x.inconsistent
      BY <1>0, <2>1
    <2> QED BY <1>0, <1>2, <2>2, <2>3
  <1>3. CASE e.t = "unloaded" /\ e.preserve
    <2>1. ApplyToDevice(x, e) = [x EXCEPT !.image = FALSE, !.unloaded = TRUE]
      BY <1>3 DEF ApplyToDevice
    <2> QED BY <1>0, <1>3, <2>1
  <1>4. CASE e.t = "unloaded" /\ ~e.preserve
    <2>1. ApplyToDevice(x, e) = [image |-> FALSE, key |-> None, unloaded |-> TRUE,
                                 inconsistent |-> FALSE, floor |-> 0]
      BY <1>4 DEF ApplyToDevice, FactoryDeployment
    <2> QED BY <1>4, <2>1
  <1>5. CASE e.t = "indeterminate"
    <2>1. ApplyToDevice(x, e) = [x EXCEPT !.image = FALSE, !.unloaded = FALSE,
                                          !.key = IF e.key # None THEN e.key ELSE x.key]
      BY <1>5 DEF ApplyToDevice
    <2> QED BY <1>0, <1>5, <2>1
  <1>6. CASE e.t = "inconsistent"
    <2>1. ApplyToDevice(x, e) = [x EXCEPT !.inconsistent = TRUE]
      BY <1>6 DEF ApplyToDevice
    <2> QED BY <1>0, <1>6, <2>1
  <1> QED BY <1>1, <1>2, <1>3, <1>4, <1>5, <1>6 DEF Observations

LEMMA ApplyFields ==
    ASSUME NEW s \in States, NEW e \in Events
    PROVE  /\ Apply(s, e) \in States
           /\ Apply(s, e).id = s.id
           /\ Apply(s, e).next = IF e.t = "advance" THEN Larger(s.next, e.n) ELSE s.next
           /\ Apply(s, e).recovery = (IF e.t = "begin" THEN TRUE
                                      ELSE IF e.t = "complete" THEN FALSE ELSE s.recovery)
           /\ \A d \in Devices :
                Apply(s, e).dev[d] = IF OnDevice(e) /\ e.dev = d THEN ApplyToDevice(s.dev[d], e)
                                     ELSE s.dev[d]
  <1>0. /\ s.id \in Ids /\ s.recovery \in BOOLEAN /\ s.next \in 1 .. MaxSequence
        /\ s.dev \in [Devices -> Deployments]
        /\ s = [id |-> s.id, recovery |-> s.recovery, next |-> s.next, dev |-> s.dev]
    BY DEF States
  <1>1. CASE e.t = "advance" /\ e.n \in 1 .. MaxSequence
    <2>1. Apply(s, e) = [s EXCEPT !.next = Larger(s.next, e.n)]
      BY <1>1 DEF Apply
    <2>2. Larger(s.next, e.n) \in 1 .. MaxSequence
      BY <1>0, <1>1 DEF Larger
    <2> QED BY <1>0, <1>1, <2>1, <2>2 DEF States, OnDevice
  <1>2. CASE e.t = "begin"
    <2>1. Apply(s, e) = [s EXCEPT !.recovery = TRUE]
      BY <1>2 DEF Apply
    <2> QED BY <1>0, <1>2, <2>1 DEF States, OnDevice
  <1>3. CASE e.t = "complete"
    <2>1. Apply(s, e) = [s EXCEPT !.recovery = FALSE]
      BY <1>3 DEF Apply
    <2> QED BY <1>0, <1>3, <2>1 DEF States, OnDevice
  <1>4. CASE e \in Observations /\ OnDevice(e) /\ e.dev \in Devices
    <2>1. PICK y : y = ApplyToDevice(s.dev[e.dev], e)
      OBVIOUS
    <2>2. y \in Deployments
      BY <1>0, <1>4, <2>1, DeviceFields
    <2>3. Apply(s, e) = [s EXCEPT !.dev[e.dev] = y]
      BY <1>4, <2>1 DEF Apply, OnDevice
    <2>4. Apply(s, e) = [id |-> s.id, recovery |-> s.recovery, next |-> s.next,
                         dev |-> [s.dev EXCEPT ![e.dev] = y]]
      BY <1>0, <2>3
    <2>5. e.t \notin {"advance", "begin", "complete"}
      BY <1>4 DEF OnDevice
    <2>6. [s.dev EXCEPT ![e.dev] = y] \in [Devices -> Deployments]
      BY <1>0, <2>2
    <2>7. \A d \in Devices : [s.dev EXCEPT ![e.dev] = y][d] = IF e.dev = d THEN y ELSE s.dev[d]
      BY <1>0
    <2>8. Apply(s, e) \in States
      BY <1>0, <2>4, <2>6 DEF States
    <2>9. /\ Apply(s, e).id = s.id /\ Apply(s, e).next = s.next
          /\ Apply(s, e).recovery = s.recovery
          /\ Apply(s, e).dev = [s.dev EXCEPT ![e.dev] = y]
      BY <2>4
    <2>10. \A d \in Devices : Apply(s, e).dev[d] = IF e.dev = d THEN ApplyToDevice(s.dev[d], e) ELSE s.dev[d]
      BY <2>1, <2>7, <2>9
    <2>11. e.t # "advance" /\ e.t # "begin" /\ e.t # "complete"
      BY <2>5
    <2> QED BY <1>4, <2>8, <2>9, <2>10, <2>11, Zenon
  <1> QED BY <1>1, <1>2, <1>3, <1>4, EventKinds

-----------------------------------------------------------------------------
(* What a replayed journal does to a state.                                *)

AllOk(j) == \A i \in 1 .. Len(j) : j[i].ok

LEMMA Growth ==
    ASSUME NEW j \in Journals, NEW l \in LineSet
    PROVE  /\ Append(j, l) \in Journals
           /\ Len(j) \in Nat /\ Len(Append(j, l)) = Len(j) + 1
           /\ Append(j, l)[Len(j) + 1] = l
           /\ \A i \in 1 .. Len(j) : Append(j, l)[i] = j[i]
           /\ \A i \in 1 .. Len(Append(j, l)) : i \in 1 .. Len(j) \/ i = Len(j) + 1
  BY DEF Journals

LEMMA LineFacts ==
    ASSUME NEW s \in States, NEW l \in LineSet
    PROVE  /\ l.ev \in Events
           /\ ReplayLine(s, l) \in States \cup {Err}
           /\ ReplayLine(s, l) # Err =>
                l.ok /\ ValidEvent(s, l.ev) /\ ReplayLine(s, l) = Apply(s, l.ev)
           /\ l.ok /\ ValidEvent(s, l.ev) => ReplayLine(s, l) = Apply(s, l.ev) /\ ReplayLine(s, l) # Err
           /\ ReplayLine(Err, l) = Err
  <1>1. l.ev \in Events
    BY DEF LineSet
  <1>2. s # Err
    BY FilesAssumption
  <1>3. Apply(s, l.ev) \in States /\ Apply(s, l.ev) # Err
    BY <1>1, ApplyFields, FilesAssumption
  <1> QED BY <1>1, <1>2, <1>3 DEF ReplayLine

\* Which keys a valid event leaves: the device's, the event's or none.
LEMMA KeysAfter ==
    ASSUME NEW s \in States, NEW e \in Events, NEW d \in Devices
    PROVE  Apply(s, e).dev[d].key = IF OnDevice(e) /\ e.dev = d THEN KeyAfter(s.dev[d].key, e)
                                    ELSE s.dev[d].key
  <1>1. s.dev[d] \in Deployments
    BY DEF States
  <1>2. OnDevice(e) => e \in Observations
    BY EventKinds DEF OnDevice
  <1>3. Apply(s, e).dev[d] = IF OnDevice(e) /\ e.dev = d THEN ApplyToDevice(s.dev[d], e)
                             ELSE s.dev[d]
    BY ApplyFields
  <1>4. CASE OnDevice(e) /\ e.dev = d
    <2>1. ApplyToDevice(s.dev[d], e).key = KeyAfter(s.dev[d].key, e)
      BY <1>1, <1>2, <1>4, DeviceFields
    <2> QED BY <1>3, <1>4, <2>1
  <1> QED BY <1>3, <1>4

LEMMA ConsistentAfter ==
    ASSUME NEW s \in States, NEW e \in Events, ValidEvent(s, e), SnapshotConsistent(s)
    PROVE  SnapshotConsistent(Apply(s, e))
  <1> DEFINE key(d) == s.dev[d].key
             new(d) == Apply(s, e).dev[d].key
  <1>1. \A d, f \in Devices : None \in {key(d), key(f)} \/ key(d) = key(f)
    BY DEF SnapshotConsistent
  <1>2. CASE CarriesKey(e)
    <2>1. \A d \in Devices : key(d) \in {None, e.key}
      BY <1>2 DEF ValidEvent
    <2>2. \A d \in Devices : new(d) \in {None, e.key}
      BY <1>2, <2>1, KeysAfter DEF KeyAfter
    <2> HIDE DEF new
    <2>3. \A d, f \in Devices : None \in {new(d), new(f)} \/ new(d) = new(f)
      BY <2>2
    <2> QED BY <2>3 DEF new, SnapshotConsistent
  <1>3. CASE ~CarriesKey(e)
    <2>1. \A d \in Devices : new(d) \in {None, key(d)}
      BY <1>3, KeysAfter DEF KeyAfter
    <2> HIDE DEF new, key
    <2>2. \A d, f \in Devices : None \in {new(d), new(f)} \/ new(d) = new(f)
      BY <1>1, <2>1
    <2> QED BY <2>2 DEF new, SnapshotConsistent
  <1> QED BY <1>2, <1>3

\* A replay that is accepted read only whole lines, keeps the identity and the
\* agreement on the group key, and never lowers the client floor.
Accepted(s, j) ==
    /\ Replay(s, j) \in States \cup {Err}
    /\ Replay(s, j) # Err =>
         /\ Replay(s, j).id = s.id /\ Replay(s, j).next >= s.next
         /\ SnapshotConsistent(s) => SnapshotConsistent(Replay(s, j))
         /\ AllOk(j)

LEMMA ReplayAccepted ==
    ASSUME NEW s \in States, NEW j \in Journals
    PROVE  Accepted(s, j)
  <1> DEFINE T == {i \in Journals : Accepted(s, i)}
  <1>1. <<>> \in T
    <2>1. Replay(s, <<>>) = s /\ s.next \in Nat /\ <<>> \in Journals /\ AllOk(<<>>)
      BY ReplayEmpty, ConstantsAssumption DEF Journals, AllOk, States
    <2> QED BY <2>1 DEF Accepted
  <1>2. ASSUME NEW i \in Journals, NEW l \in LineSet, i \in T
        PROVE  Append(i, l) \in T
    <2>1. PICK r : r = Replay(s, i)
      OBVIOUS
    <2>2. Replay(s, Append(i, l)) = ReplayLine(r, l)
      BY <2>1, ReplayAppend
    <2>3. CASE r = Err
      <3>1. Replay(s, Append(i, l)) = Err
        BY <2>2, <2>3, LineFacts
      <3> QED BY <3>1, Growth DEF Accepted
    <2>4. CASE r \in States
      <3>1. r # Err /\ Accepted(s, i)
        BY <1>2, <2>4, FilesAssumption
      <3>2. r.id = s.id /\ r.next >= s.next /\ (SnapshotConsistent(s) => SnapshotConsistent(r)) /\ AllOk(i)
        BY <2>1, <3>1 DEF Accepted
      <3>3. CASE ReplayLine(r, l) = Err
        BY <2>2, <3>3, Growth DEF Accepted
      <3>4. CASE ReplayLine(r, l) # Err
        <4>1. l.ok /\ ValidEvent(r, l.ev) /\ ReplayLine(r, l) = Apply(r, l.ev) /\ l.ev \in Events
          BY <2>4, <3>4, LineFacts
        <4>2. PICK a : a = Apply(r, l.ev)
          OBVIOUS
        <4>3. a \in States /\ a.id = r.id /\ a.next = IF l.ev.t = "advance" THEN Larger(r.next, l.ev.n) ELSE r.next
          BY <2>4, <4>1, <4>2, ApplyFields
        <4>4. l.ev.t = "advance" => l.ev.n \in Nat
          BY <4>1, EventKinds, ConstantsAssumption DEF OnDevice
        <4>5. r.next \in Nat /\ s.next \in Nat /\ a.next \in Nat
          BY <2>4, <4>3, ConstantsAssumption DEF States
        <4>6. a.next >= r.next
          BY <4>3, <4>4, <4>5 DEF Larger
        <4>7. SnapshotConsistent(s) => SnapshotConsistent(a)
          BY <2>4, <3>2, <4>1, <4>2, ConsistentAfter
        <4>8. AllOk(Append(i, l))
          BY <3>2, <4>1, Growth DEF AllOk
        <4>9. a.next >= s.next
          BY <3>2, <4>5, <4>6
        <4>10. Replay(s, Append(i, l)) = a
          BY <2>2, <4>1, <4>2
        <4> QED BY <3>2, <4>3, <4>7, <4>8, <4>9, <4>10, Growth DEF Accepted
      <3> QED BY <3>3, <3>4
    <2>5. r \in States \cup {Err}
      BY <1>2, <2>1 DEF Accepted
    <2> QED BY <2>3, <2>4, <2>5
  <1>3. Journals \subseteq T
    <2> HIDE DEF T
    <2> QED BY <1>1, <1>2, JournalInduction
  <1> QED BY <1>3

-----------------------------------------------------------------------------
(* Replaying a journal over its own result changes nothing.  Compared are  *)
(* two replays of one journal: each field ends with one value in both, or  *)
(* was left alone in both; a floor may have been raised by the same bound. *)

Kept(x, X, y, Y) == X = Y \/ (X = x /\ Y = y)
Joined(x, X, y, Y) == X = Y \/ \E m \in Nat : X = Larger(x, m) /\ Y = Larger(y, m)

SameOnDevice(x, X, y, Y) ==
    /\ Kept(x.image, X.image, y.image, Y.image)
    /\ Kept(x.key, X.key, y.key, Y.key)
    /\ Kept(x.unloaded, X.unloaded, y.unloaded, Y.unloaded)
    /\ Kept(x.inconsistent, X.inconsistent, y.inconsistent, Y.inconsistent)
    /\ Joined(x.floor, X.floor, y.floor, Y.floor)

SameEffect(x, X, y, Y) ==
    /\ X.id = x.id /\ Y.id = y.id
    /\ Kept(x.recovery, X.recovery, y.recovery, Y.recovery)
    /\ Joined(x.next, X.next, y.next, Y.next)
    /\ \A d \in Devices : SameOnDevice(x.dev[d], X.dev[d], y.dev[d], Y.dev[d])

LEMMA KeptTwice ==
    ASSUME NEW u, NEW v, NEW x, NEW y, NEW X, NEW Y, Kept(u, x, v, y), Kept(x, X, y, Y)
    PROVE  Kept(u, X, v, Y)
  BY DEF Kept

LEMMA JoinedTwice ==
    ASSUME NEW u \in Nat, NEW v \in Nat, NEW x, NEW y, NEW X, NEW Y,
           Joined(u, x, v, y), Joined(x, X, y, Y)
    PROVE  Joined(u, X, v, Y)
  <1>1. CASE X = Y
    BY <1>1 DEF Joined
  <1>2. CASE X # Y
    <2>1. PICK m \in Nat : X = Larger(x, m) /\ Y = Larger(y, m)
      BY <1>2 DEF Joined
    <2>2. PICK k \in Nat : x = Larger(u, k) /\ y = Larger(v, k)
      BY <1>2, <2>1 DEF Joined
    <2>3. Larger(k, m) \in Nat /\ X = Larger(u, Larger(k, m)) /\ Y = Larger(v, Larger(k, m))
      BY <2>1, <2>2 DEF Larger
    <2> QED BY <2>3 DEF Joined
  <1> QED BY <1>1, <1>2

LEMMA JoinedSame ==
    ASSUME NEW x \in Nat, NEW y \in Nat
    PROVE  Joined(x, x, y, y)
  <1>1. 0 \in Nat /\ x = Larger(x, 0) /\ y = Larger(y, 0)
    BY DEF Larger
  <1> QED BY <1>1 DEF Joined

LEMMA DeviceSame ==
    ASSUME NEW x \in Deployments, NEW y \in Deployments
    PROVE  SameOnDevice(x, x, y, y)
  <1>1. x.floor \in Nat /\ y.floor \in Nat
    BY DEF Deployments
  <1>2. Joined(x.floor, x.floor, y.floor, y.floor)
    BY <1>1, JoinedSame
  <1> QED BY <1>2 DEF SameOnDevice, Kept

LEMMA DeviceTwice ==
    ASSUME NEW u \in Deployments, NEW v \in Deployments, NEW x, NEW y, NEW X, NEW Y,
           SameOnDevice(u, x, v, y), SameOnDevice(x, X, y, Y)
    PROVE  SameOnDevice(u, X, v, Y)
  <1>1. u.floor \in Nat /\ v.floor \in Nat
    BY DEF Deployments
  <1>2. Joined(u.floor, X.floor, v.floor, Y.floor)
    BY <1>1, JoinedTwice DEF SameOnDevice
  <1> QED BY <1>2, KeptTwice DEF SameOnDevice

\* One event has the same effect on both.
LEMMA DeviceStep ==
    ASSUME NEW x \in Deployments, NEW y \in Deployments, NEW e \in Observations
    PROVE  SameOnDevice(x, ApplyToDevice(x, e), y, ApplyToDevice(y, e))
  <1> DEFINE X == ApplyToDevice(x, e)
             Y == ApplyToDevice(y, e)
  <1>1. x.floor \in Nat /\ y.floor \in Nat
    BY DEF Deployments
  <1>2. Joined(x.floor, x.floor, y.floor, y.floor)
    BY <1>1, JoinedSame
  <1>3. Kept(x.key, X.key, y.key, Y.key)
    <2>1. X.key = KeyAfter(x.key, e) /\ Y.key = KeyAfter(y.key, e)
      BY DeviceFields
    <2> HIDE DEF X, Y
    <2> QED BY <2>1 DEF KeyAfter, Kept
  <1>4. Joined(x.floor, X.floor, y.floor, Y.floor)
    <2>1. X.floor = FloorAfter(x.floor, e) /\ Y.floor = FloorAfter(y.floor, e)
      BY DeviceFields
    <2>2. e.t = "observe" => e.n \in Nat
      BY DEF Observations
    <2> HIDE DEF X, Y
    <2> QED BY <1>2, <2>1, <2>2 DEF FloorAfter, Joined
  <1>5. /\ Kept(x.image, X.image, y.image, Y.image)
        /\ Kept(x.unloaded, X.unloaded, y.unloaded, Y.unloaded)
        /\ Kept(x.inconsistent, X.inconsistent, y.inconsistent, Y.inconsistent)
    <2>1. /\ X.image = ImageAfter(x.image, e) /\ Y.image = ImageAfter(y.image, e)
          /\ X.unloaded = UnloadedAfter(x.unloaded, e) /\ Y.unloaded = UnloadedAfter(y.unloaded, e)
          /\ X.inconsistent = InconsistentAfter(x.inconsistent, e)
          /\ Y.inconsistent = InconsistentAfter(y.inconsistent, e)
      BY DeviceFlags
    <2> HIDE DEF X, Y
    <2>2. Kept(x.image, X.image, y.image, Y.image)
      BY <2>1, Zenon DEF Kept, ImageAfter
    <2>3. Kept(x.unloaded, X.unloaded, y.unloaded, Y.unloaded)
      BY <2>1, Zenon DEF Kept, UnloadedAfter
    <2>4. Kept(x.inconsistent, X.inconsistent, y.inconsistent, Y.inconsistent)
      BY <2>1, Zenon DEF Kept, InconsistentAfter
    <2> QED BY <2>2, <2>3, <2>4
  <1> HIDE DEF X, Y
  <1>6. SameOnDevice(x, X, y, Y)
    BY <1>3, <1>4, <1>5 DEF SameOnDevice
  <1> QED BY <1>6 DEF X, Y

LEMMA EffectStep ==
    ASSUME NEW x \in States, NEW y \in States, NEW e \in Events
    PROVE  SameEffect(x, Apply(x, e), y, Apply(y, e))
  <1>1. PICK X : X = Apply(x, e)
    OBVIOUS
  <1>2. PICK Y : Y = Apply(y, e)
    OBVIOUS
  <1>3. X.id = x.id /\ Y.id = y.id
    BY <1>1, <1>2, ApplyFields
  <1>4. /\ X.recovery = (IF e.t = "begin" THEN TRUE ELSE IF e.t = "complete" THEN FALSE ELSE x.recovery)
        /\ Y.recovery = (IF e.t = "begin" THEN TRUE ELSE IF e.t = "complete" THEN FALSE ELSE y.recovery)
    BY <1>1, <1>2, ApplyFields
  <1>5. Kept(x.recovery, X.recovery, y.recovery, Y.recovery)
    BY <1>4, Zenon DEF Kept
  <1>6. Joined(x.next, X.next, y.next, Y.next)
    <2>1. /\ X.next = IF e.t = "advance" THEN Larger(x.next, e.n) ELSE x.next
          /\ Y.next = IF e.t = "advance" THEN Larger(y.next, e.n) ELSE y.next
      BY <1>1, <1>2, ApplyFields
    <2>2. x.next \in Nat /\ y.next \in Nat
      BY DEF States
    <2>3. e.t = "advance" => e.n \in Nat
      BY EventKinds DEF OnDevice
    <2>4. Joined(x.next, x.next, y.next, y.next)
      BY <2>2, JoinedSame
    <2> QED BY <2>1, <2>3, <2>4 DEF Joined
  <1>7. ASSUME NEW d \in Devices
        PROVE  SameOnDevice(x.dev[d], X.dev[d], y.dev[d], Y.dev[d])
    <2>1. x.dev[d] \in Deployments /\ y.dev[d] \in Deployments
      BY DEF States
    <2>2. /\ X.dev[d] = IF OnDevice(e) /\ e.dev = d THEN ApplyToDevice(x.dev[d], e) ELSE x.dev[d]
          /\ Y.dev[d] = IF OnDevice(e) /\ e.dev = d THEN ApplyToDevice(y.dev[d], e) ELSE y.dev[d]
      BY <1>1, <1>2, ApplyFields
    <2>3. OnDevice(e) => e \in Observations
      BY EventKinds DEF OnDevice
    <2> QED BY <2>1, <2>2, <2>3, DeviceStep, DeviceSame
  <1>8. SameEffect(x, X, y, Y)
    BY <1>3, <1>5, <1>6, <1>7 DEF SameEffect
  <1> QED BY <1>1, <1>2, <1>8

LEMMA EffectTwice ==
    ASSUME NEW u \in States, NEW v \in States, NEW x, NEW y, NEW X, NEW Y,
           SameEffect(u, x, v, y), SameEffect(x, X, y, Y)
    PROVE  SameEffect(u, X, v, Y)
  <1>1. X.id = u.id /\ Y.id = v.id
    BY DEF SameEffect
  <1>2. u.next \in Nat /\ v.next \in Nat
    BY DEF States
  <1>3. Joined(u.next, X.next, v.next, Y.next)
    BY <1>2, JoinedTwice DEF SameEffect
  <1>4. Kept(u.recovery, X.recovery, v.recovery, Y.recovery)
    BY KeptTwice DEF SameEffect
  <1>5. ASSUME NEW d \in Devices
        PROVE  SameOnDevice(u.dev[d], X.dev[d], v.dev[d], Y.dev[d])
    <2>1. u.dev[d] \in Deployments /\ v.dev[d] \in Deployments
      BY DEF States
    <2>2. /\ SameOnDevice(u.dev[d], x.dev[d], v.dev[d], y.dev[d])
          /\ SameOnDevice(x.dev[d], X.dev[d], y.dev[d], Y.dev[d])
      BY DEF SameEffect
    <2> QED BY <2>1, <2>2, DeviceTwice
  <1> QED BY <1>1, <1>3, <1>4, <1>5 DEF SameEffect

LEMMA ReplayEffect ==
    ASSUME NEW j \in Journals, NEW x \in States, NEW y \in States,
           Replay(x, j) # Err, Replay(y, j) # Err
    PROVE  SameEffect(x, Replay(x, j), y, Replay(y, j))
  <1> DEFINE Good(i) == Replay(x, i) # Err /\ Replay(y, i) # Err
                          => SameEffect(x, Replay(x, i), y, Replay(y, i))
             T == {i \in Journals : Good(i)}
  <1>1. <<>> \in T
    <2>1. Replay(x, <<>>) = x /\ Replay(y, <<>>) = y /\ <<>> \in Journals
      BY ReplayEmpty DEF Journals
    <2>2. x.next \in Nat /\ y.next \in Nat
      BY DEF States
    <2>3. \A d \in Devices : x.dev[d] \in Deployments /\ y.dev[d] \in Deployments
      BY DEF States
    <2>4. SameEffect(x, x, y, y)
      BY <2>2, <2>3, JoinedSame, DeviceSame DEF SameEffect, Kept
    <2> QED BY <2>1, <2>4
  <1>2. ASSUME NEW i \in Journals, NEW l \in LineSet, i \in T
        PROVE  Append(i, l) \in T
    <2> SUFFICES ASSUME Replay(x, Append(i, l)) # Err, Replay(y, Append(i, l)) # Err
                 PROVE  SameEffect(x, Replay(x, Append(i, l)), y, Replay(y, Append(i, l)))
      BY Growth
    <2>1. PICK X : X = Replay(x, i)
      OBVIOUS
    <2>2. PICK Y : Y = Replay(y, i)
      OBVIOUS
    <2>3. Replay(x, Append(i, l)) = ReplayLine(X, l) /\ Replay(y, Append(i, l)) = ReplayLine(Y, l)
      BY <2>1, <2>2, ReplayAppend
    <2>4. X \in States \cup {Err} /\ Y \in States \cup {Err}
      BY <2>1, <2>2, ReplayAccepted DEF Accepted
    <2>5. X \in States /\ Y \in States
      BY <2>3, <2>4 DEF ReplayLine
    <2>6. /\ l.ev \in Events /\ ReplayLine(X, l) = Apply(X, l.ev) /\ ReplayLine(Y, l) = Apply(Y, l.ev)
      BY <2>3, <2>5, LineFacts
    <2>7. SameEffect(X, Apply(X, l.ev), Y, Apply(Y, l.ev))
      BY <2>5, <2>6, EffectStep
    <2>8. SameEffect(x, X, y, Y)
      BY <1>2, <2>1, <2>2, <2>5, FilesAssumption
    <2>9. SameEffect(x, Apply(X, l.ev), y, Apply(Y, l.ev))
      BY <2>7, <2>8, EffectTwice
    <2> QED BY <2>3, <2>6, <2>9
  <1>3. Journals \subseteq T
    <2> HIDE DEF T
    <2> QED BY <1>1, <1>2, JournalInduction
  <1> QED BY <1>3

\* Replay is idempotent where it is accepted: the journal over the state that
\* already holds its events gives that state.
LEMMA ReplayTwice ==
    ASSUME NEW j \in Journals, NEW b \in States, NEW v \in States,
           Replay(b, j) = v, Replay(v, j) # Err
    PROVE  Replay(v, j) = v
  <1>1. PICK w : w = Replay(v, j)
    OBVIOUS
  <1>2. w \in States
    BY <1>1, ReplayAccepted DEF Accepted
  <1>3. SameEffect(b, v, v, w)
    BY <1>1, ReplayEffect, FilesAssumption
  <1>4. w.id = v.id /\ w.recovery = v.recovery
    BY <1>3, Zenon DEF SameEffect, Kept
  <1>5. w.next = v.next
    <2>1. Joined(b.next, v.next, v.next, w.next)
      BY <1>3 DEF SameEffect
    <2>2. b.next \in Nat /\ v.next \in Nat
      BY DEF States
    <2> QED BY <2>1, <2>2 DEF Joined, Larger
  <1>6. ASSUME NEW d \in Devices PROVE w.dev[d] = v.dev[d]
    <2>1. SameOnDevice(b.dev[d], v.dev[d], v.dev[d], w.dev[d])
      BY <1>3 DEF SameEffect
    <2>2. PICK x \in Deployments : x = b.dev[d]
      BY DEF States
    <2>3. PICK y \in Deployments : y = v.dev[d]
      BY DEF States
    <2>4. PICK z \in Deployments : z = w.dev[d]
      BY <1>2 DEF States
    <2>5. SameOnDevice(x, y, y, z)
      BY <2>1, <2>2, <2>3, <2>4
    <2>6. z.image = y.image /\ z.key = y.key /\ z.unloaded = y.unloaded /\ z.inconsistent = y.inconsistent
      BY <2>5, Zenon DEF SameOnDevice, Kept
    <2>7. x.floor \in Nat /\ y.floor \in Nat
      BY DEF Deployments
    <2>8. z.floor = y.floor
      BY <2>5, <2>7 DEF SameOnDevice, Joined, Larger
    <2>9. y = z
      BY <2>6, <2>8 DEF Deployments
    <2> QED BY <2>3, <2>4, <2>9
  <1>7. w.dev = v.dev
    BY <1>2, <1>6 DEF States
  <1>8. w = v
    BY <1>2, <1>4, <1>5, <1>7 DEF States
  <1> QED BY <1>1, <1>8

-----------------------------------------------------------------------------
(* When a journal is accepted over its own result: a key that changed in   *)
(* it is refused by a state that holds one, everything else is not.        *)

FewerKeys(y, x) == \A d \in Devices : y.dev[d].key \in {None, x.dev[d].key}
KeysWithin(y, C) == \A c \in C, d \in Devices : y.dev[d].key \in {None, c}
Carries(l) == CarriesKey(l.ev)

LEMMA FewerAfter ==
    ASSUME NEW x \in States, NEW y \in States, NEW e \in Events,
           FewerKeys(y, x), ValidEvent(x, e)
    PROVE  ValidEvent(y, e) /\ FewerKeys(Apply(y, e), Apply(x, e))
  <1>1. ValidEvent(y, e)
    BY DEF ValidEvent, FewerKeys
  <1>2. ASSUME NEW d \in Devices
        PROVE  Apply(y, e).dev[d].key \in {None, Apply(x, e).dev[d].key}
    <2>1. /\ Apply(y, e).dev[d].key = IF OnDevice(e) /\ e.dev = d THEN KeyAfter(y.dev[d].key, e)
                                      ELSE y.dev[d].key
          /\ Apply(x, e).dev[d].key = IF OnDevice(e) /\ e.dev = d THEN KeyAfter(x.dev[d].key, e)
                                      ELSE x.dev[d].key
      BY KeysAfter
    <2>2. y.dev[d].key \in {None, x.dev[d].key}
      BY DEF FewerKeys
    <2> QED BY <2>1, <2>2 DEF KeyAfter
  <1> QED BY <1>1, <1>2 DEF FewerKeys

\* What a state accepts, one with fewer keys accepts.
LEMMA ReplayFewer ==
    ASSUME NEW j \in Journals, NEW x \in States, NEW y \in States,
           FewerKeys(y, x), Replay(x, j) # Err
    PROVE  Replay(y, j) # Err
  <1> DEFINE Good(i) == Replay(x, i) # Err
                          => Replay(y, i) # Err /\ FewerKeys(Replay(y, i), Replay(x, i))
             T == {i \in Journals : Good(i)}
  <1>1. <<>> \in T
    <2>1. Replay(x, <<>>) = x /\ Replay(y, <<>>) = y /\ <<>> \in Journals
      BY ReplayEmpty DEF Journals
    <2> QED BY <2>1, FilesAssumption
  <1>2. ASSUME NEW i \in Journals, NEW l \in LineSet, i \in T
        PROVE  Append(i, l) \in T
    <2> SUFFICES ASSUME Replay(x, Append(i, l)) # Err
                 PROVE  /\ Replay(y, Append(i, l)) # Err
                        /\ FewerKeys(Replay(y, Append(i, l)), Replay(x, Append(i, l)))
      BY Growth
    <2>1. PICK X : X = Replay(x, i)
      OBVIOUS
    <2>2. PICK Y : Y = Replay(y, i)
      OBVIOUS
    <2>3. Replay(x, Append(i, l)) = ReplayLine(X, l) /\ Replay(y, Append(i, l)) = ReplayLine(Y, l)
      BY <2>1, <2>2, ReplayAppend
    <2>4. X \in States \cup {Err} /\ Y \in States \cup {Err}
      BY <2>1, <2>2, ReplayAccepted DEF Accepted
    <2>5. X \in States /\ X # Err
      BY <2>3, <2>4 DEF ReplayLine
    <2>6. Y # Err /\ FewerKeys(Y, X)
      BY <1>2, <2>1, <2>2, <2>5
    <2>7. Y \in States
      BY <2>4, <2>6
    <2>8. l.ok /\ ValidEvent(X, l.ev) /\ l.ev \in Events /\ ReplayLine(X, l) = Apply(X, l.ev)
      BY <2>3, <2>5, LineFacts
    <2>9. ValidEvent(Y, l.ev) /\ FewerKeys(Apply(Y, l.ev), Apply(X, l.ev))
      BY <2>5, <2>6, <2>7, <2>8, FewerAfter
    <2>10. ReplayLine(Y, l) # Err /\ ReplayLine(Y, l) = Apply(Y, l.ev)
      BY <2>7, <2>8, <2>9, LineFacts
    <2> QED BY <2>3, <2>8, <2>9, <2>10
  <1>3. Journals \subseteq T
    <2> HIDE DEF T
    <2> QED BY <1>1, <1>2, JournalInduction
  <1> QED BY <1>3

\* A journal of whole lines with at most one key is accepted by a state that
\* holds no other.
LEMMA ReplayOneKey ==
    ASSUME NEW j \in Journals, NEW y \in States, NEW C, \A a, b \in C : a = b,
           AllOk(j), \A i \in 1 .. Len(j) : Carries(j[i]) => j[i].ev.key \in C,
           KeysWithin(y, C)
    PROVE  Replay(y, j) # Err
  <1> DEFINE Good(i) == AllOk(i) /\ (\A n \in 1 .. Len(i) : Carries(i[n]) => i[n].ev.key \in C)
                          => Replay(y, i) # Err /\ KeysWithin(Replay(y, i), C)
             T == {i \in Journals : Good(i)}
  <1>1. <<>> \in T
    <2>1. Replay(y, <<>>) = y /\ <<>> \in Journals
      BY ReplayEmpty DEF Journals
    <2> QED BY <2>1, FilesAssumption
  <1>2. ASSUME NEW i \in Journals, NEW l \in LineSet, i \in T
        PROVE  Append(i, l) \in T
    <2>0. PICK k : k = Append(i, l)
      OBVIOUS
    <2> SUFFICES ASSUME AllOk(k), \A n \in 1 .. Len(k) : Carries(k[n]) => k[n].ev.key \in C
                 PROVE  Replay(y, k) # Err /\ KeysWithin(Replay(y, k), C)
      BY <2>0, Growth
    <2>1. l.ok /\ (Carries(l) => l.ev.key \in C)
      <3>1. Len(i) + 1 \in 1 .. Len(k) /\ k[Len(i) + 1] = l
        BY <2>0, Growth
      <3> QED BY <3>1 DEF AllOk
    <2>2. AllOk(i) /\ \A n \in 1 .. Len(i) : Carries(i[n]) => i[n].ev.key \in C
      <3>1. \A n \in 1 .. Len(i) : n \in 1 .. Len(k) /\ k[n] = i[n]
        BY <2>0, Growth
      <3> QED BY <3>1 DEF AllOk
    <2>3. PICK Y : Y = Replay(y, i)
      OBVIOUS
    <2>4. Y # Err /\ KeysWithin(Y, C)
      BY <1>2, <2>2, <2>3
    <2>5. Y \in States
      BY <2>3, <2>4, ReplayAccepted DEF Accepted
    <2>6. l.ev \in Events
      BY <2>5, LineFacts
    <2>7. ValidEvent(Y, l.ev)
      BY <2>1, <2>4 DEF ValidEvent, KeysWithin, Carries
    <2>8. KeysWithin(Apply(Y, l.ev), C)
      <3> SUFFICES ASSUME NEW c \in C, NEW d \in Devices
                   PROVE  Apply(Y, l.ev).dev[d].key \in {None, c}
        BY DEF KeysWithin
      <3>1. Apply(Y, l.ev).dev[d].key = IF OnDevice(l.ev) /\ l.ev.dev = d THEN KeyAfter(Y.dev[d].key, l.ev)
                                        ELSE Y.dev[d].key
        BY <2>5, <2>6, KeysAfter
      <3>2. Y.dev[d].key \in {None, c}
        BY <2>4 DEF KeysWithin
      <3>3. CarriesKey(l.ev) => l.ev.key = c
        BY <2>1 DEF Carries
      <3> QED BY <3>1, <3>2, <3>3 DEF KeyAfter
    <2>9. Replay(y, k) = Apply(Y, l.ev) /\ Replay(y, k) # Err
      BY <2>0, <2>1, <2>3, <2>5, <2>7, ReplayAppend, LineFacts
    <2> QED BY <2>8, <2>9
  <1>3. Journals \subseteq T
    <2> HIDE DEF T
    <2> QED BY <1>1, <1>2, JournalInduction
  <1> QED BY <1>3

LEMMA RotatesIn ==
    ASSUME NEW j \in Journals
    PROVE  Rotates(j) <=> \E a, b \in 1 .. Len(j) : Carries(j[a]) /\ Carries(j[b]) /\ j[a].ev.key # j[b].ev.key
  <1>1. DOMAIN j = 1 .. Len(j)
    BY DEF Journals
  <1> QED BY <1>1 DEF Rotates, Carries

LEMMA RotatesGrows ==
    ASSUME NEW j \in Journals, NEW l \in LineSet, ~Rotates(Append(j, l))
    PROVE  ~Rotates(j)
  <1>1. PICK k \in Journals : k = Append(j, l)
    BY Growth
  <1>2. \A n \in 1 .. Len(j) : n \in 1 .. Len(k) /\ k[n] = j[n]
    BY <1>1, Growth
  <1> SUFFICES ASSUME Rotates(j) PROVE Rotates(k)
    BY <1>1
  <1>3. PICK a \in 1 .. Len(j), b \in 1 .. Len(j) :
          Carries(j[a]) /\ Carries(j[b]) /\ j[a].ev.key # j[b].ev.key
    BY RotatesIn
  <1>4. Carries(k[a]) /\ Carries(k[b]) /\ k[a].ev.key # k[b].ev.key
    BY <1>2, <1>3
  <1> QED BY <1>2, <1>4, RotatesIn

\* After a journal with one key no device holds another.
LEMMA ReplayKeys ==
    ASSUME NEW j \in Journals, NEW x \in States, Replay(x, j) # Err, ~Rotates(j)
    PROVE  \A n \in 1 .. Len(j) : Carries(j[n]) =>
             \A d \in Devices : Replay(x, j).dev[d].key \in {None, j[n].ev.key}
  <1> DEFINE Good(i) == Replay(x, i) # Err /\ ~Rotates(i) =>
               \A n \in 1 .. Len(i) : Carries(i[n]) =>
                 \A d \in Devices : Replay(x, i).dev[d].key \in {None, i[n].ev.key}
             T == {i \in Journals : Good(i)}
  <1>1. <<>> \in T
    BY DEF Journals
  <1>2. ASSUME NEW i \in Journals, NEW l \in LineSet, i \in T
        PROVE  Append(i, l) \in T
    <2>0. PICK k \in Journals : k = Append(i, l)
      BY Growth
    <2> SUFFICES ASSUME Replay(x, k) # Err, ~Rotates(k),
                        NEW n \in 1 .. Len(k), Carries(k[n]), NEW d \in Devices
                 PROVE  Replay(x, k).dev[d].key \in {None, k[n].ev.key}
      BY <2>0
    <2>1. PICK X : X = Replay(x, i)
      OBVIOUS
    <2>2. Replay(x, k) = ReplayLine(X, l)
      BY <2>0, <2>1, ReplayAppend
    <2>3. X \in States \cup {Err}
      BY <2>1, ReplayAccepted DEF Accepted
    <2>4. X \in States /\ X # Err
      BY <2>2, <2>3 DEF ReplayLine
    <2>5. l.ok /\ ValidEvent(X, l.ev) /\ l.ev \in Events /\ Replay(x, k) = Apply(X, l.ev)
      BY <2>2, <2>4, LineFacts
    <2>6. Replay(x, k).dev[d].key = IF OnDevice(l.ev) /\ l.ev.dev = d THEN KeyAfter(X.dev[d].key, l.ev)
                                    ELSE X.dev[d].key
      BY <2>4, <2>5, KeysAfter
    <2>7. Len(i) + 1 \in 1 .. Len(k) /\ k[Len(i) + 1] = l
      BY <2>0, Growth
    <2>8. CASE Carries(l)
      <3>1. k[n].ev.key = l.ev.key
        BY <2>7, <2>8, RotatesIn
      <3>2. X.dev[d].key \in {None, l.ev.key}
        BY <2>5, <2>8 DEF ValidEvent, Carries
      <3> QED BY <2>6, <3>1, <3>2 DEF KeyAfter
    <2>9. CASE ~Carries(l)
      <3>1. n \in 1 .. Len(i) /\ k[n] = i[n]
        BY <2>0, <2>7, <2>9, Growth
      <3>2. X.dev[d].key \in {None, i[n].ev.key}
        BY <1>2, <2>0, <2>1, <2>4, <3>1, RotatesGrows
      <3> QED BY <2>6, <2>9, <3>1, <3>2 DEF KeyAfter, Carries
    <2> QED BY <2>8, <2>9
  <1>3. Journals \subseteq T
    <2> HIDE DEF T
    <2> QED BY <1>1, <1>2, JournalInduction
  <1> QED BY <1>3

\* Events replayed over the state that already holds them give that state,
\* unless the group key changed in the journal and the state holds a key.
LEMMA ReplayAgain ==
    ASSUME NEW j \in Journals, NEW b \in States, NEW v \in States, Replay(b, j) = v
    PROVE  /\ Replay(v, j) \in {v, Err}
           /\ ~(Rotates(j) /\ \E d \in Devices : v.dev[d].key # None) => Replay(v, j) = v
  <1>1. v # Err
    BY FilesAssumption
  <1>2. CASE ~Rotates(j)
    <2> DEFINE C == {j[n].ev.key : n \in {m \in 1 .. Len(j) : Carries(j[m])}}
    <2>1. \A c, k \in C : c = k
      BY <1>2, RotatesIn
    <2>2. AllOk(j)
      BY <1>1, ReplayAccepted DEF Accepted
    <2>3. KeysWithin(v, C)
      BY <1>1, <1>2, ReplayKeys DEF KeysWithin
    <2>4. \A n \in 1 .. Len(j) : Carries(j[n]) => j[n].ev.key \in C
      OBVIOUS
    <2> HIDE DEF C
    <2> QED BY <2>1, <2>2, <2>3, <2>4, ReplayOneKey, ReplayTwice
  <1>3. CASE \A d \in Devices : v.dev[d].key = None
    <2>1. FewerKeys(v, b)
      BY <1>3 DEF FewerKeys
    <2> QED BY <1>1, <2>1, ReplayFewer, ReplayTwice
  <1> QED BY <1>2, <1>3, ReplayTwice

-----------------------------------------------------------------------------
(* The inductive invariant.                                                *)

Files == Journals \cup {None}
Phases == {"out", "reader", "idle", "append", "compact", "rebind", "initSnapshot", "initJournal"}
Views == [keys : Ids \cup {None}, st : States \cup {None}, match : BOOLEAN]
ProcRecords == [pc : Phases, view : Views, open : BOOLEAN, ev : Events,
                ret : 0 .. MaxSequence - 1, refused : BOOLEAN]

Types ==
    /\ keys \in Ids \cup {None} /\ snap \in States \cup {None} /\ jnl \in Files
    /\ holder \in Procs \cup {None}
    /\ proc \in [Procs -> ProcRecords]
    /\ sent \in SUBSET (1 .. MaxSequence - 1)
    /\ owed \in {"no", "marked", "begun"}

\* Only the holder of the lock is past into_writer.
OneWriter == \A p \in Procs : proc[p].pc \notin {"out", "reader"} <=> holder = p

\* What is lost with the state is not owed; the snapshot is one that load_state
\* accepts; the floor a replay gives is above every number handed out; and a
\* journal written since recovery began ends in recovery, over the snapshot as
\* over any state in recovery that a compaction may put in its place.
DiskOk(s, j, S, o) ==
    /\ s = None => S = {} /\ o # "begun"
    /\ s # None => SnapshotConsistent(s)
    /\ Load(s, j) \notin {None, Err} => \A n \in S : n < Load(s, j).next
    /\ o = "begun" => \A r \in States :
         (r = s \/ r.recovery) /\ Replay(r, Lines(j)) # Err => Replay(r, Lines(j)).recovery

\* What the writer holds in memory covers the same promises.
MemoryOk(v, S, o) ==
    /\ SnapshotConsistent(v)
    /\ \A n \in S : n < v.next
    /\ o = "begun" => v.recovery

\* Each phase of an operation: what was validated, and what the disk holds.
PhaseOk(x, k, s, j, S, o) ==
    /\ x.open => j # None /\ s # None /\ x.view.st # None
    /\ x.view.st # None => MemoryOk(x.view.st, S, o)
    /\ x.view.st = None => S = {} /\ o # "begun" /\ (k = None => s = None)
    /\ x.pc = "append" => /\ x.open /\ ValidEvent(x.view.st, x.ev)
                          /\ x.ret = 0 \/ (x.ret = x.view.st.next /\ x.ev = Advance(x.ret + 1))
                          /\ o = "begun" => x.ev # Complete
    /\ x.pc = "compact" => s = x.view.st /\ s # None
    /\ x.pc = "rebind" => /\ x.view.keys \in Ids /\ s = BlankState(x.view.keys)
                          /\ S = {} /\ o = "marked" /\ ~x.open
    /\ x.pc = "initSnapshot" => x.view.keys \in Ids /\ x.view.st = None /\ s = None /\ k # None
    /\ x.pc = "initJournal" => /\ x.view.keys \in Ids /\ x.view.st = None
                               /\ s = NewState(x.view.keys)

\* The writer's state is the replay of the journal over some state, and the
\* one a reload gives, unless a line is spoiled or the key changed.
MirrorOk(v, s, j) ==
    /\ s # None
    /\ AllOk(Lines(j)) => \E b \in States : Replay(b, Lines(j)) = v
    /\ Load(s, j) \in {v, Err}
    /\ AllOk(Lines(j)) /\ ~(Rotates(Lines(j)) /\ \E d \in Devices : s.dev[d].key # None)
         => Load(s, j) = v

Clean(x, o) == x.view.st # None /\ ~x.refused /\ (x.open \/ o # "marked")

WriterOk(x, k, s, j, S, o) ==
    /\ PhaseOk(x, k, s, j, S, o)
    /\ Clean(x, o) => MirrorOk(x.view.st, s, j)

\* A reader has reported nothing.
ReaderOk(x) == x.pc \in {"out", "reader"} => ~x.refused

ProjectInv ==
    /\ Types
    /\ OneWriter
    /\ DiskOk(snap, jnl, sent, owed)
    /\ \A p \in Procs : holder = p => WriterOk(proc[p], keys, snap, jnl, sent, owed)
    /\ \A p \in Procs : ReaderOk(proc[p])

-----------------------------------------------------------------------------
(* Loading.                                                                *)

LEMMA LoadFacts ==
    ASSUME NEW s \in States \cup {None}, NEW j \in Files
    PROVE  /\ Lines(j) \in Journals
           /\ Load(s, j) \in States \cup {None, Err}
           /\ Load(s, j) = None <=> s = None /\ j = None
           /\ s = None => Load(s, j) \in {None, Err}
           /\ s # None /\ SnapshotConsistent(s) => Load(s, j) = Replay(s, Lines(j))
           /\ Load(s, j) \in States => s \in States /\ Load(s, j) = Replay(s, Lines(j))
           /\ ~AllOk(Lines(j)) => Load(s, j) = Err \/ Load(s, j) = None
  <1>1. Lines(j) \in Journals
    BY DEF Lines, Files, Journals
  <1>2. None # Err /\ None \notin States /\ Err \notin States
    BY ConstantsAssumption, FilesAssumption
  <1>3. CASE s = None /\ j = None
    <2>1. Load(s, j) = None
      BY <1>3 DEF Load
    <2> QED BY <1>1, <1>2, <1>3, <2>1
  <1>4. CASE s = None /\ j # None
    <2>1. Load(s, j) = Err
      BY <1>4 DEF Load
    <2> QED BY <1>1, <1>2, <1>4, <2>1
  <1>5. CASE s \in States /\ ~SnapshotConsistent(s)
    <2>1. Load(s, j) = Err
      BY <1>2, <1>5 DEF Load
    <2> QED BY <1>1, <1>2, <1>5, <2>1
  <1>6. CASE s \in States /\ SnapshotConsistent(s)
    <2>1. Load(s, j) = Replay(s, Lines(j))
      BY <1>2, <1>6 DEF Load
    <2>2. Replay(s, Lines(j)) \in States \cup {Err} /\ (Replay(s, Lines(j)) # Err => AllOk(Lines(j)))
      BY <1>1, <1>6, ReplayAccepted DEF Accepted
    <2> QED BY <1>1, <1>2, <1>6, <2>1, <2>2
  <1> QED BY <1>3, <1>4, <1>5, <1>6

\* What a program that opens or reloads the project now would hold.
LEMMA LoadedOk ==
    ASSUME NEW s \in States \cup {None}, NEW j \in Files, NEW S, NEW o,
           DiskOk(s, j, S, o), Load(s, j) \in States
    PROVE  /\ s \in States /\ SnapshotConsistent(s) /\ Load(s, j).id = s.id
           /\ MemoryOk(Load(s, j), S, o)
           /\ MirrorOk(Load(s, j), s, j)
  <1>1. PICK d \in States : d = Load(s, j)
    OBVIOUS
  <1>2. None # Err /\ None \notin States /\ Err \notin States
    BY ConstantsAssumption, FilesAssumption
  <1>3. s \in States /\ d = Replay(s, Lines(j)) /\ Lines(j) \in Journals
    BY <1>1, LoadFacts
  <1>4. SnapshotConsistent(s)
    BY <1>2, <1>3 DEF DiskOk
  <1>5. d.id = s.id /\ SnapshotConsistent(d)
    BY <1>2, <1>3, <1>4, ReplayAccepted DEF Accepted
  <1>6. \A n \in S : n < d.next
    BY <1>1, <1>2 DEF DiskOk
  <1>7. o = "begun" => d.recovery
    BY <1>2, <1>3 DEF DiskOk
  <1>8. MirrorOk(d, s, j)
    BY <1>1, <1>2, <1>3 DEF MirrorOk
  <1> QED BY <1>1, <1>3, <1>4, <1>5, <1>6, <1>7, <1>8 DEF MemoryOk

-----------------------------------------------------------------------------
(* Writing.                                                                *)

\* What may be in the file after the event e was written, whole or in part.
Grown(i, j, e) ==
    \/ i = j
    \/ ~AllOk(i)
    \/ \E l \in LineSet : l.ok /\ l.ev = e /\ i = Append(j, l)

LEMMA WrittenCases ==
    ASSUME NEW j \in Journals, NEW l \in LineSet
    PROVE  /\ Written(j, l) \in Journals
           /\ Written(j, l) = Append(j, l) \/ ~AllOk(Written(j, l))
           /\ ~l.ok => ~AllOk(Written(j, l))
  <1>1. CASE Unterminated(j)
    <2>1. PICK g : g = Garbage(l.nl)
      OBVIOUS
    <2>2. g \in LineSet /\ ~g.ok
      BY <2>1 DEF Garbage, LineSet, Events
    <2>3. Len(j) \in 1 .. Len(j) /\ j # <<>>
      BY <1>1 DEF Unterminated, Journals
    <2>4. Written(j, l) = [j EXCEPT ![Len(j)] = g]
      BY <1>1, <2>1 DEF Written
    <2>5. PICK w : w = [j EXCEPT ![Len(j)] = g]
      OBVIOUS
    <2>6. w \in Seq(LineSet) /\ Len(w) = Len(j) /\ w[Len(j)] = g
      BY <2>2, <2>3, <2>5 DEF Journals
    <2>7. ~AllOk(w)
      BY <2>2, <2>3, <2>6 DEF AllOk
    <2> QED BY <2>4, <2>5, <2>6, <2>7 DEF Journals
  <1>2. CASE ~Unterminated(j)
    <2>1. Written(j, l) = Append(j, l)
      BY <1>2 DEF Written
    <2>2. Append(j, l) \in Journals /\ Len(j) + 1 \in 1 .. Len(Append(j, l)) /\ Append(j, l)[Len(j) + 1] = l
      BY Growth
    <2> QED BY <2>1, <2>2 DEF AllOk
  <1> QED BY SMTT(30), <1>1, <1>2

LEMMA LineOk ==
    ASSUME NEW e \in Events
    PROVE  Line(e) \in LineSet /\ Line(e).ok /\ Line(e).ev = e
  BY DEF Line, LineSet

LEMMA PartialCases ==
    ASSUME NEW j \in Journals, NEW e \in Events, NEW i \in Partial(j, e)
    PROVE  i \in Journals /\ Grown(i, j, e)
  <1>1. PICK a : a = Garbage(FALSE)
    OBVIOUS
  <1>2. PICK b : b = [Line(e) EXCEPT !.nl = FALSE]
    OBVIOUS
  <1>3. PICK c : c = Line(e)
    OBVIOUS
  <1>4. a \in LineSet /\ ~a.ok
    BY <1>1 DEF Garbage, LineSet, Events
  <1>5. b \in LineSet /\ b.ok /\ b.ev = e
    BY <1>2 DEF Line, LineSet
  <1>6. c \in LineSet /\ c.ok /\ c.ev = e
    BY <1>3, LineOk
  <1>7. i \in {j, Written(j, a), Written(j, b), Written(j, c)}
    BY <1>1, <1>2, <1>3 DEF Partial
  <1>8. CASE i = j
    BY <1>8 DEF Grown
  <1>9. CASE i = Written(j, a)
    BY <1>4, <1>9, WrittenCases DEF Grown
  <1>10. CASE i = Written(j, b)
    BY <1>5, <1>10, WrittenCases DEF Grown
  <1>11. CASE i = Written(j, c)
    BY <1>6, <1>11, WrittenCases DEF Grown
  <1> QED BY <1>7, <1>8, <1>9, <1>10, <1>11

\* A load after one more event.
LEMMA LoadGrown ==
    ASSUME NEW s \in States \cup {None}, NEW j \in Journals, NEW i \in Journals,
           NEW e \in Events, Grown(i, j, e), Load(s, i) \in States
    PROVE  /\ Load(s, j) \in States
           /\ Load(s, i) = Load(s, j) \/ (ValidEvent(Load(s, j), e) /\ Load(s, i) = Apply(Load(s, j), e))
  <1>0. None # Err /\ None \notin States /\ Err \notin States /\ i \in Files /\ j \in Files
    BY ConstantsAssumption, FilesAssumption DEF Files
  <1>1. Lines(i) = i /\ Lines(j) = j
    BY FilesAssumption DEF Lines, Journals
  <1>2. s \in States /\ Load(s, i) = Replay(s, i)
    BY <1>0, <1>1, LoadFacts
  <1>3. SnapshotConsistent(s)
    BY <1>0, <1>2 DEF Load
  <1>4. Load(s, j) = Replay(s, j)
    BY <1>0, <1>1, <1>2, <1>3, LoadFacts
  <1>5. AllOk(i)
    BY <1>0, <1>2, ReplayAccepted DEF Accepted
  <1>6. CASE i = j
    BY <1>6
  <1>7. ASSUME NEW l \in LineSet, l.ev = e, i = Append(j, l)
        PROVE  Load(s, j) \in States /\ ValidEvent(Load(s, j), e) /\ Load(s, i) = Apply(Load(s, j), e)
    <2>1. PICK r : r = Replay(s, j)
      OBVIOUS
    <2>2. r \in States \cup {Err}
      BY <1>2, <2>1, ReplayAccepted DEF Accepted
    <2>3. Replay(s, i) = ReplayLine(r, l)
      BY <1>7, <2>1, ReplayAppend
    <2>4. r \in States
      BY <1>0, <1>2, <2>2, <2>3 DEF ReplayLine
    <2>5. ValidEvent(r, e) /\ ReplayLine(r, l) = Apply(r, e)
      BY <1>0, <1>2, <1>7, <2>3, <2>4, LineFacts
    <2> QED BY <1>2, <1>4, <2>1, <2>3, <2>4, <2>5
  <1> QED BY <1>5, <1>6, <1>7 DEF Grown

\* Events raise the client floor or leave it; only a completion ends recovery.
LEMMA ApplyBounds ==
    ASSUME NEW s \in States, NEW e \in Events
    PROVE  /\ s.next \in Nat /\ Apply(s, e).next \in Nat /\ Apply(s, e).next >= s.next
           /\ e.t = "advance" => e.n \in Nat /\ Apply(s, e).next >= e.n
           /\ s.recovery /\ e # Complete => Apply(s, e).recovery
           /\ e = Begin => Apply(s, e).recovery
  <1>1. /\ Apply(s, e) \in States
        /\ Apply(s, e).next = IF e.t = "advance" THEN Larger(s.next, e.n) ELSE s.next
        /\ Apply(s, e).recovery = (IF e.t = "begin" THEN TRUE
                                   ELSE IF e.t = "complete" THEN FALSE ELSE s.recovery)
    BY ApplyFields
  <1>2. s.next \in Nat /\ Apply(s, e).next \in Nat
    BY <1>1 DEF States
  <1>3. e.t = "advance" => e.n \in Nat
    BY EventKinds DEF OnDevice
  <1>4. Apply(s, e).next >= s.next /\ (e.t = "advance" => Apply(s, e).next >= e.n)
    BY <1>1, <1>2, <1>3 DEF Larger
  <1>5. (e.t = "complete" => e = Complete) /\ (e = Begin => e.t = "begin")
    BY EventKinds DEF OnDevice, Begin
  <1> QED BY <1>1, <1>2, <1>3, <1>4, <1>5

LEMMA RecoveryGrown ==
    ASSUME NEW r \in States, NEW j \in Journals, NEW l \in LineSet,
           Replay(r, Append(j, l)) # Err
    PROVE  /\ Replay(r, j) \in States
           /\ Replay(r, j).recovery /\ l.ev # Complete => Replay(r, Append(j, l)).recovery
           /\ l.ev = Begin => Replay(r, Append(j, l)).recovery
  <1>1. PICK q : q = Replay(r, j)
    OBVIOUS
  <1>2. Replay(r, Append(j, l)) = ReplayLine(q, l)
    BY <1>1, ReplayAppend
  <1>3. q \in States \cup {Err}
    BY <1>1, ReplayAccepted DEF Accepted
  <1>4. q \in States
    BY <1>2, <1>3 DEF ReplayLine
  <1>5. l.ev \in Events /\ ReplayLine(q, l) = Apply(q, l.ev)
    BY <1>2, <1>4, LineFacts
  <1> QED BY <1>1, <1>2, <1>4, <1>5, ApplyBounds

LEMMA NotOkFails ==
    ASSUME NEW r \in States, NEW i \in Journals, ~AllOk(i)
    PROVE  Replay(r, i) = Err
  BY ReplayAccepted DEF Accepted

\* A write that was cut short, or a crash after it, keeps what the disk promises.
LEMMA DiskGrows ==
    ASSUME NEW s \in States \cup {None}, NEW j \in Journals, NEW i \in Journals,
           NEW e \in Events, NEW S \in SUBSET Nat, NEW o,
           DiskOk(s, j, S, o), Grown(i, j, e), o = "begun" => e # Complete
    PROVE  DiskOk(s, i, S, o)
  <1>0. None # Err /\ None \notin States /\ Err \notin States /\ i \in Files /\ j \in Files
    BY ConstantsAssumption, FilesAssumption DEF Files
  <1>1. Lines(i) = i /\ Lines(j) = j
    BY FilesAssumption DEF Lines, Journals
  <1>2. ASSUME Load(s, i) \notin {None, Err}, NEW n \in S
        PROVE  n < Load(s, i).next
    <2>1. Load(s, i) \in States
      BY <1>0, <1>2, LoadFacts
    <2>2. PICK d : d = Load(s, j)
      OBVIOUS
    <2>3. d \in States /\ (Load(s, i) = d \/ Load(s, i) = Apply(d, e))
      BY <2>1, <2>2, LoadGrown
    <2>4. n < d.next /\ n \in Nat
      BY <1>0, <2>2, <2>3 DEF DiskOk
    <2>5. d.next \in Nat /\ Apply(d, e).next \in Nat /\ Apply(d, e).next >= d.next
      BY <2>3, ApplyBounds
    <2> QED BY <2>3, <2>4, <2>5
  <1>3. ASSUME o = "begun", NEW r \in States, r = s \/ r.recovery, Replay(r, Lines(i)) # Err
        PROVE  Replay(r, Lines(i)).recovery
    <2>1. Replay(r, i) # Err
      BY <1>1, <1>3
    <2>2. Replay(r, j) # Err => Replay(r, j).recovery
      BY <1>1, <1>3 DEF DiskOk
    <2>3. CASE i = j
      BY <1>1, <2>1, <2>2, <2>3
    <2>4. ASSUME NEW l \in LineSet, l.ev = e, i = Append(j, l)
          PROVE  Replay(r, i).recovery
      <3>1. Replay(r, j) \in States /\ (Replay(r, j).recovery => Replay(r, i).recovery)
        BY <1>3, <2>1, <2>4, RecoveryGrown
      <3> QED BY <1>0, <2>2, <3>1
    <2>5. AllOk(i)
      BY <2>1, NotOkFails
    <2> QED BY <1>1, <2>3, <2>4, <2>5 DEF Grown
  <1> QED BY <1>2, <1>3 DEF DiskOk

\* A journalled event: the number it reserves is below the new floor, and a
\* recovery that begins is on the disk.
LEMMA DiskAppended ==
    ASSUME NEW s \in States, NEW j \in Journals, NEW e \in Events,
           NEW S \in SUBSET Nat, NEW R \in SUBSET Nat, NEW o,
           DiskOk(s, j, S, o), o = "begun" => e # Complete,
           \A n \in R : e = Advance(n + 1)
    PROVE  DiskOk(s, Written(j, Line(e)), S \cup R, IF e = Begin THEN "begun" ELSE o)
  <1>0. None # Err /\ None \notin States /\ Err \notin States
    BY ConstantsAssumption, FilesAssumption
  <1>1. PICK l \in LineSet : l = Line(e) /\ l.ok /\ l.ev = e
    BY LineOk
  <1>2. PICK i \in Journals : i = Written(j, l) /\ (i = Append(j, l) \/ ~AllOk(i))
    BY WrittenCases
  <1>3. Lines(i) = i /\ Lines(j) = j /\ i \in Files
    BY FilesAssumption DEF Lines, Journals, Files
  <1>4. Grown(i, j, e)
    BY <1>1, <1>2 DEF Grown
  <1>5. DiskOk(s, i, S, o)
    BY <1>4, DiskGrows
  <1>6. ASSUME Load(s, i) \notin {None, Err}, NEW n \in R
        PROVE  n < Load(s, i).next
    <2>1. Load(s, i) \in States
      BY <1>3, <1>6, LoadFacts
    <2>2. Load(s, i) = Replay(s, i)
      BY <1>3, <2>1, LoadFacts
    <2>3. i = Append(j, l)
      BY <1>0, <1>2, <2>1, <2>2, NotOkFails
    <2>4. PICK q : q = Replay(s, j)
      OBVIOUS
    <2>5. Replay(s, i) = ReplayLine(q, l)
      BY <2>3, <2>4, ReplayAppend
    <2>6. q \in States
      <3>1. q \in States \cup {Err}
        BY <2>4, ReplayAccepted DEF Accepted
      <3> QED BY <1>0, <2>1, <2>2, <2>5, <3>1 DEF ReplayLine
    <2>7. Load(s, i) = Apply(q, e)
      BY <1>0, <1>1, <2>1, <2>2, <2>5, <2>6, LineFacts
    <2>8. e.t = "advance" /\ e.n = n + 1
      BY DEF Advance
    <2>9. Apply(q, e).next >= n + 1 /\ Apply(q, e).next \in Nat
      BY <2>6, <2>8, ApplyBounds
    <2>10. n \in Nat
      OBVIOUS
    <2> QED BY <2>7, <2>9, <2>10
  <1>7. ASSUME e = Begin, NEW r \in States, Replay(r, i) # Err
        PROVE  Replay(r, i).recovery
    <2>1. i = Append(j, l)
      BY <1>2, <1>7, NotOkFails
    <2> QED BY <1>1, <1>7, <2>1, RecoveryGrown
  <1>8. s # None
    BY <1>0
  <1>9. \A n \in S \cup R : Load(s, i) \notin {None, Err} => n < Load(s, i).next
    BY <1>5, <1>6 DEF DiskOk
  <1>10. SnapshotConsistent(s)
    BY <1>5, <1>8 DEF DiskOk
  <1>11. CASE e = Begin
    <2>1. DiskOk(s, i, S \cup R, "begun")
      BY <1>3, <1>7, <1>8, <1>9, <1>10, <1>11 DEF DiskOk
    <2> QED BY <1>1, <1>2, <1>11, <2>1
  <1>12. CASE e # Begin
    <2>1. DiskOk(s, i, S \cup R, o)
      BY <1>5, <1>8, <1>9, <1>10 DEF DiskOk
    <2> QED BY <1>1, <1>2, <1>12, <2>1
  <1> QED BY <1>11, <1>12

\* The writer's state as the snapshot, under the old journal or an empty one.
LEMMA DiskCompacted ==
    ASSUME NEW s \in States \cup {None}, NEW j \in Files, NEW v \in States,
           NEW S \in SUBSET Nat, NEW o, DiskOk(s, j, S, o), MemoryOk(v, S, o)
    PROVE  DiskOk(v, j, S, o)
  <1>0. None # Err /\ None \notin States /\ Err \notin States
    BY ConstantsAssumption, FilesAssumption
  <1>1. ASSUME Load(v, j) \notin {None, Err}, NEW n \in S
        PROVE  n < Load(v, j).next
    <2>1. Load(v, j) \in States
      BY <1>1, LoadFacts
    <2>2. Load(v, j) = Replay(v, Lines(j)) /\ Lines(j) \in Journals
      BY <2>1, LoadFacts
    <2>3. Replay(v, Lines(j)).next >= v.next
      BY <1>0, <2>1, <2>2, ReplayAccepted DEF Accepted
    <2>4. n < v.next /\ n \in Nat /\ v.next \in Nat /\ Load(v, j).next \in Nat
      BY <2>1 DEF MemoryOk, States
    <2> QED BY <2>2, <2>3, <2>4
  <1>2. ASSUME o = "begun", NEW r \in States, r = v \/ r.recovery, Replay(r, Lines(j)) # Err
        PROVE  Replay(r, Lines(j)).recovery
    <2>1. r.recovery
      BY <1>2 DEF MemoryOk
    <2> QED BY <1>2, <2>1 DEF DiskOk
  <1> QED BY <1>0, <1>1, <1>2 DEF DiskOk, MemoryOk

LEMMA DiskFresh ==
    ASSUME NEW v \in States, NEW S, NEW o, MemoryOk(v, S, o)
    PROVE  DiskOk(v, <<>>, S, o) /\ MirrorOk(v, v, <<>>) /\ Load(v, <<>>) = v
  <1>0. None # Err /\ None \notin States /\ Err \notin States
    BY ConstantsAssumption, FilesAssumption
  <1>1. <<>> \in Files /\ Lines(<<>>) = <<>> /\ AllOk(<<>>)
    BY FilesAssumption DEF Files, Journals, Lines, AllOk
  <1>2. Load(v, <<>>) = v
    BY <1>0, <1>1, LoadFacts, ReplayEmpty DEF MemoryOk
  <1>3. DiskOk(v, <<>>, S, o)
    BY <1>0, <1>1, <1>2, ReplayEmpty DEF DiskOk, MemoryOk
  <1>4. MirrorOk(v, v, <<>>)
    BY <1>0, <1>1, <1>2, ReplayEmpty DEF MirrorOk
  <1> QED BY <1>2, <1>3, <1>4

LEMMA MirrorCompacted ==
    ASSUME NEW s, NEW j \in Files, NEW v \in States, SnapshotConsistent(v), MirrorOk(v, s, j)
    PROVE  MirrorOk(v, v, j)
  <1>0. None # Err /\ None \notin States /\ Err \notin States
    BY ConstantsAssumption, FilesAssumption
  <1>1. Lines(j) \in Journals /\ Load(v, j) = Replay(v, Lines(j))
    BY <1>0, LoadFacts
  <1>2. CASE ~AllOk(Lines(j))
    BY <1>0, <1>1, <1>2, NotOkFails DEF MirrorOk
  <1>3. CASE AllOk(Lines(j))
    <2>1. PICK b \in States : Replay(b, Lines(j)) = v
      BY <1>3 DEF MirrorOk
    <2> QED BY <1>0, <1>1, <1>3, <2>1, ReplayAgain DEF MirrorOk
  <1> QED BY <1>2, <1>3

LEMMA MirrorAppended ==
    ASSUME NEW s \in States, NEW j \in Journals, NEW v \in States, NEW e \in Events,
           SnapshotConsistent(s), MirrorOk(v, s, j), ValidEvent(v, e)
    PROVE  MirrorOk(Apply(v, e), s, Written(j, Line(e)))
  <1>0. None # Err /\ None \notin States /\ Err \notin States
    BY ConstantsAssumption, FilesAssumption
  <1>1. PICK l \in LineSet : l = Line(e) /\ l.ok /\ l.ev = e
    BY LineOk
  <1>2. PICK i \in Journals : i = Written(j, l) /\ (i = Append(j, l) \/ ~AllOk(i))
    BY WrittenCases
  <1>3. Lines(i) = i /\ Lines(j) = j /\ i \in Files /\ j \in Files
    BY FilesAssumption DEF Lines, Journals, Files
  <1>4. Load(s, i) = Replay(s, i) /\ Load(s, j) = Replay(s, j)
    BY <1>0, <1>3, LoadFacts
  <1>5. PICK w : w = Apply(v, e)
    OBVIOUS
  <1>6. CASE ~AllOk(i)
    <2>1. Load(s, i) = Err
      BY <1>4, <1>6, NotOkFails
    <2>2. MirrorOk(w, s, i)
      BY <1>0, <1>3, <1>6, <2>1 DEF MirrorOk
    <2> QED BY <1>1, <1>2, <1>5, <2>2
  <1>7. CASE AllOk(i)
    <2>1. i = Append(j, l)
      BY <1>2, <1>7
    <2>2. AllOk(j)
      BY <1>7, <2>1, Growth DEF AllOk
    <2>3. ReplayLine(v, l) = w
      BY <1>1, <1>5, LineFacts
    <2>4. ReplayLine(Err, l) = Err
      BY LineFacts
    <2>5. PICK b \in States : Replay(b, j) = v
      BY <1>3, <2>2 DEF MirrorOk
    <2>6. Replay(b, i) = w
      BY <2>1, <2>3, <2>5, ReplayAppend
    <2>7. Replay(s, j) \in {v, Err}
      BY <1>4 DEF MirrorOk
    <2>8. Replay(s, i) = ReplayLine(Replay(s, j), l)
      BY <2>1, ReplayAppend
    <2>9. Load(s, i) \in {w, Err}
      BY <1>4, <2>3, <2>4, <2>7, <2>8
    <2>10. ASSUME ~(Rotates(i) /\ \E d \in Devices : s.dev[d].key # None)
           PROVE  Load(s, i) = w
      <3>1. ~(Rotates(j) /\ \E d \in Devices : s.dev[d].key # None)
        BY <2>1, <2>10, RotatesGrows
      <3>2. Load(s, j) = v
        BY <1>3, <2>2, <3>1 DEF MirrorOk
      <3> QED BY <1>4, <2>3, <2>8, <3>2
    <2>11. MirrorOk(w, s, i)
      BY <1>0, <1>3, <2>6, <2>9, <2>10 DEF MirrorOk
    <2> QED BY <1>1, <1>2, <1>5, <2>11
  <1> QED BY <1>6, <1>7

-----------------------------------------------------------------------------
(* Steps.                                                                  *)

LEMMA RecIs ==
    ASSUME NEW y \in ProcRecords
    PROVE  /\ y.pc \in Phases /\ y.view \in Views /\ y.open \in BOOLEAN /\ y.ev \in Events
           /\ y.ret \in 0 .. MaxSequence - 1 /\ y.refused \in BOOLEAN
           /\ y.view.keys \in Ids \cup {None} /\ y.view.st \in States \cup {None}
           /\ y.view.match \in BOOLEAN
  BY DEF ProcRecords, Views

LEMMA ViewIn ==
    ASSUME NEW k \in Ids \cup {None}, NEW s \in States \cup {None}
    PROVE  View(k, s) \in Views /\ View(k, s).keys = k /\ View(k, s).st = s
  BY DEF View, Views

LEMMA OutIs == Out \in ProcRecords /\ Out.pc = "out" /\ Out.refused = FALSE
  <1>1. /\ "out" \in Phases /\ View(None, None) \in Views /\ FALSE \in BOOLEAN
        /\ Begin \in Events /\ 0 \in 0 .. MaxSequence - 1
    BY ViewIn, ConstantsAssumption DEF Phases, Events
  <1> QED BY <1>1 DEF Out, ProcRecords

LEMMA StateIn ==
    ASSUME NEW id \in Ids
    PROVE  /\ NewState(id) \in States /\ BlankState(id) \in States
           /\ NewState(id).id = id /\ BlankState(id).id = id
           /\ SnapshotConsistent(NewState(id)) /\ SnapshotConsistent(BlankState(id))
           /\ BlankState(id).recovery = TRUE
  <1>1. FactoryDeployment \in Deployments /\ FactoryDeployment.key = None
    BY DEF FactoryDeployment, Deployments
  <1>2. PICK f : f = [d \in Devices |-> FactoryDeployment]
    OBVIOUS
  <1>3. f \in [Devices -> Deployments] /\ \A d \in Devices : f[d].key = None
    BY <1>1, <1>2
  <1>4. NewState(id) = [id |-> id, recovery |-> FALSE, next |-> 1, dev |-> f]
    BY <1>2 DEF NewState
  <1>5. 1 \in 1 .. MaxSequence /\ TRUE \in BOOLEAN /\ FALSE \in BOOLEAN
    BY ConstantsAssumption
  <1>6. NewState(id) \in States
    BY <1>3, <1>4, <1>5 DEF States
  <1>7. /\ BlankState(id) \in States /\ BlankState(id).id = id /\ BlankState(id).dev = f
        /\ BlankState(id).recovery = TRUE
    <2>1. PICK n \in States : n = NewState(id) /\ n.id = id /\ n.dev = f
      BY <1>4, <1>6
    <2>2. PICK b : b = [n EXCEPT !.recovery = TRUE]
      OBVIOUS
    <2>3. b \in States /\ b.id = id /\ b.dev = f /\ b.recovery = TRUE
      BY <2>1, <2>2 DEF States
    <2> QED BY <2>1, <2>2, <2>3 DEF BlankState
  <1>8. SnapshotConsistent(NewState(id)) /\ SnapshotConsistent(BlankState(id))
    BY <1>3, <1>4, <1>7 DEF SnapshotConsistent
  <1> QED BY <1>4, <1>6, <1>7, <1>8

\* One process moves; while another holds the lock it touches no file.
LEMMA StepInv ==
    ASSUME ProjectInv, NEW p \in Procs, NEW x \in ProcRecords,
           proc' = [q \in Procs |-> proc'[q]],
           \A q \in Procs : proc'[q] = IF q = p THEN x ELSE proc[q],
           holder' \in Procs \cup {None},
           x.pc \notin {"out", "reader"} <=> holder' = p,
           \A q \in Procs \ {p} : holder' = q <=> holder = q,
           ReaderOk(x),
           keys' \in Ids \cup {None}, snap' \in States \cup {None}, jnl' \in Files,
           sent' \in SUBSET (1 .. MaxSequence - 1), owed' \in {"no", "marked", "begun"},
           DiskOk(snap', jnl', sent', owed'),
           holder' = p => WriterOk(x, keys', snap', jnl', sent', owed'),
           \A q \in Procs \ {p} : holder = q =>
             keys' = keys /\ snap' = snap /\ jnl' = jnl /\ sent' = sent /\ owed' = owed
    PROVE  ProjectInv'
  <1>1. proc' \in [Procs -> ProcRecords]
    BY DEF ProjectInv, Types
  <1>2. Types'
    BY <1>1 DEF Types
  <1>3. OneWriter'
    BY DEF OneWriter, ProjectInv
  <1>4. ASSUME NEW q \in Procs, holder' = q
        PROVE  WriterOk(proc'[q], keys', snap', jnl', sent', owed')
    <2>1. CASE q = p
      BY <1>4, <2>1
    <2>2. CASE q # p
      <3>1. /\ holder = q /\ proc'[q] = proc[q] /\ keys' = keys /\ snap' = snap /\ jnl' = jnl
            /\ sent' = sent /\ owed' = owed
        BY <1>4, <2>2
      <3>2. WriterOk(proc[q], keys, snap, jnl, sent, owed)
        BY <3>1 DEF ProjectInv
      <3> QED BY <3>1, <3>2
    <2> QED BY <2>1, <2>2
  <1>5. \A q \in Procs : ReaderOk(proc'[q])
    BY DEF ProjectInv
  <1> QED BY <1>2, <1>3, <1>4, <1>5 DEF ProjectInv

\* What a writer may rely on.
LEMMA WriterFacts ==
    ASSUME ProjectInv, NEW p \in Procs, proc[p].pc \notin {"out", "reader"}
    PROVE  /\ holder = p /\ p # None
           /\ proc[p] \in ProcRecords
           /\ PhaseOk(proc[p], keys, snap, jnl, sent, owed)
           /\ Clean(proc[p], owed) => MirrorOk(proc[p].view.st, snap, jnl)
           /\ DiskOk(snap, jnl, sent, owed)
           /\ keys \in Ids \cup {None} /\ snap \in States \cup {None} /\ jnl \in Files
           /\ sent \in SUBSET (1 .. MaxSequence - 1) /\ sent \in SUBSET Nat
           /\ owed \in {"no", "marked", "begun"}
           /\ None # Err /\ None \notin States /\ Err \notin States
  <1>1. holder = p
    BY DEF ProjectInv, OneWriter
  <1>2. proc[p] \in ProcRecords
    BY DEF ProjectInv, Types
  <1>3. WriterOk(proc[p], keys, snap, jnl, sent, owed)
    BY <1>1 DEF ProjectInv
  <1>4. p # None /\ None # Err /\ None \notin States /\ Err \notin States
    BY ConstantsAssumption, FilesAssumption
  <1>5. 1 .. MaxSequence - 1 \subseteq Nat
    BY ConstantsAssumption
  <1> QED BY <1>1, <1>2, <1>3, <1>4, <1>5 DEF WriterOk, ProjectInv, Types

\* The writer takes a step of an operation.
LEMMA WriterStep ==
    ASSUME ProjectInv, NEW p \in Procs, proc[p].pc \notin {"out", "reader"},
           NEW x \in ProcRecords, x.pc \notin {"out", "reader"},
           proc' = [proc EXCEPT ![p] = x], holder' = holder,
           keys' \in Ids \cup {None}, snap' \in States \cup {None}, jnl' \in Files,
           sent' \in SUBSET (1 .. MaxSequence - 1), owed' \in {"no", "marked", "begun"},
           DiskOk(snap', jnl', sent', owed'),
           WriterOk(x, keys', snap', jnl', sent', owed')
    PROVE  ProjectInv'
  <1>1. holder = p /\ p # None
    BY WriterFacts
  <1>2. proc \in [Procs -> ProcRecords]
    BY DEF ProjectInv, Types
  <1>3. /\ proc' = [q \in Procs |-> proc'[q]]
        /\ \A q \in Procs : proc'[q] = IF q = p THEN x ELSE proc[q]
    BY <1>2
  <1>4. ReaderOk(x)
    BY DEF ReaderOk
  <1> QED BY <1>1, <1>3, <1>4, StepInv

LEMMA CompactSnapshotInv ==
    ASSUME ProjectInv, NEW p \in Procs, CompactSnapshot(p)
    PROVE  ProjectInv'
  <1>1. PICK y : y = proc[p]
    OBVIOUS
  <1>2. /\ y.pc = "idle" /\ y.view.st # None /\ snap' = y.view.st
        /\ proc' = [proc EXCEPT ![p] = [y EXCEPT !.pc = "compact"]]
        /\ keys' = keys /\ jnl' = jnl /\ holder' = holder /\ sent' = sent /\ owed' = owed
    BY <1>1 DEF CompactSnapshot, Ghosts
  <1>3. /\ y \in ProcRecords /\ PhaseOk(y, keys, snap, jnl, sent, owed)
        /\ Clean(y, owed) => MirrorOk(y.view.st, snap, jnl)
        /\ DiskOk(snap, jnl, sent, owed) /\ sent \in SUBSET Nat
        /\ keys \in Ids \cup {None} /\ snap \in States \cup {None} /\ jnl \in Files
        /\ sent \in SUBSET (1 .. MaxSequence - 1) /\ owed \in {"no", "marked", "begun"}
    BY <1>1, <1>2, WriterFacts
  <1>4. PICK x : x = [y EXCEPT !.pc = "compact"]
    OBVIOUS
  <1>5. "compact" \in Phases
    BY DEF Phases
  <1>6. /\ x.pc = "compact" /\ x.view = y.view /\ x.open = y.open /\ x.refused = y.refused
        /\ x \in ProcRecords
    BY <1>3, <1>4, <1>5 DEF ProcRecords
  <1>7. y.view.st \in States /\ MemoryOk(y.view.st, sent, owed)
    BY <1>2, <1>3, RecIs DEF PhaseOk
  <1>8. DiskOk(snap', jnl', sent', owed')
    BY <1>2, <1>3, <1>7, DiskCompacted
  <1>9. PhaseOk(x, keys', snap', jnl', sent', owed')
    BY <1>2, <1>3, <1>6, <1>7 DEF PhaseOk
  <1>10. Clean(x, owed') => MirrorOk(x.view.st, snap', jnl')
    BY <1>2, <1>3, <1>6, <1>7, MirrorCompacted DEF Clean, MemoryOk
  <1>11. proc[p].pc \notin {"out", "reader"} /\ x.pc \notin {"out", "reader"}
    BY <1>1, <1>2, <1>6
  <1>12. snap' \in States \cup {None}
    BY <1>2, <1>7
  <1> QED BY <1>2, <1>3, <1>4, <1>6, <1>8, <1>9, <1>10, <1>11, <1>12, WriterStep DEF WriterOk

LEMMA CompactTruncateInv ==
    ASSUME ProjectInv, NEW p \in Procs, CompactTruncate(p)
    PROVE  ProjectInv'
  <1>1. PICK y : y = proc[p]
    OBVIOUS
  <1>2. /\ y.pc = "compact"
        /\ proc' = [proc EXCEPT ![p] = [y EXCEPT !.pc = "idle", !.open = y.open \/ jnl # None,
                                                 !.refused = y.refused /\ jnl = None]]
        /\ jnl' = IF jnl = None THEN None ELSE <<>>
        /\ keys' = keys /\ snap' = snap /\ holder' = holder /\ sent' = sent /\ owed' = owed
    BY <1>1 DEF CompactTruncate, Ghosts
  <1>3. /\ y \in ProcRecords /\ PhaseOk(y, keys, snap, jnl, sent, owed)
        /\ Clean(y, owed) => MirrorOk(y.view.st, snap, jnl)
        /\ DiskOk(snap, jnl, sent, owed) /\ sent \in SUBSET Nat
        /\ keys \in Ids \cup {None} /\ snap \in States \cup {None} /\ jnl \in Files
        /\ sent \in SUBSET (1 .. MaxSequence - 1) /\ owed \in {"no", "marked", "begun"}
    BY <1>1, <1>2, WriterFacts
  <1>4. PICK b \in BOOLEAN : b = (y.open \/ jnl # None)
    BY <1>3, RecIs
  <1>5. PICK c \in BOOLEAN : c = (y.refused /\ jnl = None)
    BY <1>3, RecIs
  <1>6. PICK x : x = [y EXCEPT !.pc = "idle", !.open = b, !.refused = c]
    OBVIOUS
  <1>7. x = [y EXCEPT !.pc = "idle", !.open = y.open \/ jnl # None, !.refused = y.refused /\ jnl = None]
    BY <1>4, <1>5, <1>6
  <1>8. /\ x.pc = "idle" /\ x.view = y.view /\ x.open = b /\ x.refused = c /\ x \in ProcRecords
    BY <1>3, <1>6 DEF ProcRecords, Phases
  <1>9. snap = y.view.st /\ snap \in States /\ MemoryOk(snap, sent, owed)
    BY <1>2, <1>3, RecIs DEF PhaseOk
  <1>10. CASE jnl = None
    <2>1. b = y.open /\ c = y.refused /\ jnl' = jnl
      BY <1>2, <1>3, <1>4, <1>5, <1>10, RecIs
    <2>2. PhaseOk(x, keys', snap', jnl', sent', owed')
      BY <1>2, <1>3, <1>8, <1>9, <2>1 DEF PhaseOk
    <2>3. Clean(x, owed') => MirrorOk(x.view.st, snap', jnl')
      BY <1>2, <1>3, <1>8, <2>1 DEF Clean
    <2> QED BY ZenonT(40), <1>1, <1>2, <1>3, <1>7, <1>8, <2>1, <2>2, <2>3, WriterStep DEF WriterOk
  <1>11. CASE jnl # None
    <2>1. b = TRUE /\ c = FALSE /\ jnl' = <<>>
      BY <1>2, <1>3, <1>4, <1>5, <1>11, RecIs
    <2>2. DiskOk(snap', jnl', sent', owed') /\ MirrorOk(snap', snap', jnl')
      BY <1>2, <1>9, <2>1, DiskFresh
    <2>3. <<>> # None /\ <<>> \in Files /\ snap # None
      <3>1. <<>> \in Seq(LineSet)
        OBVIOUS
      <3>2. <<>> # None /\ snap # None
        BY <1>9, <3>1, FilesAssumption
      <3> QED BY <3>1, <3>2 DEF Files, Journals
    <2>4. PhaseOk(x, keys', snap', jnl', sent', owed')
      BY <1>2, <1>3, <1>8, <1>9, <2>1, <2>3 DEF PhaseOk
    <2>5. Clean(x, owed') => MirrorOk(x.view.st, snap', jnl')
      BY <1>2, <1>8, <1>9, <2>2
    <2> QED BY <1>1, <1>2, <1>3, <1>7, <1>8, <2>1, <2>2, <2>3, <2>4, <2>5, WriterStep DEF WriterOk
  <1> QED BY <1>10, <1>11

LEMMA IoFailInv ==
    ASSUME ProjectInv, NEW p \in Procs, IoFail(p)
    PROVE  ProjectInv'
  <1>1. PICK y : y = proc[p]
    OBVIOUS
  <1>2. /\ y.pc \in {"initSnapshot", "initJournal", "rebind", "compact"}
        /\ proc' = [proc EXCEPT ![p] = [y EXCEPT !.pc = "idle"]]
        /\ keys' = keys /\ snap' = snap /\ jnl' = jnl /\ holder' = holder /\ sent' = sent /\ owed' = owed
    BY <1>1 DEF IoFail, Ghosts
  <1>3. /\ y \in ProcRecords /\ PhaseOk(y, keys, snap, jnl, sent, owed)
        /\ Clean(y, owed) => MirrorOk(y.view.st, snap, jnl)
        /\ DiskOk(snap, jnl, sent, owed)
        /\ keys \in Ids \cup {None} /\ snap \in States \cup {None} /\ jnl \in Files
        /\ sent \in SUBSET (1 .. MaxSequence - 1) /\ owed \in {"no", "marked", "begun"}
    BY <1>1, <1>2, WriterFacts
  <1>4. PICK x : x = [y EXCEPT !.pc = "idle"]
    OBVIOUS
  <1>5. "idle" \in Phases
    BY DEF Phases
  <1>6. /\ x.pc = "idle" /\ x.view = y.view /\ x.open = y.open /\ x.refused = y.refused
        /\ x \in ProcRecords
    BY <1>3, <1>4, <1>5 DEF ProcRecords
  <1>7. PhaseOk(x, keys', snap', jnl', sent', owed')
    BY <1>2, <1>3, <1>6 DEF PhaseOk
  <1>8. Clean(x, owed') => MirrorOk(x.view.st, snap', jnl')
    BY <1>2, <1>3, <1>6 DEF Clean
  <1>9. proc[p].pc \notin {"out", "reader"} /\ x.pc \notin {"out", "reader"}
    BY <1>1, <1>2, <1>6
  <1> QED BY <1>2, <1>3, <1>4, <1>6, <1>7, <1>8, <1>9, WriterStep DEF WriterOk

LEMMA EmptyFile == <<>> # None /\ <<>> \in Files /\ <<>> \in Journals /\ Lines(<<>>) = <<>>
  <1>1. <<>> \in Seq(LineSet)
    OBVIOUS
  <1>2. <<>> # None
    BY <1>1, FilesAssumption
  <1> QED BY <1>1, <1>2 DEF Files, Journals, Lines

LEMMA InitializeKeysInv ==
    ASSUME ProjectInv, NEW p \in Procs, InitializeKeys(p)
    PROVE  ProjectInv'
  <1>1. PICK y : y = proc[p]
    OBVIOUS
  <1>2. PICK id \in Ids :
          /\ y.pc = "idle" /\ y.view.keys = None /\ y.view.st = None /\ keys = None /\ keys' = id
          /\ proc' = [proc EXCEPT ![p] = [y EXCEPT !.pc = "initSnapshot",
                         !.view = [y.view EXCEPT !.keys = id, !.match = FALSE]]]
          /\ snap' = snap /\ jnl' = jnl /\ holder' = holder /\ sent' = sent /\ owed' = owed
    BY <1>1 DEF InitializeKeys, Ghosts
  <1>3. /\ y \in ProcRecords /\ PhaseOk(y, keys, snap, jnl, sent, owed)
        /\ DiskOk(snap, jnl, sent, owed)
        /\ keys \in Ids \cup {None} /\ snap \in States \cup {None} /\ jnl \in Files
        /\ sent \in SUBSET (1 .. MaxSequence - 1) /\ owed \in {"no", "marked", "begun"}
    BY <1>1, <1>2, WriterFacts
  <1>4. PICK v : v = [y.view EXCEPT !.keys = id, !.match = FALSE]
    OBVIOUS
  <1>5. v \in Views /\ v.keys = id /\ v.st = None
    BY <1>2, <1>3, <1>4, RecIs DEF Views
  <1>6. PICK x : x = [y EXCEPT !.pc = "initSnapshot", !.view = v]
    OBVIOUS
  <1>7. /\ x.pc = "initSnapshot" /\ x.view = v /\ x.open = y.open /\ x.refused = y.refused
        /\ x \in ProcRecords
    BY <1>3, <1>5, <1>6 DEF ProcRecords, Phases
  <1>8. id # None
    BY ConstantsAssumption
  <1>9. PhaseOk(x, keys', snap', jnl', sent', owed')
    BY <1>2, <1>3, <1>5, <1>7, <1>8 DEF PhaseOk
  <1>10. ~Clean(x, owed')
    BY <1>5, <1>7 DEF Clean
  <1>11. proc[p].pc \notin {"out", "reader"} /\ x.pc \notin {"out", "reader"}
    BY <1>1, <1>2, <1>7
  <1>12. keys' \in Ids \cup {None} /\ proc' = [proc EXCEPT ![p] = x]
    BY <1>2, <1>4, <1>6
  <1> QED BY <1>2, <1>3, <1>7, <1>9, <1>10, <1>11, <1>12, WriterStep DEF WriterOk

LEMMA InitializeSnapshotInv ==
    ASSUME ProjectInv, NEW p \in Procs, InitializeSnapshot(p)
    PROVE  ProjectInv'
  <1>1. PICK y : y = proc[p]
    OBVIOUS
  <1>2. /\ y.pc = "initSnapshot" /\ snap' = NewState(y.view.keys)
        /\ proc' = [proc EXCEPT ![p] = [y EXCEPT !.pc = "initJournal"]]
        /\ keys' = keys /\ jnl' = jnl /\ holder' = holder /\ sent' = sent /\ owed' = owed
    BY <1>1 DEF InitializeSnapshot, Ghosts
  <1>3. /\ y \in ProcRecords /\ PhaseOk(y, keys, snap, jnl, sent, owed)
        /\ keys \in Ids \cup {None} /\ snap \in States \cup {None} /\ jnl \in Files
        /\ sent \in SUBSET (1 .. MaxSequence - 1) /\ owed \in {"no", "marked", "begun"}
        /\ None \notin States
    BY <1>1, <1>2, WriterFacts
  <1>4. PICK x : x = [y EXCEPT !.pc = "initJournal"]
    OBVIOUS
  <1>5. /\ x.pc = "initJournal" /\ x.view = y.view /\ x.open = y.open /\ x.refused = y.refused
        /\ x \in ProcRecords
    BY <1>3, <1>4 DEF ProcRecords, Phases
  <1>6. /\ y.view.keys \in Ids /\ y.view.st = None /\ keys # None
        /\ sent = {} /\ owed # "begun"
    BY <1>2, <1>3 DEF PhaseOk
  <1>7. snap' \in States /\ SnapshotConsistent(snap')
    BY <1>2, <1>6, StateIn
  <1>8. DiskOk(snap', jnl', sent', owed')
    BY <1>2, <1>3, <1>6, <1>7 DEF DiskOk
  <1>9. PhaseOk(x, keys', snap', jnl', sent', owed')
    BY <1>2, <1>3, <1>5, <1>6 DEF PhaseOk
  <1>10. ~Clean(x, owed')
    BY <1>5, <1>6 DEF Clean
  <1>11. proc[p].pc \notin {"out", "reader"} /\ x.pc \notin {"out", "reader"}
    BY <1>1, <1>2, <1>5
  <1> QED BY <1>2, <1>3, <1>4, <1>5, <1>7, <1>8, <1>9, <1>10, <1>11, WriterStep DEF WriterOk

LEMMA InitializeJournalInv ==
    ASSUME ProjectInv, NEW p \in Procs, InitializeJournal(p)
    PROVE  ProjectInv'
  <1>1. PICK y : y = proc[p]
    OBVIOUS
  <1>2. PICK v : v = View(y.view.keys, NewState(y.view.keys))
    OBVIOUS
  <1>3. /\ y.pc = "initJournal" /\ jnl' = <<>>
        /\ proc' = [proc EXCEPT ![p] = [y EXCEPT !.pc = "idle", !.view = v]]
        /\ keys' = keys /\ snap' = snap /\ holder' = holder /\ sent' = sent /\ owed' = owed
    BY <1>1, <1>2 DEF InitializeJournal, Ghosts
  <1>4. /\ y \in ProcRecords /\ PhaseOk(y, keys, snap, jnl, sent, owed)
        /\ keys \in Ids \cup {None} /\ snap \in States \cup {None} /\ jnl \in Files
        /\ sent \in SUBSET (1 .. MaxSequence - 1) /\ owed \in {"no", "marked", "begun"}
        /\ None \notin States
    BY <1>1, <1>3, WriterFacts
  <1>5. /\ y.view.keys \in Ids /\ y.view.st = None /\ snap = NewState(y.view.keys)
        /\ sent = {} /\ owed # "begun" /\ ~y.open
    BY <1>3, <1>4 DEF PhaseOk
  <1>6. snap \in States /\ SnapshotConsistent(snap)
    BY <1>5, StateIn
  <1>7. v \in Views /\ v.st = snap
    BY <1>2, <1>5, <1>6, ViewIn
  <1>8. PICK x : x = [y EXCEPT !.pc = "idle", !.view = v]
    OBVIOUS
  <1>9. /\ x.pc = "idle" /\ x.view = v /\ x.open = y.open /\ x.refused = y.refused
        /\ x \in ProcRecords
    BY <1>4, <1>7, <1>8 DEF ProcRecords, Phases
  <1>10. MemoryOk(snap, sent, owed)
    BY <1>5, <1>6 DEF MemoryOk
  <1>11. DiskOk(snap', jnl', sent', owed') /\ MirrorOk(snap', snap', jnl')
    BY <1>3, <1>6, <1>10, DiskFresh
  <1>12. PhaseOk(x, keys', snap', jnl', sent', owed')
    BY <1>3, <1>4, <1>5, <1>6, <1>7, <1>9, <1>10 DEF PhaseOk
  <1>13. Clean(x, owed') => MirrorOk(x.view.st, snap', jnl')
    BY <1>3, <1>7, <1>9, <1>11
  <1>14. proc[p].pc \notin {"out", "reader"} /\ x.pc \notin {"out", "reader"} /\ jnl' \in Files
    BY <1>1, <1>3, <1>9, EmptyFile
  <1> QED BY <1>3, <1>4, <1>8, <1>9, <1>11, <1>12, <1>13, <1>14, WriterStep DEF WriterOk

LEMMA RebindSnapshotInv ==
    ASSUME ProjectInv, NEW p \in Procs, RebindSnapshot(p)
    PROVE  ProjectInv'
  <1>1. PICK y : y = proc[p]
    OBVIOUS
  <1>2. PICK v : v = View(keys, Disk)
    OBVIOUS
  <1>3. /\ y.pc = "idle" /\ Disk # Err /\ keys # None /\ snap' = BlankState(keys)
        /\ proc' = [proc EXCEPT ![p] = [[y EXCEPT !.view = v, !.open = FALSE, !.refused = FALSE]
                                          EXCEPT !.pc = "rebind"]]
        /\ keys' = keys /\ jnl' = jnl /\ holder' = holder /\ sent' = {} /\ owed' = "marked"
    BY <1>1, <1>2 DEF RebindSnapshot, Refreshed
  <1>4. /\ y \in ProcRecords /\ DiskOk(snap, jnl, sent, owed)
        /\ keys \in Ids \cup {None} /\ snap \in States \cup {None} /\ jnl \in Files
        /\ None \notin States
    BY <1>1, <1>3, WriterFacts
  <1>5. Disk \in States \cup {None}
    BY <1>3, <1>4, LoadFacts DEF Disk
  <1>6. v \in Views /\ v.st = Disk /\ v.keys = keys /\ keys \in Ids
    BY <1>2, <1>3, <1>4, <1>5, ViewIn
  <1>7. PICK z : z = [y EXCEPT !.view = v, !.open = FALSE, !.refused = FALSE]
    OBVIOUS
  <1>8. z \in ProcRecords /\ z.view = v /\ z.open = FALSE /\ z.refused = FALSE
    BY <1>4, <1>6, <1>7 DEF ProcRecords
  <1>9. PICK x : x = [z EXCEPT !.pc = "rebind"]
    OBVIOUS
  <1>10. x \in ProcRecords /\ x.pc = "rebind" /\ x.view = v /\ x.open = FALSE /\ x.refused = FALSE
    BY <1>8, <1>9 DEF ProcRecords, Phases
  <1>11. snap' \in States /\ SnapshotConsistent(snap')
    BY <1>3, <1>6, StateIn
  <1>12. DiskOk(snap', jnl', sent', owed')
    BY <1>3, <1>4, <1>11 DEF DiskOk
  <1>13. Disk # None => MemoryOk(Disk, {}, "marked")
    BY <1>4, <1>5, LoadedOk DEF Disk, MemoryOk
  <1>14. PhaseOk(x, keys', snap', jnl', sent', owed')
    BY <1>3, <1>6, <1>10, <1>13 DEF PhaseOk
  <1>15. ~Clean(x, owed')
    BY <1>3, <1>10 DEF Clean
  <1>16. proc[p].pc \notin {"out", "reader"} /\ x.pc \notin {"out", "reader"}
    BY <1>1, <1>3, <1>10
  <1>17. /\ proc' = [proc EXCEPT ![p] = x] /\ sent' \in SUBSET (1 .. MaxSequence - 1)
         /\ owed' \in {"no", "marked", "begun"} /\ snap' \in States \cup {None}
    BY <1>3, <1>7, <1>9, <1>11
  <1> QED BY <1>3, <1>4, <1>10, <1>12, <1>14, <1>15, <1>16, <1>17, WriterStep DEF WriterOk

LEMMA RebindTruncateInv ==
    ASSUME ProjectInv, NEW p \in Procs, RebindTruncate(p)
    PROVE  ProjectInv'
  <1>1. PICK y : y = proc[p]
    OBVIOUS
  <1>2. PICK v : v = View(y.view.keys, BlankState(y.view.keys))
    OBVIOUS
  <1>3. /\ y.pc = "rebind" /\ jnl' = <<>> /\ owed' = "begun"
        /\ proc' = [proc EXCEPT ![p] = [y EXCEPT !.pc = "idle", !.open = TRUE, !.view = v]]
        /\ keys' = keys /\ snap' = snap /\ holder' = holder /\ sent' = sent
    BY <1>1, <1>2 DEF RebindTruncate
  <1>4. /\ y \in ProcRecords /\ PhaseOk(y, keys, snap, jnl, sent, owed)
        /\ keys \in Ids \cup {None} /\ snap \in States \cup {None}
        /\ sent \in SUBSET (1 .. MaxSequence - 1) /\ None \notin States
    BY <1>1, <1>3, WriterFacts
  <1>5. y.view.keys \in Ids /\ snap = BlankState(y.view.keys) /\ sent = {}
    BY <1>3, <1>4 DEF PhaseOk
  <1>6. snap \in States /\ SnapshotConsistent(snap) /\ snap.recovery = TRUE
    BY <1>5, StateIn
  <1>7. v \in Views /\ v.st = snap
    BY <1>2, <1>5, <1>6, ViewIn
  <1>8. PICK x : x = [y EXCEPT !.pc = "idle", !.open = TRUE, !.view = v]
    OBVIOUS
  <1>9. x.pc = "idle" /\ x.view = v /\ x.open = TRUE /\ x.refused = y.refused /\ x \in ProcRecords
    BY <1>4, <1>7, <1>8 DEF ProcRecords, Phases
  <1>10. MemoryOk(snap, sent, "begun")
    BY <1>5, <1>6 DEF MemoryOk
  <1>11. DiskOk(snap', jnl', sent', owed') /\ MirrorOk(snap', snap', jnl')
    BY <1>3, <1>6, <1>10, DiskFresh
  <1>12. PhaseOk(x, keys', snap', jnl', sent', owed')
    BY <1>3, <1>4, <1>5, <1>6, <1>7, <1>9, <1>10, EmptyFile DEF PhaseOk
  <1>13. Clean(x, owed') => MirrorOk(x.view.st, snap', jnl')
    BY <1>3, <1>7, <1>9, <1>11
  <1>14. proc[p].pc \notin {"out", "reader"} /\ x.pc \notin {"out", "reader"} /\ jnl' \in Files
    BY <1>1, <1>3, <1>9, EmptyFile
  <1>15. owed' \in {"no", "marked", "begun"}
    BY <1>3
  <1> QED BY <1>3, <1>4, <1>8, <1>9, <1>11, <1>12, <1>13, <1>14, <1>15, WriterStep DEF WriterOk

\* Appends: validated against memory, written, applied.
LEMMA AppendFacts ==
    ASSUME ProjectInv, NEW p \in Procs, proc[p].pc = "append"
    PROVE  /\ proc[p] \in ProcRecords /\ proc[p].open = TRUE /\ proc[p].ev \in Events
           /\ proc[p].view.st \in States /\ snap \in States /\ SnapshotConsistent(snap)
           /\ jnl \in Journals /\ jnl # None
           /\ ValidEvent(proc[p].view.st, proc[p].ev)
           /\ owed = "begun" => proc[p].ev # Complete
           /\ MemoryOk(proc[p].view.st, sent, owed)
           /\ PhaseOk(proc[p], keys, snap, jnl, sent, owed)
           /\ Clean(proc[p], owed) => MirrorOk(proc[p].view.st, snap, jnl)
           /\ DiskOk(snap, jnl, sent, owed)
  <1>1. PICK y : y = proc[p]
    OBVIOUS
  <1>2. /\ y \in ProcRecords /\ PhaseOk(y, keys, snap, jnl, sent, owed)
        /\ Clean(y, owed) => MirrorOk(y.view.st, snap, jnl)
        /\ DiskOk(snap, jnl, sent, owed)
        /\ snap \in States \cup {None} /\ jnl \in Files /\ None \notin States
    BY <1>1, WriterFacts
  <1>3. /\ y.open /\ ValidEvent(y.view.st, y.ev) /\ (owed = "begun" => y.ev # Complete)
        /\ jnl # None /\ y.view.st # None /\ MemoryOk(y.view.st, sent, owed)
    BY <1>1, <1>2 DEF PhaseOk
  <1>4. y.view.st \in States /\ y.open = TRUE /\ y.ev \in Events
    BY <1>2, <1>3, RecIs
  <1>5. jnl \in Journals
    BY <1>2, <1>3 DEF Files
  <1>6. snap \in States
    BY <1>2, <1>3 DEF PhaseOk
  <1>7. SnapshotConsistent(snap)
    BY <1>2, <1>6 DEF DiskOk
  <1> QED BY <1>1, <1>2, <1>3, <1>4, <1>5, <1>6, <1>7

LEMMA ReturnedIs ==
    ASSUME NEW y \in ProcRecords
    PROVE  /\ Returned(y) \in ProcRecords /\ Returned(y).pc = "idle" /\ Returned(y).view = y.view
           /\ Returned(y).open = y.open /\ Returned(y).refused = y.refused
  <1>1. "idle" \in Phases /\ Begin \in Events /\ 0 \in 0 .. MaxSequence - 1
    BY ConstantsAssumption DEF Phases, Events
  <1> QED BY <1>1 DEF Returned, ProcRecords

LEMMA AppendOkInv ==
    ASSUME ProjectInv, NEW p \in Procs, AppendOk(p)
    PROVE  ProjectInv'
  <1>1. PICK y : y = proc[p]
    OBVIOUS
  <1>2. PICK z : z = Returned(y)
    OBVIOUS
  <1>3. PICK w : w = Apply(y.view.st, y.ev)
    OBVIOUS
  <1>4. y.pc = "append"
    BY <1>1 DEF AppendOk
  <1>5. /\ y \in ProcRecords /\ y.open = TRUE /\ y.ev \in Events
        /\ y.view.st \in States /\ snap \in States /\ SnapshotConsistent(snap)
        /\ jnl \in Journals /\ ValidEvent(y.view.st, y.ev)
        /\ owed = "begun" => y.ev # Complete
        /\ MemoryOk(y.view.st, sent, owed)
        /\ PhaseOk(y, keys, snap, jnl, sent, owed)
        /\ Clean(y, owed) => MirrorOk(y.view.st, snap, jnl)
        /\ DiskOk(snap, jnl, sent, owed)
    BY <1>1, <1>4, AppendFacts
  <1>6. /\ keys \in Ids \cup {None} /\ sent \in SUBSET (1 .. MaxSequence - 1) /\ sent \in SUBSET Nat
        /\ owed \in {"no", "marked", "begun"} /\ None \notin States
    BY <1>1, <1>4, WriterFacts
  <1>7. /\ z \in ProcRecords /\ z.pc = "idle" /\ z.view = y.view /\ z.open = TRUE /\ z.refused = y.refused
    BY <1>2, <1>5, ReturnedIs
  <1>8. /\ jnl' = Written(jnl, Line(y.ev))
        /\ proc' = [proc EXCEPT ![p] = [z EXCEPT !.view.st = w]]
        /\ keys' = keys /\ snap' = snap /\ holder' = holder
        /\ sent' = (IF y.ret > 0 THEN sent \cup {y.ret} ELSE sent)
        /\ owed' = (IF y.ev = Begin THEN "begun" ELSE owed)
    <2>1. /\ jnl' = Written(jnl, Line(y.ev))
          /\ keys' = keys /\ snap' = snap /\ holder' = holder
          /\ sent' = (IF y.ret > 0 THEN sent \cup {y.ret} ELSE sent)
          /\ owed' = (IF y.ev = Begin THEN "begun" ELSE owed)
      BY <1>1 DEF AppendOk
    <2>2. proc' = [proc EXCEPT ![p] = Applied(y)]
      BY <1>1 DEF AppendOk
    <2>3. Applied(y) = [z EXCEPT !.view.st = w]
      BY <1>2, <1>3 DEF Applied
    <2>4. proc' = [proc EXCEPT ![p] = [z EXCEPT !.view.st = w]]
      BY <2>2, <2>3
    <2> QED BY <2>1, <2>4
  <1>9. w \in States /\ w.next \in Nat /\ w.next >= y.view.st.next /\ y.view.st.next \in Nat
    BY <1>3, <1>5, ApplyFields, ApplyBounds
  <1>10. PICK v : v = [z.view EXCEPT !.st = w]
    OBVIOUS
  <1>11. v \in Views /\ v.st = w
    BY <1>7, <1>9, <1>10, RecIs DEF Views
  <1>12. PICK x : x = [z EXCEPT !.view = v]
    OBVIOUS
  <1>13. x \in ProcRecords /\ x.pc = "idle" /\ x.view = v /\ x.open = TRUE /\ x.refused = y.refused
    BY <1>7, <1>11, <1>12 DEF ProcRecords
  <1>14. PICK R : R = (IF y.ret > 0 THEN {y.ret} ELSE {})
    OBVIOUS
  <1>15. y.ret \in 0 .. MaxSequence - 1 /\ R \in SUBSET (1 .. MaxSequence - 1) /\ R \in SUBSET Nat
    <2>1. y.ret \in 0 .. MaxSequence - 1
      BY <1>5, RecIs
    <2> QED BY <1>14, <2>1, ConstantsAssumption
  <1>16. sent' = sent \cup R
    BY <1>8, <1>14
  <1>17. \A n \in R : y.ev = Advance(n + 1)
    BY <1>4, <1>5, <1>14 DEF PhaseOk
  <1>18. DiskOk(snap', jnl', sent', owed')
    <2>1. DiskOk(snap, Written(jnl, Line(y.ev)), sent \cup R, IF y.ev = Begin THEN "begun" ELSE owed)
      BY <1>5, <1>6, <1>15, <1>17, DiskAppended
    <2> QED BY <1>8, <1>16, <2>1
  <1>19. MemoryOk(w, sent', owed')
    <2>1. SnapshotConsistent(w)
      BY <1>3, <1>5, ConsistentAfter DEF MemoryOk
    <2>2. ASSUME NEW n \in sent PROVE n < w.next
      <3>1. n < y.view.st.next /\ n \in Nat
        BY <1>5, <1>6 DEF MemoryOk
      <3> QED BY <1>9, <3>1
    <2>3. ASSUME NEW n \in R PROVE n < w.next
      <3>0. y.ev = Advance(n + 1)
        BY <1>17
      <3>1. y.ev.t = "advance" /\ y.ev.n = n + 1
        BY <3>0 DEF Advance
      <3>2. w.next >= n + 1 /\ n \in Nat
        BY <1>3, <1>5, <1>15, <3>1, ApplyBounds
      <3> QED BY <1>9, <3>2
    <2>4. owed' = "begun" => w.recovery
      BY <1>3, <1>5, <1>8, ApplyBounds DEF MemoryOk
    <2> QED BY <1>16, <2>1, <2>2, <2>3, <2>4 DEF MemoryOk
  <1>20. jnl' \in Journals
    BY <1>5, <1>8, WrittenCases, LineOk
  <1>21. jnl' \in Files /\ jnl' # None
    BY <1>20, FilesAssumption DEF Files, Journals
  <1>22. PhaseOk(x, keys', snap', jnl', sent', owed')
    BY <1>5, <1>6, <1>8, <1>9, <1>11, <1>13, <1>19, <1>21 DEF PhaseOk
  <1>23. Clean(x, owed') => MirrorOk(x.view.st, snap', jnl')
    <2>1. Clean(x, owed') => Clean(y, owed)
      BY <1>5, <1>6, <1>13 DEF Clean
    <2> QED BY <1>3, <1>5, <1>8, <1>11, <1>13, <2>1, MirrorAppended
  <1>24. proc' = [proc EXCEPT ![p] = x]
    BY <1>8, <1>10, <1>12
  <1>25. proc[p].pc \notin {"out", "reader"} /\ x.pc \notin {"out", "reader"}
    BY <1>1, <1>4, <1>13
  <1>26. sent' \in SUBSET (1 .. MaxSequence - 1) /\ owed' \in {"no", "marked", "begun"}
    BY <1>6, <1>8, <1>15, <1>16
  <1> QED BY <1>5, <1>6, <1>8, <1>13, <1>18, <1>21, <1>22, <1>23, <1>24, <1>25, <1>26, WriterStep DEF WriterOk

LEMMA AppendFailInv ==
    ASSUME ProjectInv, NEW p \in Procs, AppendFail(p)
    PROVE  ProjectInv'
  <1>1. PICK y : y = proc[p]
    OBVIOUS
  <1>2. PICK z : z = Returned(y)
    OBVIOUS
  <1>3. /\ y.pc = "append" /\ jnl' \in Partial(jnl, y.ev)
        /\ proc' = [proc EXCEPT ![p] = [z EXCEPT !.refused = TRUE]]
        /\ keys' = keys /\ snap' = snap /\ holder' = holder /\ sent' = sent /\ owed' = owed
    BY <1>1, <1>2 DEF AppendFail, Ghosts
  <1>4. /\ y \in ProcRecords /\ y.open = TRUE /\ y.ev \in Events
        /\ y.view.st \in States /\ snap \in States /\ jnl \in Journals
        /\ owed = "begun" => y.ev # Complete
        /\ MemoryOk(y.view.st, sent, owed)
        /\ DiskOk(snap, jnl, sent, owed)
    BY <1>1, <1>3, AppendFacts
  <1>5. /\ keys \in Ids \cup {None} /\ sent \in SUBSET (1 .. MaxSequence - 1) /\ sent \in SUBSET Nat
        /\ owed \in {"no", "marked", "begun"} /\ None \notin States
    BY <1>1, <1>3, WriterFacts
  <1>6. /\ z \in ProcRecords /\ z.pc = "idle" /\ z.view = y.view /\ z.open = TRUE
    BY <1>2, <1>4, ReturnedIs
  <1>7. PICK x : x = [z EXCEPT !.refused = TRUE]
    OBVIOUS
  <1>8. x \in ProcRecords /\ x.pc = "idle" /\ x.view = y.view /\ x.open = TRUE /\ x.refused = TRUE
    BY <1>6, <1>7 DEF ProcRecords
  <1>9. jnl' \in Journals /\ Grown(jnl', jnl, y.ev)
    BY <1>3, <1>4, PartialCases
  <1>10. jnl' \in Files /\ jnl' # None
    BY <1>9, FilesAssumption DEF Files, Journals
  <1>11. DiskOk(snap', jnl', sent', owed')
    BY <1>3, <1>4, <1>5, <1>9, DiskGrows
  <1>12. PhaseOk(x, keys', snap', jnl', sent', owed')
    BY <1>3, <1>4, <1>5, <1>8, <1>10 DEF PhaseOk
  <1>13. ~Clean(x, owed')
    BY <1>8 DEF Clean
  <1>14. proc[p].pc \notin {"out", "reader"} /\ x.pc \notin {"out", "reader"}
    BY <1>1, <1>3, <1>8
  <1> QED BY <1>3, <1>4, <1>5, <1>7, <1>8, <1>10, <1>11, <1>12, <1>13, <1>14, WriterStep DEF WriterOk

\* The start of an append.
LEMMA StartAppendInv ==
    ASSUME ProjectInv, NEW p \in Procs, NEW e \in Events, NEW ret \in 0 .. MaxSequence - 1,
           StartAppend(p, e, ret),
           ret = 0 \/ (ret = proc[p].view.st.next /\ e = Advance(ret + 1)),
           owed' = "no" \/ (owed' = owed /\ e # Complete)
    PROVE  ProjectInv'
  <1>1. PICK y : y = proc[p]
    OBVIOUS
  <1>2. PICK x : x = Appending(y, e, ret)
    OBVIOUS
  <1>3. /\ y.pc = "idle" /\ y.view.st # None /\ y.open /\ ValidEvent(y.view.st, e)
        /\ proc' = [proc EXCEPT ![p] = x]
        /\ keys' = keys /\ snap' = snap /\ jnl' = jnl /\ holder' = holder /\ sent' = sent
    BY <1>1, <1>2 DEF StartAppend
  <1>4. /\ y \in ProcRecords /\ PhaseOk(y, keys, snap, jnl, sent, owed)
        /\ Clean(y, owed) => MirrorOk(y.view.st, snap, jnl)
        /\ DiskOk(snap, jnl, sent, owed)
        /\ keys \in Ids \cup {None} /\ snap \in States \cup {None} /\ jnl \in Files
        /\ sent \in SUBSET (1 .. MaxSequence - 1) /\ owed \in {"no", "marked", "begun"}
    BY <1>1, <1>3, WriterFacts
  <1>5. /\ x.pc = "append" /\ x.view = y.view /\ x.open = y.open /\ x.refused = y.refused
        /\ x.ev = e /\ x.ret = ret /\ x \in ProcRecords
    BY <1>2, <1>4 DEF ProcRecords, Phases, Appending
  <1>6. MemoryOk(y.view.st, sent, owed) /\ MemoryOk(y.view.st, sent', owed')
    BY <1>3, <1>4 DEF PhaseOk, MemoryOk
  <1>7. DiskOk(snap', jnl', sent', owed')
    BY <1>3, <1>4 DEF DiskOk
  <1>8. PhaseOk(x, keys', snap', jnl', sent', owed')
    BY <1>1, <1>3, <1>4, <1>5, <1>6 DEF PhaseOk
  <1>9. Clean(x, owed') => MirrorOk(x.view.st, snap', jnl')
    BY <1>3, <1>4, <1>5 DEF Clean
  <1>10. proc[p].pc \notin {"out", "reader"} /\ x.pc \notin {"out", "reader"}
    BY <1>1, <1>3, <1>5
  <1>11. owed' \in {"no", "marked", "begun"}
    BY <1>4
  <1> QED BY <1>3, <1>4, <1>5, <1>7, <1>8, <1>9, <1>10, <1>11, WriterStep DEF WriterOk

LEMMA AdvanceIn ==
    ASSUME NEW n \in 1 .. MaxSequence
    PROVE  Advance(n) \in Events /\ Advance(n) # Complete
  BY DEF Advance, Events, Complete

LEMMA ReserveInv ==
    ASSUME ProjectInv, NEW p \in Procs, proc[p].view.st # None, proc[p].view.st.next < MaxSequence,
           StartAppend(p, Advance(proc[p].view.st.next + 1), proc[p].view.st.next), owed' = owed
    PROVE  ProjectInv'
  <1>1. PICK n : n = proc[p].view.st.next
    OBVIOUS
  <1>2. proc[p] \in ProcRecords
    BY DEF ProjectInv, Types
  <1>3. n \in 1 .. MaxSequence
    BY <1>1, <1>2, RecIs DEF States
  <1>4. n + 1 \in 1 .. MaxSequence /\ n \in 0 .. MaxSequence - 1
    BY <1>1, <1>3, ConstantsAssumption
  <1>5. Advance(n + 1) \in Events /\ Advance(n + 1) # Complete
    BY <1>4, AdvanceIn
  <1> QED BY <1>1, <1>4, <1>5, StartAppendInv

LEMMA AppendStarts ==
    ASSUME ProjectInv, NEW p \in Procs,
           \/ ReserveClient(p) \/ ReserveManagement(p) \/ AdvanceClient(p) \/ Record(p)
           \/ FinishRecovery(p)
    PROVE  ProjectInv'
  <1>0. 0 \in 0 .. MaxSequence - 1
    BY ConstantsAssumption
  <1>1. CASE ReserveClient(p)
    <2>1. proc[p].view.st # None
      BY <1>1 DEF ReserveClient, Ready
    <2> QED BY <1>1, <2>1, ReserveInv DEF ReserveClient
  <1>2. CASE ReserveManagement(p)
    BY <1>2, ReserveInv DEF ReserveManagement
  <1>3. CASE AdvanceClient(p)
    <2>1. PICK n \in 1 .. MaxSequence : StartAppend(p, Advance(n), 0)
      BY <1>3 DEF AdvanceClient
    <2>2. owed' = owed
      BY <1>3 DEF AdvanceClient
    <2> QED BY <1>0, <2>1, <2>2, AdvanceIn, StartAppendInv
  <1>4. CASE Record(p)
    <2>1. PICK e \in Recorded : StartAppend(p, e, 0)
      BY <1>4 DEF Record
    <2>2. owed' = owed
      BY <1>4 DEF Record
    <2>3. e \in Observations /\ e \in Events
      BY RecordedAssumption DEF Events
    <2>4. e # Complete
      BY <2>3 DEF Observations, Complete
    <2> QED BY <1>0, <2>1, <2>2, <2>3, <2>4, StartAppendInv
  <1>5. CASE FinishRecovery(p)
    <2>1. Complete \in Events
      BY DEF Events
    <2> QED BY <1>0, <1>5, <2>1, StartAppendInv DEF FinishRecovery
  <1> QED BY <1>1, <1>2, <1>3, <1>4, <1>5

\* The load depends on the lines only, once there is a snapshot.
LEMMA SameLines ==
    ASSUME NEW s \in States \cup {None}, NEW j \in Files, NEW i \in Files, NEW S, NEW o,
           i = j \/ (s # None /\ Lines(i) = Lines(j)), DiskOk(s, j, S, o)
    PROVE  Load(s, i) = Load(s, j) /\ Lines(i) = Lines(j) /\ DiskOk(s, i, S, o)
  <1>1. CASE i = j
    BY <1>1
  <1>2. CASE s # None /\ Lines(i) = Lines(j)
    <2>1. SnapshotConsistent(s)
      BY <1>2 DEF DiskOk
    <2>2. Load(s, i) = Load(s, j)
      BY <1>2, <2>1, LoadFacts
    <2> QED BY <1>2, <2>2 DEF DiskOk
  <1> QED BY <1>1, <1>2

\* A writer that has just reloaded.
LEMMA FreshWriter ==
    ASSUME NEW s \in States \cup {None}, NEW j \in Files, NEW i \in Files, NEW S, NEW o,
           DiskOk(s, j, S, o), i = j \/ (s # None /\ Lines(i) = Lines(j)),
           Load(s, j) # Err, NEW k, NEW x \in ProcRecords,
           x.view.st = Load(s, j), x.pc \in {"idle", "append"},
           x.pc = "append" => x.open /\ x.ev = Begin /\ x.ret = 0,
           x.open => i # None /\ x.view.st # None
    PROVE  DiskOk(s, i, S, o) /\ WriterOk(x, k, s, i, S, o)
  <1>0. None # Err /\ None \notin States
    BY ConstantsAssumption, FilesAssumption
  <1>1. Load(s, i) = Load(s, j) /\ Lines(i) = Lines(j) /\ DiskOk(s, i, S, o)
    BY SameLines
  <1>2. PICK d : d = Load(s, j)
    OBVIOUS
  <1>3. d \in States \cup {None}
    BY <1>2, LoadFacts
  <1>4. CASE d = None
    <2>1. s = None
      BY <1>2, <1>4, LoadFacts
    <2>2. S = {} /\ o # "begun"
      BY <2>1 DEF DiskOk
    <2> QED BY <1>1, <1>2, <1>4, <2>1, <2>2 DEF WriterOk, PhaseOk, Clean
  <1>5. CASE d \in States
    <2>1. s \in States /\ MemoryOk(d, S, o) /\ MirrorOk(d, s, i)
      BY <1>1, <1>2, <1>5, LoadedOk
    <2>2. ValidEvent(d, Begin) /\ Begin # Complete
      BY DEF ValidEvent, CarriesKey, Begin, Complete
    <2>3. PhaseOk(x, k, s, i, S, o)
      BY <1>0, <1>2, <1>5, <2>1, <2>2 DEF PhaseOk
    <2> QED BY <1>1, <1>2, <2>1, <2>3 DEF WriterOk
  <1> QED BY <1>3, <1>4, <1>5

LEMMA RefreshedIs ==
    ASSUME ProjectInv, NEW y \in ProcRecords, Disk # Err
    PROVE  /\ Refreshed(y) \in ProcRecords /\ Refreshed(y).view.st = Disk
           /\ Refreshed(y).view = View(keys, Disk) /\ Refreshed(y).pc = y.pc
           /\ Refreshed(y).open = FALSE /\ Refreshed(y).refused = FALSE
           /\ Refreshed(y).ev = y.ev /\ Refreshed(y).ret = y.ret
           /\ Disk \in States \cup {None}
  <1>1. keys \in Ids \cup {None} /\ Disk \in States \cup {None}
    BY LoadFacts DEF Disk, ProjectInv, Types
  <1>2. PICK v \in Views : v = View(keys, Disk) /\ v.st = Disk
    BY <1>1, ViewIn
  <1>3. Refreshed(y) = [y EXCEPT !.view = v, !.open = FALSE, !.refused = FALSE]
    BY <1>2 DEF Refreshed
  <1> QED BY <1>1, <1>2, <1>3 DEF ProcRecords

LEMMA BeginMutationInv ==
    ASSUME ProjectInv, NEW p \in Procs, BeginMutation(p)
    PROVE  ProjectInv'
  <1>1. PICK y : y = proc[p]
    OBVIOUS
  <1>2. y.pc = "idle" /\ Disk # Err
    BY <1>1 DEF BeginMutation
  <1>3. /\ y \in ProcRecords /\ DiskOk(snap, jnl, sent, owed)
        /\ keys \in Ids \cup {None} /\ snap \in States \cup {None} /\ jnl \in Files
        /\ sent \in SUBSET (1 .. MaxSequence - 1) /\ owed \in {"no", "marked", "begun"}
        /\ None # Err /\ None \notin States
    BY <1>1, <1>2, WriterFacts
  <1>4. PICK z : z = Refreshed(y)
    OBVIOUS
  <1>5. /\ z \in ProcRecords /\ z.view.st = Disk /\ z.pc = "idle" /\ z.refused = FALSE
        /\ Disk \in States \cup {None}
    BY <1>2, <1>3, <1>4, RefreshedIs
  <1>6. PICK ok \in BOOLEAN :
          /\ ok => Disk # None
          /\ proc' = [proc EXCEPT ![p] = [z EXCEPT !.open = ok]]
          /\ jnl' = IF ok /\ jnl = None THEN <<>> ELSE jnl
    <2>1. PICK ok : ok = (/\ View(keys, Disk).st # None /\ View(keys, Disk).keys # None
                          /\ View(keys, Disk).match /\ ~View(keys, Disk).st.recovery)
      OBVIOUS
    <2>2. /\ proc' = [proc EXCEPT ![p] = [z EXCEPT !.open = ok]]
          /\ jnl' = IF ok /\ jnl = None THEN <<>> ELSE jnl
      BY <1>1, <1>4, <2>1 DEF BeginMutation
    <2>3. ok \in BOOLEAN
      BY <2>1
    <2>4. ok => Disk # None
      BY <1>3, <1>5, <2>1, ViewIn
    <2> QED BY <2>2, <2>3, <2>4
  <1>7. keys' = keys /\ snap' = snap /\ holder' = holder /\ sent' = sent /\ owed' = owed
    BY DEF BeginMutation, Ghosts
  <1>8. PICK x : x = [z EXCEPT !.open = ok]
    OBVIOUS
  <1>9. x \in ProcRecords /\ x.pc = "idle" /\ x.view = z.view /\ x.open = ok
    BY <1>5, <1>6, <1>8 DEF ProcRecords
  <1>10. snap = None => Disk = None
    BY <1>2, <1>3, LoadFacts DEF Disk
  <1>11. jnl' \in Files /\ (jnl' = jnl \/ (snap # None /\ Lines(jnl') = Lines(jnl)))
    BY <1>3, <1>6, <1>10, EmptyFile DEF Lines
  <1>12. ok => jnl' # None
    BY <1>6, EmptyFile
  <1>13. DiskOk(snap, jnl', sent, owed) /\ WriterOk(x, keys, snap, jnl', sent, owed)
    BY <1>2, <1>3, <1>5, <1>6, <1>9, <1>11, <1>12, FreshWriter DEF Disk
  <1>14. proc[p].pc \notin {"out", "reader"} /\ x.pc \notin {"out", "reader"}
    BY <1>1, <1>2, <1>9
  <1> QED BY <1>3, <1>6, <1>7, <1>8, <1>9, <1>11, <1>13, <1>14, WriterStep

LEMMA BeginRecoveryInv ==
    ASSUME ProjectInv, NEW p \in Procs, BeginRecovery(p)
    PROVE  ProjectInv'
  <1>1. PICK y : y = proc[p]
    OBVIOUS
  <1>2. y.pc = "idle" /\ Disk # Err
    BY <1>1 DEF BeginRecovery
  <1>3. /\ y \in ProcRecords /\ DiskOk(snap, jnl, sent, owed)
        /\ keys \in Ids \cup {None} /\ snap \in States \cup {None} /\ jnl \in Files
        /\ sent \in SUBSET (1 .. MaxSequence - 1) /\ owed \in {"no", "marked", "begun"}
        /\ None # Err /\ None \notin States
    BY <1>1, <1>2, WriterFacts
  <1>4. PICK z : z = Refreshed(y)
    OBVIOUS
  <1>5. /\ z \in ProcRecords /\ z.view.st = Disk /\ z.pc = "idle" /\ z.refused = FALSE
        /\ Disk \in States \cup {None}
    BY <1>2, <1>3, <1>4, RefreshedIs
  <1>6. View(keys, Disk).st = Disk
    BY <1>3, <1>5, ViewIn
  <1>7. PICK u : u = [z EXCEPT !.open = TRUE]
    OBVIOUS
  <1>8. /\ u \in ProcRecords /\ u.pc = "idle" /\ u.view = z.view /\ u.open = TRUE
    BY <1>5, <1>7 DEF ProcRecords
  <1>9. /\ keys' = keys /\ snap' = snap /\ holder' = holder /\ sent' = sent /\ owed' = owed
        /\ jnl' = Lines(jnl) /\ Disk # None
    BY <1>6 DEF BeginRecovery, Ghosts
  <1>10. PICK x : x = Appending(u, Begin, 0)
    OBVIOUS
  <1>11. proc' = [proc EXCEPT ![p] = u] \/ proc' = [proc EXCEPT ![p] = x]
    BY <1>1, <1>4, <1>7, <1>10 DEF BeginRecovery
  <1>12. Begin \in Events /\ 0 \in 0 .. MaxSequence - 1
    BY ConstantsAssumption DEF Events
  <1>13. /\ x \in ProcRecords /\ x.pc = "append" /\ x.view = z.view /\ x.open = TRUE
         /\ x.ev = Begin /\ x.ret = 0
    BY <1>8, <1>10, <1>12 DEF ProcRecords, Phases, Appending
  <1>14. snap # None
    BY <1>2, <1>3, <1>9, LoadFacts DEF Disk
  <1>15. Lines(jnl) \in Files /\ Lines(jnl) # None /\ Lines(Lines(jnl)) = Lines(jnl)
    BY <1>3, EmptyFile DEF Lines, Files
  <1>16. /\ DiskOk(snap, jnl', sent, owed)
         /\ WriterOk(u, keys, snap, jnl', sent, owed) /\ WriterOk(x, keys, snap, jnl', sent, owed)
    <2>1. DiskOk(snap, jnl', sent, owed) /\ WriterOk(u, keys, snap, jnl', sent, owed)
      BY <1>2, <1>3, <1>5, <1>8, <1>9, <1>14, <1>15, FreshWriter DEF Disk
    <2>2. WriterOk(x, keys, snap, jnl', sent, owed)
      BY <1>2, <1>3, <1>5, <1>9, <1>13, <1>14, <1>15, FreshWriter DEF Disk
    <2> QED BY <2>1, <2>2
  <1>17. proc[p].pc \notin {"out", "reader"} /\ u.pc \notin {"out", "reader"} /\ x.pc \notin {"out", "reader"}
    BY <1>1, <1>2, <1>8, <1>13
  <1>18. CASE proc' = [proc EXCEPT ![p] = u]
    BY <1>3, <1>8, <1>9, <1>15, <1>16, <1>17, <1>18, WriterStep
  <1>19. CASE proc' = [proc EXCEPT ![p] = x]
    BY <1>3, <1>9, <1>13, <1>15, <1>16, <1>17, <1>19, WriterStep
  <1> QED BY <1>11, <1>18, <1>19

\* A process that leaves the lock to others.
LEMMA UnlockedFacts ==
    ASSUME ProjectInv, NEW p \in Procs
    PROVE  /\ proc[p] \in ProcRecords /\ p # None
           /\ proc[p].pc \in {"out", "reader"} => holder # p
           /\ DiskOk(snap, jnl, sent, owed)
           /\ keys \in Ids \cup {None} /\ snap \in States \cup {None} /\ jnl \in Files
           /\ holder \in Procs \cup {None}
           /\ sent \in SUBSET (1 .. MaxSequence - 1) /\ sent \in SUBSET Nat
           /\ owed \in {"no", "marked", "begun"}
           /\ proc \in [Procs -> ProcRecords]
  <1>1. p # None /\ 1 .. MaxSequence - 1 \subseteq Nat
    BY ConstantsAssumption
  <1>2. proc[p].pc \in {"out", "reader"} => holder # p
    BY DEF ProjectInv, OneWriter
  <1> QED BY <1>1, <1>2 DEF ProjectInv, Types

LEMMA OpenInv ==
    ASSUME ProjectInv, NEW p \in Procs, Open(p)
    PROVE  ProjectInv'
  <1>1. PICK j \in IF holder # None /\ proc[holder].pc = "append"
                      THEN Partial(jnl, proc[holder].ev) ELSE {jnl} :
          /\ Load(snap, j) # Err
          /\ proc' = [proc EXCEPT ![p] =
                       [Out EXCEPT !.pc = "reader", !.view = View(keys, Load(snap, j))]]
    BY DEF Open
  <1>2. /\ proc[p].pc = "out" /\ keys' = keys /\ snap' = snap /\ jnl' = jnl /\ holder' = holder
        /\ sent' = sent /\ owed' = owed
    BY DEF Open, Ghosts
  <1>3. /\ proc[p] \in ProcRecords /\ holder # p /\ DiskOk(snap, jnl, sent, owed)
        /\ keys \in Ids \cup {None} /\ snap \in States \cup {None} /\ jnl \in Files
        /\ holder \in Procs \cup {None}
        /\ sent \in SUBSET (1 .. MaxSequence - 1) /\ owed \in {"no", "marked", "begun"}
        /\ proc \in [Procs -> ProcRecords]
    BY <1>2, UnlockedFacts
  <1>4. j \in Files
    <2>1. CASE holder # None /\ proc[holder].pc = "append"
      <3>1. holder \in Procs /\ jnl \in Journals /\ proc[holder].ev \in Events
        BY <1>3, <2>1, AppendFacts
      <3> QED BY <1>1, <2>1, <3>1, PartialCases DEF Files
    <2> QED BY <1>1, <1>3, <2>1
  <1>5. Load(snap, j) \in States \cup {None}
    BY <1>1, <1>3, <1>4, LoadFacts
  <1>6. PICK v \in Views : v = View(keys, Load(snap, j))
    BY <1>3, <1>5, ViewIn
  <1>7. PICK x : x = [Out EXCEPT !.pc = "reader", !.view = v]
    OBVIOUS
  <1>8. x \in ProcRecords /\ x.pc = "reader" /\ x.refused = FALSE
    BY <1>7, OutIs DEF ProcRecords, Phases
  <1>9. /\ proc' = [q \in Procs |-> proc'[q]]
        /\ \A q \in Procs : proc'[q] = IF q = p THEN x ELSE proc[q]
    BY <1>1, <1>3, <1>6, <1>7
  <1>10. ReaderOk(x)
    BY <1>8 DEF ReaderOk
  <1> QED BY <1>2, <1>3, <1>8, <1>9, <1>10, StepInv

\* A process goes, and with it the lock it may hold.
LEMMA LeaveInv ==
    ASSUME ProjectInv, NEW p \in Procs, proc' = [proc EXCEPT ![p] = Out],
           holder' = IF holder = p THEN None ELSE holder,
           keys' = keys, snap' = snap, sent' = sent, owed' = owed,
           jnl' \in Files, DiskOk(snap, jnl', sent, owed),
           holder # p => jnl' = jnl
    PROVE  ProjectInv'
  <1>1. /\ p # None /\ keys \in Ids \cup {None} /\ snap \in States \cup {None}
        /\ holder \in Procs \cup {None}
        /\ sent \in SUBSET (1 .. MaxSequence - 1) /\ owed \in {"no", "marked", "begun"}
        /\ proc \in [Procs -> ProcRecords]
    BY UnlockedFacts
  <1>2. PICK x : x = Out
    OBVIOUS
  <1>3. x \in ProcRecords /\ x.pc = "out" /\ x.refused = FALSE
    BY <1>2, OutIs
  <1>4. /\ proc' = [q \in Procs |-> proc'[q]]
        /\ \A q \in Procs : proc'[q] = IF q = p THEN x ELSE proc[q]
    BY <1>1, <1>2
  <1>5. ReaderOk(x)
    BY <1>3 DEF ReaderOk
  <1>6. /\ holder' \in Procs \cup {None} /\ holder' # p
        /\ \A q \in Procs \ {p} : holder' = q <=> holder = q
    <2>1. None \notin Procs
      BY ConstantsAssumption
    <2> QED BY <1>1, <2>1
  <1> QED BY <1>1, <1>3, <1>4, <1>5, <1>6, StepInv

LEMMA DropWriterInv ==
    ASSUME ProjectInv, NEW p \in Procs, DropWriter(p)
    PROVE  ProjectInv'
  <1>1. /\ proc' = [proc EXCEPT ![p] = Out] /\ holder' = IF holder = p THEN None ELSE holder
        /\ keys' = keys /\ snap' = snap /\ jnl' = jnl /\ sent' = sent /\ owed' = owed
    BY DEF DropWriter, Ghosts
  <1>2. jnl \in Files /\ DiskOk(snap, jnl, sent, owed)
    BY UnlockedFacts
  <1> QED BY <1>1, <1>2, LeaveInv

LEMMA CrashInv ==
    ASSUME ProjectInv, NEW p \in Procs, Crash(p)
    PROVE  ProjectInv'
  <1>1. /\ proc[p].pc \notin {"out", "reader"}
        /\ jnl' \in IF proc[p].pc = "append" THEN Partial(jnl, proc[p].ev) ELSE {jnl}
        /\ proc' = [proc EXCEPT ![p] = Out] /\ holder' = IF holder = p THEN None ELSE holder
        /\ keys' = keys /\ snap' = snap /\ sent' = sent /\ owed' = owed
    BY DEF Crash, Ghosts
  <1>2. /\ holder = p /\ jnl \in Files /\ DiskOk(snap, jnl, sent, owed) /\ sent \in SUBSET Nat
        /\ snap \in States \cup {None}
    BY <1>1, WriterFacts
  <1>3. CASE proc[p].pc = "append"
    <2>1. /\ proc[p].ev \in Events /\ jnl \in Journals
          /\ owed = "begun" => proc[p].ev # Complete
      BY <1>3, AppendFacts
    <2>2. jnl' \in Journals /\ Grown(jnl', jnl, proc[p].ev)
      BY <1>1, <1>3, <2>1, PartialCases
    <2>3. DiskOk(snap, jnl', sent, owed) /\ jnl' \in Files
      BY <1>2, <2>1, <2>2, DiskGrows DEF Files
    <2> QED BY <1>1, <1>2, <2>3, LeaveInv
  <1>4. CASE proc[p].pc # "append"
    BY <1>1, <1>2, <1>4, LeaveInv
  <1> QED BY <1>3, <1>4

LEMMA IntoWriterInv ==
    ASSUME ProjectInv, NEW p \in Procs, IntoWriter(p)
    PROVE  ProjectInv'
  <1>1. PICK y : y = proc[p]
    OBVIOUS
  <1>2. /\ y.pc = "reader"
        /\ keys' = keys /\ snap' = snap /\ jnl' = jnl /\ sent' = sent /\ owed' = owed
    BY <1>1 DEF IntoWriter, Ghosts
  <1>3. /\ y \in ProcRecords /\ holder # p /\ p # None /\ DiskOk(snap, jnl, sent, owed)
        /\ keys \in Ids \cup {None} /\ snap \in States \cup {None} /\ jnl \in Files
        /\ holder \in Procs \cup {None}
        /\ sent \in SUBSET (1 .. MaxSequence - 1) /\ owed \in {"no", "marked", "begun"}
        /\ proc \in [Procs -> ProcRecords]
    BY <1>1, <1>2, UnlockedFacts
  <1>4. CASE holder # None \/ Disk = Err
    <2>1. proc' = [proc EXCEPT ![p] = Out] /\ holder' = holder
      BY <1>4 DEF IntoWriter
    <2> QED BY <1>2, <1>3, <2>1, LeaveInv
  <1>5. CASE holder = None /\ Disk # Err
    <2>1. PICK z : z = Refreshed(y)
      OBVIOUS
    <2>2. /\ z \in ProcRecords /\ z.view.st = Disk /\ z.open = FALSE
      BY <1>3, <1>5, <2>1, RefreshedIs
    <2>3. holder' = p /\ proc' = [proc EXCEPT ![p] = [z EXCEPT !.pc = "idle"]]
      BY <1>1, <1>5, <2>1 DEF IntoWriter
    <2>4. PICK x : x = [z EXCEPT !.pc = "idle"]
      OBVIOUS
    <2>5. x \in ProcRecords /\ x.pc = "idle" /\ x.view = z.view /\ x.open = FALSE
      BY <2>2, <2>4 DEF ProcRecords, Phases
    <2>6. WriterOk(x, keys, snap, jnl, sent, owed)
      BY <1>3, <1>5, <2>2, <2>5, FreshWriter DEF Disk
    <2>7. /\ proc' = [q \in Procs |-> proc'[q]]
          /\ \A q \in Procs : proc'[q] = IF q = p THEN x ELSE proc[q]
      BY <1>3, <2>3, <2>4
    <2>8. ReaderOk(x)
      BY <2>5 DEF ReaderOk
    <2>9. /\ \A q \in Procs \ {p} : holder' = q <=> holder = q
      BY <1>5, <2>3, ConstantsAssumption
    <2> QED BY <1>2, <1>3, <2>3, <2>5, <2>6, <2>7, <2>8, <2>9, StepInv
  <1> QED BY <1>4, <1>5

\* The user replaces a file while nobody holds the lock.
LEMMA ReplacedInv ==
    ASSUME ProjectInv, ReplaceKeys \/ LoseState
    PROVE  ProjectInv'
  <1>1. holder = None /\ holder' = None /\ proc' = proc
    BY DEF ReplaceKeys, LoseState
  <1>2. Types /\ OneWriter /\ DiskOk(snap, jnl, sent, owed) /\ \A p \in Procs : ReaderOk(proc[p])
    BY DEF ProjectInv
  <1>3. keys' \in Ids \cup {None}
    BY <1>2 DEF ReplaceKeys, LoseState, Types
  <1>4. /\ snap' \in States \cup {None} /\ jnl' \in Files
        /\ sent' \in SUBSET (1 .. MaxSequence - 1) /\ owed' \in {"no", "marked", "begun"}
    BY <1>2 DEF ReplaceKeys, LoseState, Types, Files, Ghosts
  <1>5. DiskOk(snap', jnl', sent', owed')
    <2>1. CASE ReplaceKeys
      BY <1>2, <2>1 DEF ReplaceKeys, Ghosts
    <2>2. CASE LoseState
      <3>1. Load(None, None) = None
        BY DEF Load
      <3> QED BY <2>2, <3>1 DEF LoseState, DiskOk
    <2> QED BY <2>1, <2>2
  <1>6. Types'
    BY <1>1, <1>2, <1>3, <1>4 DEF Types
  <1>7. OneWriter'
    BY <1>1, <1>2 DEF OneWriter
  <1>8. \A p \in Procs : holder' # p
    BY <1>1, ConstantsAssumption
  <1> QED BY <1>1, <1>2, <1>5, <1>6, <1>7, <1>8 DEF ProjectInv

LEMMA InitInv == Init => ProjectInv
  <1> SUFFICES ASSUME Init PROVE ProjectInv
    OBVIOUS
  <1>1. proc \in [Procs -> ProcRecords] /\ \A p \in Procs : proc[p].pc = "out" /\ proc[p].refused = FALSE
    BY OutIs DEF Init
  <1>2. Types
    BY <1>1 DEF Init, Types, Files
  <1>3. \A p \in Procs : holder # p
    BY ConstantsAssumption DEF Init
  <1>4. DiskOk(snap, jnl, sent, owed)
    <2>1. Load(None, None) = None
      BY DEF Load
    <2> QED BY <2>1 DEF Init, DiskOk
  <1> QED BY <1>1, <1>2, <1>3, <1>4 DEF ProjectInv, OneWriter, ReaderOk

LEMMA StutterInv == ProjectInv /\ UNCHANGED vars => ProjectInv'
  BY DEF vars, ProjectInv, Types, OneWriter

LEMMA StepKeepsInv == ProjectInv /\ Next => ProjectInv'
  <1> SUFFICES ASSUME ProjectInv, Next PROVE ProjectInv'
    OBVIOUS
  <1>1. ASSUME NEW p \in Procs,
               \/ Open(p) \/ IntoWriter(p) \/ DropWriter(p)
               \/ InitializeKeys(p) \/ InitializeSnapshot(p) \/ InitializeJournal(p)
        PROVE  ProjectInv'
    BY <1>1, OpenInv, IntoWriterInv, DropWriterInv, InitializeKeysInv, InitializeSnapshotInv,
       InitializeJournalInv
  <1>2. ASSUME NEW p \in Procs,
               \/ AppendOk(p) \/ AppendFail(p) \/ ReserveClient(p) \/ ReserveManagement(p)
               \/ AdvanceClient(p) \/ Record(p) \/ FinishRecovery(p)
        PROVE  ProjectInv'
    BY <1>2, AppendOkInv, AppendFailInv, AppendStarts
  <1>3. ASSUME NEW p \in Procs,
               \/ BeginMutation(p) \/ BeginRecovery(p) \/ RebindSnapshot(p) \/ RebindTruncate(p)
               \/ CompactSnapshot(p) \/ CompactTruncate(p) \/ IoFail(p) \/ Crash(p)
        PROVE  ProjectInv'
    BY <1>3, BeginMutationInv, BeginRecoveryInv, RebindSnapshotInv, RebindTruncateInv,
       CompactSnapshotInv, CompactTruncateInv, IoFailInv, CrashInv
  <1> QED BY <1>1, <1>2, <1>3, ReplacedInv DEF Next

-----------------------------------------------------------------------------
(* The theorems.                                                           *)

\* Whatever programs open, lock, append to, compact and recover the project,
\* wherever they die and whatever a write leaves behind (store.rs), the disk and
\* the writer's memory keep the promises of ProjectInv.
THEOREM ProjectInvariant == Spec => []ProjectInv
  <1>1. ProjectInv /\ [Next]_vars => ProjectInv'
    BY StepKeepsInv, StutterInv
  <1> QED BY <1>1, InitInv, PTL DEF Spec

LEMMA TypesHold == ProjectInv => TypeOK
  <1> SUFFICES ASSUME ProjectInv PROVE TypeOK
    OBVIOUS
  <1>1. Types /\ OneWriter
    BY DEF ProjectInv
  <1>2. jnl = None \/ \A i \in DOMAIN jnl : jnl[i] \in LineSet
    BY <1>1 DEF Types, Files, Journals
  <1>3. \A p \in Procs : proc[p].view.st = None \/ proc[p].view.st \in States
    BY <1>1, RecIs DEF Types
  <1> QED BY <1>1, <1>2, <1>3 DEF TypeOK, Types, OneWriter

LEMMA NumbersHold == ProjectInv => NeverReused
  <1> SUFFICES ASSUME ProjectInv PROVE NeverReused
    OBVIOUS
  <1>1. sent \in SUBSET (1 .. MaxSequence - 1) /\ DiskOk(snap, jnl, sent, owed)
    BY DEF ProjectInv, Types
  <1>2. Disk \notin {None, Err} => \A n \in sent : n < Disk.next
    BY <1>1 DEF DiskOk, Disk
  <1>3. ASSUME NEW p \in Procs, proc[p].pc = "append" PROVE proc[p].ret \notin sent
    <2>1. PICK y : y = proc[p]
      OBVIOUS
    <2>2. /\ PhaseOk(y, keys, snap, jnl, sent, owed) /\ MemoryOk(y.view.st, sent, owed)
          /\ y.view.st \in States
      BY <1>3, <2>1, AppendFacts
    <2>3. y.ret = 0 \/ y.ret = y.view.st.next
      BY <1>3, <2>1, <2>2 DEF PhaseOk
    <2>4. \A n \in sent : n \in Nat /\ n > 0 /\ n < y.view.st.next
      BY <1>1, <2>2, ConstantsAssumption DEF MemoryOk
    <2>5. y.view.st.next \in Nat
      BY <2>2 DEF States
    <2> QED BY <2>1, <2>3, <2>4, <2>5
  <1> QED BY <1>2, <1>3 DEF NeverReused

\* reserve_client_sequence and append hand out no sequence number twice and none
\* beyond the 48-bit space: whatever crashed, failed or was compacted, the next
\* session loads a floor above every number handed out.
THEOREM CountersSafeHolds == Spec => []CountersSafe
  <1>1. ProjectInv => CountersSafe
    BY TypesHold, NumbersHold DEF CountersSafe
  <1> QED BY <1>1, ProjectInvariant, PTL

\* Once begin_recovery has returned, no crash, reopening or further session
\* loads a state that permits normal secure sending until finish_recovery.
THEOREM RecoveryBlocksHolds == Spec => []RecoveryBlocks
  <1>1. ProjectInv => RecoveryBlocks
    <2> SUFFICES ASSUME ProjectInv, owed = "begun", Disk # Err
                 PROVE  ~Ready(View(keys, Disk))
      BY DEF RecoveryBlocks
    <2>1. /\ snap \in States \cup {None} /\ jnl \in Files /\ keys \in Ids \cup {None}
          /\ DiskOk(snap, jnl, sent, owed)
      BY DEF ProjectInv, Types
    <2>2. snap # None
      BY <2>1 DEF DiskOk
    <2>3. Disk \in States
      BY <2>1, <2>2, LoadFacts DEF Disk
    <2>4. Disk.recovery
      BY <2>1, <2>3, LoadedOk DEF Disk, MemoryOk
    <2> QED BY <2>1, <2>3, <2>4, ViewIn DEF Ready
  <1> QED BY <1>1, ProjectInvariant, PTL

\* What append and compact leave in the writer's memory is what load_state would
\* give, also when the journal is replayed over a snapshot that already holds
\* its events.
THEOREM ReloadIsExactHolds == Spec => []ReloadIsExact
  <1>1. ProjectInv => ReloadIsExact
    <2> SUFFICES ASSUME ProjectInv, NEW p \in Procs,
                        proc[p].pc \in {"idle", "compact"}, proc[p].open, ~proc[p].refused,
                        \A i \in DOMAIN jnl : jnl[i].ok,
                        ~(Rotates(jnl) /\ \E d \in Devices : snap.dev[d].key # None)
                 PROVE  Disk = proc[p].view.st
      BY DEF ReloadIsExact
    <2>1. PICK y : y = proc[p]
      OBVIOUS
    <2>2. /\ PhaseOk(y, keys, snap, jnl, sent, owed)
          /\ Clean(y, owed) => MirrorOk(y.view.st, snap, jnl)
          /\ jnl \in Files
      BY <2>1, WriterFacts
    <2>3. jnl # None /\ y.view.st # None
      BY <2>1, <2>2 DEF PhaseOk
    <2>4. Lines(jnl) = jnl /\ jnl \in Journals
      BY <2>2, <2>3 DEF Lines, Files
    <2>5. AllOk(jnl)
      BY <2>4 DEF AllOk, Journals
    <2>6. MirrorOk(y.view.st, snap, jnl)
      BY <2>1, <2>2, <2>3 DEF Clean
    <2> QED BY <2>1, <2>4, <2>5, <2>6 DEF MirrorOk, Disk
  <1> QED BY <1>1, ProjectInvariant, PTL

\* One event raises the floors or leaves them, unless it wipes the device.
LEMMA ApplyFloors ==
    ASSUME NEW s \in States, NEW e \in Events
    PROVE  /\ Apply(s, e).next >= s.next
           /\ \A d \in Devices : ~(Wipes(e) /\ e.dev = d)
                => Apply(s, e).dev[d].floor >= s.dev[d].floor
  <1>1. Apply(s, e).next >= s.next
    BY ApplyBounds
  <1>2. ASSUME NEW d \in Devices, ~(Wipes(e) /\ e.dev = d)
        PROVE  Apply(s, e).dev[d].floor >= s.dev[d].floor
    <2>1. PICK x \in Deployments : x = s.dev[d]
      BY DEF States
    <2>2. x.floor \in Nat
      BY DEF Deployments
    <2>3. Apply(s, e).dev[d] = IF OnDevice(e) /\ e.dev = d THEN ApplyToDevice(x, e) ELSE x
      BY <2>1, ApplyFields
    <2>4. CASE OnDevice(e) /\ e.dev = d
      <3>1. e \in Observations
        BY <2>4, EventKinds DEF OnDevice
      <3>2. ApplyToDevice(x, e).floor = FloorAfter(x.floor, e)
        BY <3>1, DeviceFields
      <3>3. e.t = "observe" => e.n \in Nat
        BY <3>1 DEF Observations
      <3>4. FloorAfter(x.floor, e) >= x.floor
        BY <1>2, <2>2, <2>4, <3>3 DEF FloorAfter, Larger
      <3> QED BY <2>1, <2>3, <2>4, <3>2, <3>4
    <2>5. CASE ~(OnDevice(e) /\ e.dev = d)
      BY <2>1, <2>2, <2>3, <2>5
    <2> QED BY <2>4, <2>5
  <1> QED BY <1>1, <1>2

\* What a step may do to the floors of the loaded state.
Raised(old, new) ==
    /\ new.next >= old.next
    /\ \A d \in Devices : new.dev[d].floor >= old.dev[d].floor \/ Unloads(d)

LEMMA RaisedSame ==
    ASSUME NEW s \in States
    PROVE  Raised(s, s)
  <1>1. s.next \in Nat /\ \A d \in Devices : s.dev[d].floor \in Nat
    BY DEF States, Deployments
  <1> QED BY <1>1 DEF Raised

LEMMA RaisedByWriting ==
    ASSUME ProjectInv, NEW p \in Procs, proc[p].pc = "append",
           NEW i \in Partial(jnl, proc[p].ev), Load(snap, i) \in States
    PROVE  Raised(Disk, Load(snap, i))
  <1>1. PICK e \in Events : e = proc[p].ev
    BY AppendFacts
  <1>2. snap \in States /\ jnl \in Journals
    BY AppendFacts
  <1>3. i \in Journals /\ Grown(i, jnl, e)
    BY <1>1, <1>2, PartialCases
  <1>4. PICK old \in States : old = Disk /\ (Load(snap, i) = old \/ Load(snap, i) = Apply(old, e))
    BY <1>2, <1>3, LoadGrown DEF Disk
  <1>5. CASE Load(snap, i) = old
    BY <1>4, <1>5, RaisedSame
  <1>6. CASE Load(snap, i) = Apply(old, e)
    <2>1. \A d \in Devices : Wipes(e) /\ e.dev = d => Unloads(d)
      BY <1>1 DEF Unloads, Wipes
    <2>2. /\ Apply(old, e).next >= old.next
          /\ \A d \in Devices : ~(Wipes(e) /\ e.dev = d)
               => Apply(old, e).dev[d].floor >= old.dev[d].floor
      BY ApplyFloors
    <2>3. Raised(old, Apply(old, e))
      BY <2>1, <2>2 DEF Raised
    <2> QED BY <1>4, <1>6, <2>3
  <1> QED BY <1>4, <1>5, <1>6

\* A clean writer's memory is what a load gives, when it gives a state.
LEMMA CleanWriter ==
    ASSUME ProjectInv, NEW p \in Procs, proc[p].pc \notin {"out", "reader"},
           proc[p].view.st # None, ~proc[p].refused, owed # "marked", Disk # Err
    PROVE  Disk = proc[p].view.st /\ MirrorOk(proc[p].view.st, snap, jnl)
  <1>1. Clean(proc[p], owed)
    BY DEF Clean
  <1>2. MirrorOk(proc[p].view.st, snap, jnl)
    BY <1>1, WriterFacts
  <1> QED BY <1>2 DEF MirrorOk, Disk

\* A step that reads the same lines over the same snapshot.
LEMMA RaisedSameFiles ==
    ASSUME ProjectInv, Disk \in States, snap' = snap, jnl' \in Files,
           jnl' = jnl \/ Lines(jnl') = Lines(jnl)
    PROVE  Raised(Disk, Disk')
  <1>1. /\ snap \in States \cup {None} /\ jnl \in Files /\ DiskOk(snap, jnl, sent, owed)
    BY DEF ProjectInv, Types
  <1>2. snap # None
    BY <1>1, LoadFacts, FilesAssumption, ConstantsAssumption DEF Disk
  <1>3. Disk' = Disk
    BY SMTT(30), <1>1, <1>2, SameLines DEF Disk
  <1> QED BY <1>3, RaisedSame

LEMMA FloorStep ==
    ASSUME ProjectInv, ProjectInv', Next, owed # "marked", \A p \in Procs : ~proc[p].refused,
           Disk \in States, Disk' \in States, Disk'.id = Disk.id
    PROVE  Raised(Disk, Disk')
  <1>0. /\ snap \in States \cup {None} /\ jnl \in Files /\ keys \in Ids \cup {None}
        /\ snap' \in States \cup {None} /\ jnl' \in Files
        /\ DiskOk(snap, jnl, sent, owed) /\ DiskOk(snap', jnl', sent', owed')
        /\ None # Err /\ None \notin States /\ Err \notin States
    BY ConstantsAssumption, FilesAssumption DEF ProjectInv, Types
  <1>1. CASE snap' = snap /\ jnl' = jnl
    BY <1>0, <1>1, RaisedSameFiles
  <1>2. ASSUME NEW p \in Procs, AppendOk(p) \/ AppendFail(p) \/ (Crash(p) /\ proc[p].pc = "append")
        PROVE  Raised(Disk, Disk')
    <2>1. /\ proc[p].pc = "append" /\ snap' = snap /\ jnl' \in Partial(jnl, proc[p].ev)
      BY <1>2 DEF AppendOk, AppendFail, Crash, Partial
    <2> QED BY <2>1, RaisedByWriting DEF Disk
  <1>3. ASSUME NEW p \in Procs, InitializeSnapshot(p)
        PROVE  FALSE
    <2>1. proc[p].pc = "initSnapshot"
      BY <1>3 DEF InitializeSnapshot
    <2>2. snap = None
      BY <2>1, WriterFacts DEF PhaseOk
    <2> QED BY <1>0, <2>2, LoadFacts DEF Disk
  <1>4. ASSUME NEW p \in Procs, InitializeJournal(p) \/ BeginMutation(p) \/ BeginRecovery(p)
        PROVE  Raised(Disk, Disk')
    <2>1. snap' = snap
      BY <1>4 DEF InitializeJournal, BeginMutation, BeginRecovery
    <2>2. jnl' = jnl \/ (jnl = None /\ jnl' = <<>>) \/ jnl' = Lines(jnl)
      BY <1>4 DEF InitializeJournal, BeginMutation, BeginRecovery
    <2>3. jnl' = jnl \/ Lines(jnl') = Lines(jnl)
      BY <2>2, EmptyFile DEF Lines
    <2> QED BY <1>0, <2>1, <2>3, RaisedSameFiles
  <1>5. ASSUME NEW p \in Procs, RebindSnapshot(p)
        PROVE  FALSE
    <2>1. keys \in Ids /\ ~View(keys, Disk).match /\ snap' = BlankState(keys)
      BY <1>0, <1>5 DEF RebindSnapshot
    <2>2. keys # Disk.id
      <3>1. Disk # None /\ keys # None
        BY <1>0, <2>1, ConstantsAssumption
      <3>2. ASSUME NEW d, d # None, keys = d.id PROVE View(keys, d).match
        BY <3>1, <3>2 DEF View
      <3> QED BY <2>1, <3>1, <3>2
    <2>3. Disk'.id = keys
      BY <1>0, <2>1, LoadedOk, StateIn DEF Disk
    <2> QED BY <2>2, <2>3
  <1>6. ASSUME NEW p \in Procs, RebindTruncate(p)
        PROVE  FALSE
    <2>1. proc[p].pc = "rebind"
      BY <1>6 DEF RebindTruncate
    <2> QED BY <2>1, WriterFacts DEF PhaseOk
  <1>7. ASSUME NEW p \in Procs, CompactSnapshot(p)
        PROVE  Raised(Disk, Disk')
    <2>1. PICK v : v = proc[p].view.st
      OBVIOUS
    <2>2. proc[p].pc = "idle" /\ v # None /\ snap' = v /\ jnl' = jnl
      BY <1>7, <2>1 DEF CompactSnapshot
    <2>3. Disk = v /\ MirrorOk(v, snap, jnl)
      BY <1>0, <2>1, <2>2, CleanWriter
    <2>4. SnapshotConsistent(v)
      BY <1>0, <2>3, LoadedOk DEF Disk, MemoryOk
    <2>5. MirrorOk(v, v, jnl)
      BY <1>0, <2>3, <2>4, MirrorCompacted
    <2>6. Disk' = v
      BY <1>0, <2>2, <2>5 DEF MirrorOk, Disk
    <2> QED BY <2>3, <2>6, RaisedSame
  <1>8. ASSUME NEW p \in Procs, CompactTruncate(p), jnl' # jnl
        PROVE  Raised(Disk, Disk')
    <2>1. PICK v : v = proc[p].view.st
      OBVIOUS
    <2>2. proc[p].pc = "compact" /\ snap' = snap /\ jnl' = <<>>
      BY <1>8 DEF CompactTruncate
    <2>3. snap = v /\ v # None
      BY <2>1, <2>2, WriterFacts DEF PhaseOk
    <2>4. Disk = v /\ v \in States
      BY <1>0, <2>1, <2>2, <2>3, CleanWriter
    <2>5. MemoryOk(v, sent, owed)
      BY <1>0, <2>4, LoadedOk DEF Disk
    <2>6. Disk' = v
      BY <2>2, <2>3, <2>4, <2>5, DiskFresh DEF Disk
    <2> QED BY <2>4, <2>6, RaisedSame
  <1>9. ASSUME LoseState PROVE FALSE
    BY SMTT(30), <1>0, <1>9, LoadFacts DEF LoseState, Disk
  <1>10. ASSUME NEW p \in Procs,
                \/ Open(p) \/ IntoWriter(p) \/ DropWriter(p) \/ InitializeKeys(p)
                \/ ReserveClient(p) \/ ReserveManagement(p) \/ AdvanceClient(p) \/ Record(p)
                \/ FinishRecovery(p) \/ IoFail(p) \/ (Crash(p) /\ proc[p].pc # "append")
         PROVE  snap' = snap /\ jnl' = jnl
    BY <1>10 DEF Open, IntoWriter, DropWriter, InitializeKeys, ReserveClient, ReserveManagement,
       AdvanceClient, Record, FinishRecovery, IoFail, Crash, StartAppend
  <1>11. ReplaceKeys => snap' = snap /\ jnl' = jnl
    BY DEF ReplaceKeys
  <1> QED BY <1>1, <1>2, <1>3, <1>4, <1>5, <1>6, <1>7, <1>8, <1>9, <1>10, <1>11 DEF Next, CompactTruncate

\* The client floor and the sender floors that load_state gives never move back
\* while the same state is on the disk: an append raises them, a cut or failed
\* one leaves them, compaction keeps them; only a factory unload forgets its
\* device's.
THEOREM FloorsMonotoneHolds == Spec => FloorsMonotone
  <1>1. ProjectInv /\ ProjectInv' /\ [Next]_vars => [FloorsKept]_<<snap, jnl>>
    <2> SUFFICES ASSUME ProjectInv, ProjectInv', [Next]_vars, <<snap, jnl>>' # <<snap, jnl>>
                 PROVE  FloorsKept
      OBVIOUS
    <2>1. Next
      BY DEF vars
    <2>2. Disk \in States \cup {None, Err} /\ Disk' \in States \cup {None, Err}
      BY LoadFacts DEF ProjectInv, Types, Disk
    <2>3. ASSUME owed # "marked", \A p \in Procs : ~proc[p].refused,
                 Disk \notin {None, Err}, Disk' \notin {None, Err}, Disk'.id = Disk.id
          PROVE  Raised(Disk, Disk')
      BY <2>1, <2>2, <2>3, FloorStep
    <2> QED BY <2>3 DEF FloorsKept, Raised
  <1> QED BY <1>1, ProjectInvariant, PTL DEF Spec, FloorsMonotone

=============================================================================
